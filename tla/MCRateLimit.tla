---------------------------- MODULE MCRateLimit ----------------------------
(* Small instances of RateLimit: a rule for one path with a key of its own *)
(* before a catch-all rule, a request that no rule matches, and files that *)
(* say what they mean in every form, or nothing good.                      *)
EXTENDS RateLimit, TLC

Q(method, target, headers) == [method |-> method, target |-> target, headers |-> headers]
Login == Q(<<"POST">>, <<"/", "p", "login">>, <<<<<<"x-key">>, "k">>, <<<<"X-Key">>, "l">>>>)
Page == Q(<<"GET">>, <<"/", "p", "page">>, <<<<<<"X-Key">>, "">>>>)
Health == Q(<<"GET">>, <<"/", "health">>, <<>>)
MCRequest == {Login, Page, Health}
MCLowerName == ("X-Key" :> "x-key") @@ ("X-KEY" :> "x-key")

P == <<"/", "p", "*">>
G == <<"global">>
Line(fields, limit, window, burst, subjects) ==
    [head |-> "rule=", fields |-> fields, means |-> "rule", subjects |-> subjects,
     numbers |-> [limit |-> limit, window |-> window, burst |-> burst]]
Other(head) == [head |-> head, fields |-> <<<<"*">>, P, G, <<"1">>, <<"1">>>>, means |-> "nothing"]
Wrong(fields) == [head |-> "rule=", fields |-> fields, means |-> "wrong"]
Overflow(fields) == [head |-> "rule=", fields |-> fields, means |-> "overflow"]

Empty == <<>>
Rare == <<"GET">>
Never == <<"/", "never">>
Numbers(limit, window) == <<Rare, Never, G, limit, window>>

\* The first rule's burst of 1 is below its limit and is raised to 2.
TwoRules ==
    <<Other("#"),
      Line(<<<<"POST">>, <<"/", "p", "login">>, <<"header", ":", "X-Key">>, <<"2">>, <<"3", "s">>,
             <<"1">>>>, 2, 3, 2, Login :> "k"),
      Line(<<<<"*">>, P, <<"X-KEY">>, <<"0", "1">>, <<"2">>, <<"2">>, <<"x">>>>, 1, 2, 2,
           (Login :> "k") @@ (Page :> "<anonymous>"))>>

MCConfigs ==
    {TwoRules, <<>>, <<Other("rule =")>>,
     <<Other("path="), Line(<<<<"GET">>, <<"/", "p">>, G, <<"1">>, <<"1", "m">>>>, 1, 60, 1, Empty)>>,
     <<Line(<<<<"GET">>, <<"/", "health">>, G, <<"1">>, <<"1", "M">>, <<>>>>, 1, 60, 1,
            Health :> "global")>>,
     <<Line(Numbers(<<"1">>, <<"9", "S">>), 1, 9, 1, Empty),
       Wrong(Numbers(<<"1">>, <<"2", "m">>))>>}
    \cup {<<Wrong(f)>> : f \in
            {Numbers(<<"0">>, <<"1">>), Numbers(<<"x">>, <<"1">>), Numbers(<<"1">>, <<"s">>),
             Numbers(<<"1">>, <<>>), Numbers(<<"1">>, <<"3", "m">>), Numbers(<<"1">>, <<"1", "h">>),
             Numbers(<<"1">>, <<"5", "m">>), <<Rare, Never, G, <<"1">>>>,
             <<<<>>, Never, G, <<"1">>, <<"1">>>>, <<Rare, <<"*">>, G, <<"1">>, <<"1">>>>,
             <<Rare, Never, <<"header", ":">>, <<"1">>, <<"1">>>>,
             <<Rare, Never, <<"x", ":", "y">>, <<"1">>, <<"1">>>>,
             <<Rare, Never, <<>>, <<"1">>, <<"1">>>>}}
    \cup {<<Overflow(f)>> : f \in
            {Numbers(<<"3", "0", "0">>, <<"1">>), Numbers(<<"1">>, <<"1", "2", "8", "s">>),
             Numbers(<<"1">>, <<"1">>) \o <<<<"1", "2", "8">>>>}}
=============================================================================
