----------------------------- MODULE RateLimit -----------------------------
(***************************************************************************)
(* garcon::modules::rate_limit_module: token buckets shared by the worker  *)
(* threads that run handle() at the same time.                             *)
(*                                                                         *)
(* A thread reads the clock before it takes the mutex, so a bucket may     *)
(* meet a time older than its last refill.  Tokens are exact: with time in *)
(* ticks, a rule's token is window * TicksPerSecond parts and one tick     *)
(* refills `limit' parts (the code keeps tokens as a double).              *)
(***************************************************************************)
EXTENDS RateRules, FiniteSets

CONSTANTS
    Thread,         \* worker threads
    Request,        \* requests: [method, target, headers]
    Configs,        \* configuration files: sequences of lines [head, fields, means]
    TicksPerSecond, \* resolution of the steady clock
    Jumps,          \* amounts the clock may advance between two steps
    Horizon         \* bound: the clock stops here

ASSUME TimeIsDiscrete ==
    TicksPerSecond \in Nat \ {0} /\ Jumps \subseteq Nat \ {0} /\ Horizon \in Nat \ {0}
ASSUME ConfigsAreText ==
    \A c \in Configs : /\ c \in Seq({c[i] : i \in DOMAIN c})
                       /\ \A i \in DOMAIN c : c[i].fields \in Seq(Seq(STRING))

VARIABLES
    config,     \* the configuration file
    line,       \* the line the constructor is at
    phase,      \* parsing, refused, serving
    rules,      \* _rules
    clock,      \* std::chrono::steady_clock, never 0
    pc,         \* where each thread's handle() is
    key,        \* the bucket of the request it handles: <<rule, subject>>
    now,        \* the time it read
    buckets,    \* _buckets: rule and subject -> [tokens, last]
    reply,      \* what the thread's last handle() answered
    created,    \* history: the time of the first request of a bucket
    admitted    \* history: requests a bucket let through

configVars == <<config, line, phase, rules>>
vars == <<config, line, phase, rules, clock, pc, key, now, buckets, reply, created, admitted>>

Limit(r) == rules[r].limit

\* Parts of one token, and of a full bucket.
Token(r) == rules[r].window * TicksPerSecond
Full(r) == rules[r].burst * Token(r)

Bucket == [tokens : Nat, last : Nat]
Reply == [verdict : {"none", "pass", "limited"}, rule : Nat, remaining : Nat, retry : Nat]
NoKey == <<0, "">>
Unlimited(verdict) == [verdict |-> verdict, rule |-> 0, remaining |-> 0, retry |-> 0]

TypeOK ==
    /\ config \in Configs
    /\ line \in 1..Len(config) + 1
    /\ phase \in {"parsing", "refused", "serving"}
    /\ \A r \in DOMAIN rules : rules[r].valid
    /\ clock \in Nat \ {0}
    /\ pc \in [Thread -> {"idle", "lock", "relock"}]
    /\ \A t \in Thread : pc[t] # "idle" => key[t][1] \in DOMAIN rules
    /\ now \in [Thread -> Nat]
    /\ \A k \in DOMAIN buckets : k[1] \in DOMAIN rules /\ buckets[k] \in Bucket
    /\ reply \in [Thread -> Reply]
    /\ created \in [DOMAIN buckets -> Nat]
    /\ admitted \in [DOMAIN buckets -> Nat]

Init ==
    /\ config \in Configs
    /\ line = 1
    /\ phase = "parsing"
    /\ rules = <<>>
    /\ clock = 1
    /\ pc = [t \in Thread |-> "idle"]
    /\ key = [t \in Thread |-> NoKey]
    /\ now = [t \in Thread |-> 0]
    /\ buckets = <<>>
    /\ reply = [t \in Thread |-> Unlimited("none")]
    /\ created = <<>>
    /\ admitted = <<>>

-----------------------------------------------------------------------------
(* The constructor.                                                        *)

\* One line: what is no rule is skipped, and a rule that is not valid throws.
ParseLine ==
    /\ phase = "parsing" /\ line <= Len(config)
    /\ \/ /\ ~IsRuleLine(config[line])
          /\ UNCHANGED <<phase, rules>>
       \/ /\ IsRuleLine(config[line])
          /\ \E rule \in RulesOf(config[line].fields) :
                \/ /\ rule.valid
                   /\ rules' = Append(rules, rule)
                   /\ UNCHANGED phase
                \/ /\ ~rule.valid
                   /\ phase' = "refused"
                   /\ UNCHANGED rules
    /\ line' = line + 1
    /\ UNCHANGED <<config, clock, pc, key, now, buckets, reply, created, admitted>>

\* The end of the file: a module without a rule throws.
EndOfConfig ==
    /\ phase = "parsing" /\ line > Len(config)
    /\ phase' = IF rules = <<>> THEN "refused" ELSE "serving"
    /\ UNCHANGED <<config, line, rules, clock, pc, key, now, buckets, reply, created, admitted>>

-----------------------------------------------------------------------------
Advance ==
    /\ phase = "serving"
    /\ \E d \in Jumps : clock' = clock + d /\ clock + d <= Horizon
    /\ UNCHANGED <<configVars, pc, key, now, buckets, reply, created, admitted>>

\* The first rule that matches a request.
FirstMatch(q) == CHOOSE r \in Matching(rules, q) : \A s \in Matching(rules, q) : r <= s

\* make_state_key: a bucket per rule and subject.
KeyOf(q) == <<FirstMatch(q), SubjectOf(rules[FirstMatch(q)], q)>>

\* handle(): no rule matches and the request passes unlimited, or
\* check_and_consume reads the clock, before the lock.
Begin(t, q) ==
    /\ phase = "serving" /\ pc[t] = "idle"
    /\ \/ /\ Matching(rules, q) = {}
          /\ reply' = [reply EXCEPT ![t] = Unlimited("pass")]
          /\ UNCHANGED <<pc, key, now>>
       \/ /\ Matching(rules, q) # {}
          /\ pc' = [pc EXCEPT ![t] = "lock"]
          /\ key' = [key EXCEPT ![t] = KeyOf(q)]
          /\ now' = [now EXCEPT ![t] = clock]
          /\ reply' = [reply EXCEPT ![t] = Unlimited("none")]
    /\ UNCHANGED <<configVars, clock, buckets, created, admitted>>

\* A map with one entry set.
Put(map, k, value) == [j \in DOMAIN map \cup {k} |-> IF j = k THEN value ELSE map[j]]

\* The bucket a request finds: a new subject starts with a full one.
Found(k, time) ==
    IF k \in DOMAIN buckets THEN buckets[k] ELSE [tokens |-> Full(k[1]), last |-> time]

\* Defect: an older time refills nothing but is recorded.
RefilledBackwards(b, r, time) ==
    LET gained == b.tokens + (time - b.last) * Limit(r)
    IN [tokens |-> IF time < b.last THEN b.tokens
                   ELSE IF gained < Full(r) THEN gained ELSE Full(r),
        last |-> time]

\* Defect: the refill is not dated.
RefilledUndated(b, r, time) ==
    LET gained == b.tokens + (time - b.last) * Limit(r)
    IN IF time > b.last
       THEN [b EXCEPT !.tokens = IF gained < Full(r) THEN gained ELSE Full(r)]
       ELSE b

\* Refill for the time since the last refill, up to the burst; a time that
\* is not newer changes nothing.
Refilled(b, r, time) ==
    LET gained == b.tokens + (time - b.last) * Limit(r)
    IN IF time > b.last
       THEN [tokens |-> IF gained < Full(r) THEN gained ELSE Full(r), last |-> time]
       ELSE b

\* Defect: the seconds are truncated.
RetryAfterTruncated(b, r) ==
    LET secs == (Token(r) - b.tokens) \div (Limit(r) * TicksPerSecond)
    IN IF secs < 1 THEN 1 ELSE secs

\* Seconds until a bucket holds a token: static_cast<int>(secs + 0.999),
\* at least 1 and at most the window.
RetryAfter(b, r) ==
    LET perSecond == Limit(r) * TicksPerSecond
        rounded == ((Token(r) - b.tokens) * 1000 + 999 * perSecond) \div (1000 * perSecond)
    IN IF rounded < 1 THEN 1
       ELSE IF rounded > rules[r].window THEN rules[r].window ELSE rounded

\* The critical section of check_and_consume.
Consume(t) ==
    /\ pc[t] = "lock"
    /\ LET k == key[t]
           r == k[1]
           b == Refilled(Found(k, now[t]), r, now[t])
           new == k \notin DOMAIN buckets
       IN /\ created' = IF new THEN Put(created, k, now[t]) ELSE created
          /\ \/ /\ b.tokens >= Token(r)
                /\ buckets' = Put(buckets, k, [b EXCEPT !.tokens = @ - Token(r)])
                /\ admitted' = Put(admitted, k, IF new THEN 1 ELSE admitted[k] + 1)
                /\ pc' = [pc EXCEPT ![t] = "relock"]
                /\ UNCHANGED <<key, reply>>
             \/ /\ b.tokens < Token(r)
                /\ buckets' = Put(buckets, k, b)
                /\ reply' = [reply EXCEPT ![t] = [verdict |-> "limited", rule |-> r,
                                 remaining |-> 0, retry |-> RetryAfter(b, r)]]
                /\ pc' = [pc EXCEPT ![t] = "idle"]
                /\ key' = [key EXCEPT ![t] = NoKey]
                /\ admitted' = IF new THEN Put(admitted, k, 0) ELSE admitted
    /\ now' = [now EXCEPT ![t] = 0]
    /\ UNCHANGED <<configVars, clock>>

\* handle() locks again to report the remaining tokens with the pass.
ReportRemaining(t) ==
    /\ pc[t] = "relock"
    /\ LET k == key[t]
       IN reply' = [reply EXCEPT ![t] = [verdict |-> "pass", rule |-> k[1], retry |-> 0,
                        remaining |-> buckets[k].tokens \div Token(k[1])]]
    /\ pc' = [pc EXCEPT ![t] = "idle"]
    /\ key' = [key EXCEPT ![t] = NoKey]
    /\ UNCHANGED <<configVars, clock, now, buckets, created, admitted>>

Next ==
    \/ ParseLine \/ EndOfConfig
    \/ Advance
    \/ \E t \in Thread, q \in Request : Begin(t, q)
    \/ \E t \in Thread : Consume(t) \/ ReportRemaining(t)

Spec == Init /\ [][Next]_vars

-----------------------------------------------------------------------------
(* Properties.                                                             *)

\* The promise of a rule: since its first request a subject has been let
\* through at most burst + rate * elapsed times, in tokens' parts, although
\* threads bring clock readings that are older than the last refill.
RateBound ==
    \A k \in DOMAIN buckets :
        buckets[k].tokens + admitted[k] * Token(k[1])
            <= Full(k[1]) + (buckets[k].last - created[k]) * Limit(k[1])

\* The time of the last refill never goes back, whichever thread takes the
\* lock first: the same interval is not refilled twice.
RefillsMoveForward ==
    [][\A k \in DOMAIN buckets : k \in DOMAIN buckets' /\ buckets'[k].last >= buckets[k].last]_vars

\* The lines of the file that somebody meant as rules, and which of them a line is.
Meant == {i \in DOMAIN config : config[i].means # "nothing"}
Rank(i) == Cardinality({j \in Meant : j <= i})

\* A rule has the numbers of a line, and is about its requests and subjects.
Says(l, rule) ==
    /\ \A n \in DOMAIN l.numbers : rule[n] = l.numbers[n]
    /\ \A q \in Request :
          /\ IsAbout(rule, q) <=> q \in DOMAIN l.subjects
          /\ IsAbout(rule, q) => SubjectOf(rule, q) = l.subjects[q]

\* The module's rules are the ones that were meant, or it did not load.
AsMeant ==
    /\ phase = "refused" => \/ Meant = {}
                            \/ \E i \in Meant : config[i].means \in {"wrong", "overflow"}
    /\ phase = "serving" => Len(rules) = Cardinality(Meant)
    /\ Len(rules) <= Cardinality(Meant)
    /\ \A i \in Meant : Rank(i) \in DOMAIN rules =>
          LET rule == rules[Rank(i)]
          IN /\ config[i].means # "wrong"
             /\ rule.limit > 0 /\ rule.burst >= rule.limit /\ rule.window \in 1..WindowMax
             /\ config[i].means = "rule" => Says(config[i], rule)

\* When the constructor is done, the rules in force are the ones that were
\* written, in their order, with their numbers, their windows in seconds and
\* their requests and subjects; one that is wrong, or too long for the limit
\* on windows, keeps the module from loading instead.  A number beyond int
\* (rate_limit_module.cpp:107) may become anything, but never a rule that lets
\* nobody through.
ConfigMeansWhatItSays == [][phase' # phase => AsMeant']_vars

\* The bucket of a refused request once its Retry-After has passed without
\* another request.
RefusedNow(t) == pc[t] = "lock" /\ pc'[t] = "idle"
AfterWaiting(t) ==
    LET k == key[t]
    IN buckets'[k].tokens + reply'[t].retry * TicksPerSecond * Limit(k[1])

\* A client that waits for Retry-After seconds and a millisecond, alone on
\* its bucket, finds a token: the rounding of rate_limit_module.cpp:323 and
\* the clamp to the window cost no more than that.
RetryAlmostSuffices ==
    [][\A t \in Thread : RefusedNow(t) =>
        LET r == key[t][1]
        IN AfterWaiting(t) * 1000 + TicksPerSecond * Limit(r) >= Token(r) * 1000]_vars
=============================================================================
