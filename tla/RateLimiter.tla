----------------------------- MODULE RateLimiter -----------------------------
(***************************************************************************)
(* The discover search's in-process limiter                                *)
(* (backend/crates/api/src/rate_limit.rs): sliding logs of the instants at *)
(* which a request was let through, one for the whole site, one per user   *)
(* on the shared token and one per user on a token of their own.  A check  *)
(* holds one mutex and reads the clock under it, so it is one step.        *)
(* Instants are kept as ages - ticks since the request was let through -   *)
(* so the clock runs for ever; an age stops at Window, where the next      *)
(* prune of the log drops it.                                              *)
(***************************************************************************)
EXTENDS Integers, Sequences, FiniteSets

CONSTANTS
    User,
    GlobalLimit, UserLimit, TokenLimit, \* requests per window, from Settings
    Window,     \* WINDOW_SECS, in clock ticks
    Second      \* clock ticks per second: Instant is finer than retry_after_secs

ASSUME RateLimiterAssumption ==
    /\ {GlobalLimit, UserLimit, TokenLimit} \subseteq Nat
    /\ {Window, Second} \subseteq Nat \ {0}
    /\ Window % Second = 0

VARIABLES
    global,      \* Inner.global, oldest first
    users,       \* Inner.users; a user without an entry has the empty log
    userTokens   \* Inner.user_tokens

limiterVars == <<global, users, userTokens>>

Age == 0 .. Window

\* No log outgrows its limit, however often a refused client tries again: a log is only
\* pruned when it is asked, so what bounds its memory is that a refusal adds nothing.
LimiterTypeOK ==
    /\ global \in Seq(Age) /\ Len(global) <= GlobalLimit
    /\ users \in [User -> Seq(Age)]
    /\ userTokens \in [User -> Seq(Age)]
    /\ \A u \in User : Len(users[u]) <= UserLimit /\ Len(userTokens[u]) <= TokenLimit

LimiterInit ==
    /\ global = << >>
    /\ users = [u \in User |-> << >>]
    /\ userTokens = [u \in User |-> << >>]

\* retain: what is younger than limit.  A log is in the order of the clock, oldest
\* first, so what goes is a prefix of it.
KeepYounger(w, limit) ==
    SubSeq(w, Cardinality({i \in 1 .. Len(w) : w[i] >= limit}) + 1, Len(w))

\* Mutations of the next: a hit is forgotten a tick early, a tick late.
PruneEarly(w) == KeepYounger(w, Window - 1)
PruneLate(w) == KeepYounger(w, Window + 1)

\* Window::prune keeps t > now - window.
Prune(w) == KeepYounger(w, Window)

\* Mutation of the next: measured from the newest hit.
RetryAfterNewest(w) ==
    IF w = << >> THEN 1
    ELSE LET left == (Window - w[Len(w)]) \div Second
         IN  IF left > 1 THEN left ELSE 1

\* Window::retry_after_secs of a pruned log: until the oldest hit leaves the window,
\* in whole seconds, rounded down, at least 1.
RetryAfter(w) ==
    IF w = << >> THEN 1
    ELSE LET left == (Window - w[1]) \div Second
         IN  IF left > 1 THEN left ELSE 1

\* check_shared: the site's log first, then the user's; only a request that passes
\* both is recorded, in both.
SharedVerdict(u) ==
    CASE Len(Prune(global)) >= GlobalLimit ->
             [scope |-> "global", retry |-> RetryAfter(Prune(global))]
      [] Len(Prune(global)) < GlobalLimit /\ Len(Prune(users[u])) >= UserLimit ->
             [scope |-> "user", retry |-> RetryAfter(Prune(users[u]))]
      [] OTHER -> [scope |-> "pass", retry |-> 0]

\* Mutation of the next: the site's log is charged before the user's is asked.
CheckSharedEager(u) ==
    LET scope == SharedVerdict(u).scope
    IN  /\ global' = IF scope = "global" THEN Prune(global) ELSE Append(Prune(global), 0)
        /\ users' = CASE scope = "global" -> users
                      [] scope = "user" -> [users EXCEPT ![u] = Prune(@)]
                      [] scope = "pass" -> [users EXCEPT ![u] = Append(Prune(@), 0)]
        /\ UNCHANGED userTokens

CheckShared(u) ==
    LET scope == SharedVerdict(u).scope
    IN  /\ global' = IF scope = "pass" THEN Append(Prune(global), 0) ELSE Prune(global)
        /\ users' = CASE scope = "global" -> users
                      [] scope = "user" -> [users EXCEPT ![u] = Prune(@)]
                      [] scope = "pass" -> [users EXCEPT ![u] = Append(Prune(@), 0)]
        /\ UNCHANGED userTokens

\* check_user_token: the user's own log; the site's is not touched.
TokenVerdict(u) ==
    IF Len(Prune(userTokens[u])) >= TokenLimit
    THEN [scope |-> "user", retry |-> RetryAfter(Prune(userTokens[u]))]
    ELSE [scope |-> "pass", retry |-> 0]

\* Mutation of the next: a refused attempt is recorded too.
CheckUserTokenCounts(u) ==
    /\ userTokens' = [userTokens EXCEPT ![u] = Append(Prune(@), 0)]
    /\ UNCHANGED <<global, users>>

CheckUserToken(u) ==
    /\ userTokens' = [userTokens EXCEPT ![u] =
           IF TokenVerdict(u).scope = "pass" THEN Append(Prune(@), 0) ELSE Prune(@)]
    /\ UNCHANGED <<global, users>>

Older(w) == [i \in 1 .. Len(w) |-> IF w[i] < Window THEN w[i] + 1 ELSE Window]

ClockTick ==
    /\ global' = Older(global)
    /\ users' = [u \in User |-> Older(users[u])]
    /\ userTokens' = [u \in User |-> Older(userTokens[u])]
=============================================================================
