------------------------------ MODULE RateLimits ------------------------------
(***************************************************************************)
(* The two limits that a login passes: the token buckets of httprate, one   *)
(* per client and dropped when it was not seen for a while, and the failed  *)
(* logins of a client and name (loginLimiter).                              *)
(*                                                                          *)
(* A tick is the window of failures.  Buckets fill by Rate in a tick.       *)
(***************************************************************************)
EXTENDS Integers, FiniteSets, FiniteSetsExt

CONSTANTS Login,         \* requests that log in
          Peer,          \* clients, each with one name
          Rate, Burst, EntryTTL,
          FailureLimit, FailWindow, BlockTime,
          MaxTime, MaxRegress,  \* bounds: the clock, and how far a delayed clock may be behind
          NoEntry

ASSUME LimitConstants ==
  /\ {Rate, Burst, EntryTTL, FailWindow, MaxTime, MaxRegress} \subseteq Nat
  /\ {FailureLimit, BlockTime} \subseteq Nat \ {0}

ASSUME NoEntryApart ==
  /\ NoEntry \notin [tokens : Nat, last : Nat, seen : Nat]
  /\ NoEntry \notin [failures : Nat, lastFail : Nat, blocked : BOOLEAN, blockedAt : Nat]

\* A bucket that is dropped would be full again, even for a delayed request.
ASSUME RefillWithinTTL == Rate * (EntryTTL - MaxRegress) >= Burst

VARIABLES
  now,
  buckets,    \* visitors
  limiterOpen,
  attempts,   \* of loginLimiter; NoEntry
  logins,     \* the requests under way
  admitted,   \* history: how many requests of a client passed the bucket,
  regress,    \* and by how much its clock went back in doing so
  streak      \* history: failures in a row of a client, and when the last was

limitVars == <<now, buckets, limiterOpen, attempts, logins, admitted, regress, streak>>

Waiting == [stage |-> "idle"]
NoStreak == [count |-> 0, last |-> 0]

LimitInit ==
  /\ now = 0 /\ buckets = [p \in Peer |-> NoEntry] /\ limiterOpen = TRUE
  /\ attempts = [p \in Peer |-> NoEntry]
  /\ logins = [r \in Login |-> Waiting]
  /\ admitted = [p \in Peer |-> 0] /\ regress = [p \in Peer |-> 0]
  /\ streak = [p \in Peer |-> NoStreak]

-----------------------------------------------------------------------------
(* httprate.Limiter. *)

\* AllowClient reads the clock before it takes the mutex.
Arrives(r, p) ==
  /\ logins[r] = Waiting
  /\ logins' = [logins EXCEPT ![r] = [stage |-> "arrived", peer |-> p, at |-> now]]
  /\ UNCHANGED <<now, buckets, limiterOpen, attempts, admitted, regress, streak>>

\* rate.Limiter: what a bucket has at a time.  One that goes back adds nothing,
\* but is where the next one starts from.
Tokens(b, t) == Min({Burst, b.tokens + Rate * (IF t > b.last THEN t - b.last ELSE 0)})

AllowClient(r) ==
  LET q == logins[r]
      p == q.peer
      b == IF buckets[p] = NoEntry THEN [tokens |-> Burst, last |-> q.at, seen |-> q.at] ELSE buckets[p]
      n == Tokens(b, q.at)
  IN  /\ q.stage = "arrived" /\ limiterOpen
      /\ regress' = [regress EXCEPT ![p] = @ + Max({0, b.last - q.at})]
      /\ IF n < 1
           THEN /\ buckets' = [buckets EXCEPT ![p] = [b EXCEPT !.seen = q.at]]
                /\ logins' = [logins EXCEPT ![r] = Waiting] /\ UNCHANGED admitted
           ELSE /\ buckets' = [buckets EXCEPT ![p] = [tokens |-> n - 1, last |-> q.at, seen |-> q.at]]
                /\ logins' = [logins EXCEPT ![r] = [stage |-> "admitted", peer |-> p]]
                /\ admitted' = [admitted EXCEPT ![p] = @ + 1]
      /\ UNCHANGED <<now, limiterOpen, attempts, streak>>

\* A closed limiter refuses.
RefuseClosed(r) ==
  /\ logins[r].stage = "arrived" /\ ~limiterOpen
  /\ logins' = [logins EXCEPT ![r] = Waiting]
  /\ UNCHANGED <<now, buckets, limiterOpen, attempts, admitted, regress, streak>>

\* Faulty variant: the comparison is the wrong way round.
StaleWhenSeen(b) == now - b.seen < EntryTTL

Stale(b) == now - b.seen >= EntryTTL

\* prune: by the cleanup worker, at any time.
Prune ==
  /\ limiterOpen
  /\ \E p \in Peer : buckets[p] # NoEntry /\ Stale(buckets[p])
  /\ buckets' = [p \in Peer |-> IF buckets[p] # NoEntry /\ Stale(buckets[p]) THEN NoEntry ELSE buckets[p]]
  /\ UNCHANGED <<now, limiterOpen, attempts, logins, admitted, regress, streak>>

\* Close: nothing is admitted any more.
CloseLimiter ==
  /\ limiterOpen /\ limiterOpen' = FALSE /\ buckets' = [p \in Peer |-> NoEntry]
  /\ UNCHANGED <<now, attempts, logins, admitted, regress, streak>>

-----------------------------------------------------------------------------
(* loginLimiter. *)

\* pruneLocked.
Pruned ==
  [p \in Peer |->
    LET e == attempts[p]
    IN  IF e = NoEntry THEN NoEntry
        ELSE IF e.blocked /\ now - e.blockedAt >= BlockTime THEN NoEntry
        ELSE IF ~e.blocked /\ now - e.lastFail > FailWindow THEN NoEntry
        ELSE e]

\* allow.
Allowed(p) == Pruned[p] = NoEntry \/ ~Pruned[p].blocked

LoginAllowed(r) ==
  /\ logins[r].stage = "admitted"
  /\ attempts' = Pruned
  /\ logins' = [logins EXCEPT ![r] =
       IF Allowed(@.peer) THEN [stage |-> "validating", peer |-> @.peer, since |-> now] ELSE Waiting]
  /\ UNCHANGED <<now, buckets, limiterOpen, admitted, regress, streak>>

\* Faulty variant: the window begins with the first failure.
FailedFromFirst(e) ==
  LET kept == IF e = NoEntry \/ now - e.lastFail > FailWindow
                THEN [failures |-> 0, blocked |-> FALSE, blockedAt |-> 0, lastFail |-> now] ELSE e
      n    == kept.failures + 1
  IN  [failures |-> n, lastFail |-> kept.lastFail, blocked |-> n >= FailureLimit \/ kept.blocked,
       blockedAt |-> IF n >= FailureLimit THEN now ELSE kept.blockedAt]

\* recordFail, for one client.
Failed(e) ==
  LET kept == IF e = NoEntry \/ now - e.lastFail > FailWindow
                THEN [failures |-> 0, blocked |-> FALSE, blockedAt |-> 0, lastFail |-> now] ELSE e
      n    == kept.failures + 1
  IN  [failures |-> n, lastFail |-> now, blocked |-> n >= FailureLimit \/ kept.blocked,
       blockedAt |-> IF n >= FailureLimit THEN now ELSE kept.blockedAt]

LoginFails(r) ==
  LET p == logins[r].peer
  IN  /\ logins[r].stage = "validating"
      /\ attempts' = [Pruned EXCEPT ![p] = Failed(@)]
      /\ streak' = [streak EXCEPT ![p] =
           [count |-> IF (@.count > 0 /\ now - @.last <= FailWindow) \/ @.count >= FailureLimit
                        THEN Min({@.count + 1, FailureLimit}) ELSE 1,
            last |-> now]]
      /\ logins' = [logins EXCEPT ![r] = Waiting]
      /\ UNCHANGED <<now, buckets, limiterOpen, admitted, regress>>

\* recordSuccess.
LoginSucceeds(r) ==
  LET p == logins[r].peer
  IN  /\ logins[r].stage = "validating"
      /\ attempts' = [attempts EXCEPT ![p] = NoEntry]
      /\ streak' = [streak EXCEPT ![p] = NoStreak]
      /\ logins' = [logins EXCEPT ![r] = Waiting]
      /\ UNCHANGED <<now, buckets, limiterOpen, admitted, regress>>

-----------------------------------------------------------------------------
\* Time passes.  A password is compared in less than a window, and a request
\* is not held up for long between its clock and the mutex.
Tick ==
  /\ now < MaxTime
  /\ \A r \in Login : /\ logins[r].stage = "validating" => now < logins[r].since + FailWindow
                      /\ logins[r].stage = "arrived" => now < logins[r].at + MaxRegress
  /\ now' = now + 1
  /\ streak' = [p \in Peer |->
       IF streak[p].count >= FailureLimit /\ now' - streak[p].last >= BlockTime
         THEN NoStreak ELSE streak[p]]
  /\ UNCHANGED <<buckets, limiterOpen, attempts, logins, admitted, regress>>

LimitNext ==
  \/ \E r \in Login, p \in Peer : Arrives(r, p)
  \/ \E r \in Login : AllowClient(r) \/ RefuseClosed(r) \/ LoginAllowed(r) \/ LoginFails(r) \/ LoginSucceeds(r)
  \/ Prune \/ CloseLimiter \/ Tick

LimitSpec == LimitInit /\ [][LimitNext]_limitVars

-----------------------------------------------------------------------------
LimitTypeOK ==
  /\ now \in 0..MaxTime /\ limiterOpen \in BOOLEAN
  /\ \A p \in Peer :
       /\ buckets[p] # NoEntry => buckets[p].tokens \in 0..Burst /\ buckets[p].last \in 0..now
       /\ attempts[p] # NoEntry => attempts[p].failures >= 1 /\ attempts[p].lastFail \in 0..now

\* A client never gets more than its burst and what its rate gave since, though
\* buckets are dropped and made anew; only clocks that were read before the mutex
\* was free give again what they go back by.
AdmissionBounded ==
  \A p \in Peer : admitted[p] <= Burst + Rate * (now + regress[p])

\* Who failed too often in a row is not let in again for the whole time of the
\* block, whatever else is dropped from the table meanwhile.
BlockHolds == \A p \in Peer : streak[p].count >= FailureLimit => ~Allowed(p)

\* httprate and ratelimit.go: what both limiters of a login promise.
LimitsHold == LimitTypeOK /\ AdmissionBounded /\ BlockHolds
===============================================================================
