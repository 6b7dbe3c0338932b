--------------------------- MODULE LimiterService ---------------------------
(***************************************************************************)
(* The budget of ratelimit.py as the server's threads run it.  A report is *)
(* checked on the event loop, where no other report comes between; sensor  *)
(* readings and health checks run on threads of the pool.  Nothing locks   *)
(* the limiter, and CPython may switch threads at any call, so a check is  *)
(* as many steps as there are calls between what it reads and writes.      *)
(***************************************************************************)
EXTENDS RateLimiter

CONSTANTS
    Loop,       \* the event loop, which checks one report at a time
    Workers,    \* threads of the pool
    MaxTime

ASSUME CallersAssumption == Loop \notin Workers /\ IsFiniteSet(Workers)
ASSUME MaxTimeAssumption == MaxTime \in Nat

VARIABLES
    limiter,    \* the process's one RateLimiter
    task,       \* each caller: where it is in its check, and what it holds
    granted,    \* how many requests of each day this process has let through
    mixed,      \* did a check roll the day while one of another day ran?
    now

vars == <<limiter, task, granted, mixed, now>>

Callers == {Loop} \cup Workers

Checking == {"roll", "rebuild", "count", "take", "append", "increment"}

Idle == [at |-> "idle", op |-> "none", client |-> None, clock |-> 0,
         grown |-> FALSE, orphan |-> FALSE]

Task == [at : {"idle"} \cup Checking, op : {"none", "check", "health"},
         client : Clients \cup {None}, clock : 0 .. MaxTime,
         grown : BOOLEAN, orphan : BOOLEAN]

Days == 0 .. DayOf(MaxTime)

TypeOK ==
    /\ limiter \in Limiter
    /\ task \in [Callers -> Task]
    /\ \A p \in Callers : task[p].at \in Checking => task[p].client \in Clients
    /\ granted \in [Days -> Nat]
    /\ mixed \in BOOLEAN
    /\ now \in 0 .. MaxTime

Init ==
    /\ limiter = Fresh
    /\ task = [p \in Callers |-> Idle]
    /\ granted = [d \in Days |-> 0]
    /\ mixed = FALSE
    /\ now = 0

Goto(p, stage) == task' = [task EXCEPT ![p].at = stage]

\* The check has its decision, or has raised.
Done(p) == task' = [task EXCEPT ![p] = Idle]

-----------------------------------------------------------------------------
\* A request arrives and its handler reads the clock.
Arrive(p) ==
    /\ task[p].at = "idle"
    /\ \E c \in Clients, op \in IF p = Loop THEN {"check"} ELSE {"check", "health"} :
         task' = [task EXCEPT ![p] = [Idle EXCEPT !.at = "roll", !.op = op, !.client = c,
                                                  !.clock = now]]
    /\ UNCHANGED <<limiter, granted, mixed, now>>

\* What follows _roll_day: check goes on, remaining_today is done.
AfterRoll(t) == IF t.op = "health" THEN Idle ELSE [t EXCEPT !.at = "count"]

Roll(p) ==
    /\ task[p].at = "roll"
    /\ IF MustRoll(limiter, task[p].clock)
       THEN /\ limiter' = Rolled(limiter, task[p].clock)
            /\ task' = [task EXCEPT ![p].at = "rebuild"]
            /\ mixed' = (mixed \/ \E q \in Callers :
                           /\ task[q].at \in Checking
                           /\ DayOf(task[q].clock) # DayOf(task[p].clock))
       ELSE /\ task' = [task EXCEPT ![p] = AfterRoll(@)]
            /\ UNCHANGED <<limiter, mixed>>
    /\ UNCHANGED <<granted, now>>

\* The dictionary is rebuilt.  A thread that holds the deque of a dropped
\* client goes on with one that nothing refers to any more.
Rebuild(p) ==
    /\ task[p].at = "rebuild"
    /\ limiter' = Rebuilt(limiter)
    /\ task' = [q \in Callers |->
                  IF q = p THEN AfterRoll([task[p] EXCEPT !.grown = FALSE])
                  ELSE IF /\ task[q].at = "append"
                          /\ task[q].client \in limiter.known \ Kept(limiter)
                  THEN [task[q] EXCEPT !.orphan = TRUE]
                  ELSE task[q]]
    /\ UNCHANGED <<granted, mixed, now>>

\* "dictionary changed size during iteration": another thread added a client
\* while this one was rebuilding.
RebuildRaises(p) ==
    /\ task[p].at = "rebuild"
    /\ task[p].grown
    /\ Done(p)
    /\ UNCHANGED <<limiter, granted, mixed, now>>

CheckDay(p) ==
    /\ task[p].at = "count"
    /\ IF DayExhausted(limiter) THEN Done(p) ELSE Goto(p, "take")
    /\ UNCHANGED <<limiter, granted, mixed, now>>

CheckClient(p) ==
    /\ task[p].at = "take"
    /\ LET c == task[p].client
           taken == Taken(limiter, c, task[p].clock)
       IN /\ limiter' = taken
          /\ task' = [q \in Callers |->
                        IF q = p
                        THEN IF ClientExhausted(taken, c) THEN Idle
                             ELSE [task[p] EXCEPT !.at = "append"]
                        ELSE [task[q] EXCEPT !.grown =
                                @ \/ (task[q].at = "rebuild" /\ c \notin limiter.known)]]
    /\ UNCHANGED <<granted, mixed, now>>

Admit(p) ==
    /\ task[p].at = "append"
    /\ limiter' = IF task[p].orphan THEN limiter
                  ELSE Appended(limiter, task[p].client, task[p].clock)
    /\ granted' = [granted EXCEPT ![DayOf(task[p].clock)] = @ + 1]
    /\ Goto(p, "increment")
    /\ UNCHANGED <<mixed, now>>

\* The count goes up: load, add and store, with no call to switch at.
Increment(p) ==
    /\ task[p].at = "increment"
    /\ limiter' = Counted(limiter)
    /\ Done(p)
    /\ UNCHANGED <<granted, mixed, now>>

\* The process is started again: "a restart hands out a fresh budget".
Restart ==
    /\ limiter' = Fresh
    /\ task' = [p \in Callers |-> Idle]
    /\ granted' = [d \in Days |-> 0]
    /\ mixed' = FALSE
    /\ UNCHANGED now

Tick ==
    /\ now < MaxTime
    /\ now' = now + 1
    /\ UNCHANGED <<limiter, task, granted, mixed>>

Step(p) ==
    \/ Roll(p) \/ Rebuild(p) \/ RebuildRaises(p) \/ CheckDay(p) \/ CheckClient(p)
    \/ Admit(p) \/ Increment(p)

Next ==
    \/ \E p \in Callers : Arrive(p) \/ Step(p)
    \/ Restart
    \/ Tick

Spec == Init /\ [][Next]_vars

-----------------------------------------------------------------------------
(* Properties. *)

\* Each pool thread that checks at the same time as the loop can let one request
\* too many through and no more than one, however often they race; with reports
\* alone the budget is exact.  (Unless checks of two days overlap at midnight:
\* they roll the day back and forth, and reset the count each time.)
DailyBudget ==
    mixed \/ \A d \in Days : granted[d] <= ReportsPerDay + Cardinality(Workers)

\* Nobody is turned away for the day while there is budget left in it: the count
\* a check compares never runs ahead of what that check's day was given.
RefusalIsDue ==
    mixed \/ \A p \in Callers :
               task[p].at = "count" /\ DayExhausted(limiter) =>
                  granted[DayOf(task[p].clock)] >= ReportsPerDay

\* Why the two hold, as an invariant every step preserves.  While no two days
\* have been mixed, a check that is past its roll is of the limiter's day, and
\* one before it is of that day or a later one, of which nothing was given out
\* yet.  The count lags behind what its day was given by the checks about to
\* increment it, and only those between the comparison and the grant may still
\* take that day over its cap.
Counting == {p \in Callers : task[p].at = "increment"}
Admitting == {p \in Callers : task[p].at \in {"take", "append"}}

OfOneDay ==
    /\ \A p \in Callers :
         /\ task[p].at \in Checking => task[p].clock <= now
         /\ task[p].at \in Checking \ {"roll"} => limiter.day = DayOf(task[p].clock)
         /\ task[p].at = "roll" /\ limiter.day # None => limiter.day <= DayOf(task[p].clock)
    /\ limiter.day # None => limiter.day \in Days /\ limiter.day <= DayOf(now)

CountLags ==
    /\ limiter.day # None => limiter.count + Cardinality(Counting) = granted[limiter.day]
    /\ \A d \in Days : (limiter.day # None => limiter.day < d) => granted[d] = 0

WithinReach ==
    \A d \in Days :
        granted[d] + (IF d = limiter.day THEN Cardinality(Admitting) ELSE 0)
            <= ReportsPerDay + Cardinality(Workers)

LimiterInv ==
    /\ TypeOK
    /\ mixed \/ (OfOneDay /\ CountLags /\ WithinReach)
=============================================================================
