----------------------------- MODULE HartProofs ------------------------------
(***************************************************************************)
(* The invariants of module Hart, for every kernel whose paths satisfy     *)
(* PathsAssumption, any number of tasks and locks, and any period.         *)
(***************************************************************************)
EXTENDS Hart, TLAPS

USE StackAssumption

TypeInv ==
  /\ intr \in BOOLEAN
  /\ locked \subseteq Locks /\ abandoned \subseteq locked
  /\ restore_intr \in [Locks -> BOOLEAN]
  /\ at \in [Threads -> {"go", "mask", "swap", "unmask"}]
  /\ saved \in [Threads -> BOOLEAN]
  /\ was_enabled \in [Threads -> BOOLEAN]
  /\ stack \in Stacks /\ trapped \subseteq Stacks
  /\ path \in [Threads -> Names]
  /\ pos \in [Threads -> Nat]
  /\ \A th \in Threads : pos[th] \in 1 .. Len(Code[path[th]])
  /\ PANIC_DEPTH \in Nat /\ faults \in Nat

\* Where a thread may be inside an operation, and what it has kept.
WithinInv ==
  \A th \in Threads :
    /\ at[th] = "mask" => OpOf(th).op \in {"lock", "mask"}
    /\ at[th] = "swap" => OpOf(th).op = "lock"
    /\ at[th] = "unmask" => OpOf(th).op = "drop"
    /\ was_enabled[th] = IF OpOf(th).op = "mask" /\ at[th] = "mask" THEN OpOf(th).sie ELSE OpOf(th).was

\* Which paths a thread may be on.
PathInv ==
  /\ \A s \in trapped : path[<<s, "trap">>] \in HandlerNames
  /\ path[<<Idle, "base">>] \in Loops \cup DownNames

\* The running thread: it holds what its path says, its outermost guard is the
\* one that will enable interrupts again, and they are masked until then.
ActiveInv ==
  /\ at[Active] # "unmask" => locked \ abandoned = Op.held
  /\ at[Active] \in {"go", "swap"} /\ Op.held # {} =>
       /\ ~intr
       /\ restore_intr[Op.outer] = Op.sie
       /\ \A l \in Op.held \ {Op.outer} : ~restore_intr[l]
  /\ at[Active] = "go" /\ Op.held = {} => intr = Op.sie
  /\ at[Active] = "mask" => Op.held = {} /\ intr = Op.sie
  /\ at[Active] = "mask" /\ Op.op = "lock" => intr /\ saved[Active]
  /\ at[Active] = "swap" => ~intr /\ saved[Active] = (Op.held = {} /\ Op.sie)
  /\ at[Active] = "unmask" => locked \ abandoned = {} /\ Op.held = {Op.arg} /\ Op.sie /\ ~intr

\* A thread beneath a handler was interrupted where it could be; one that has
\* switched away, or has never run, expects interrupts masked.  None of them
\* holds a lock or is in the middle of on_tick.
BeneathInv ==
  \A s \in trapped :
    LET th == <<s, "base">>
    IN  /\ at[th] \in {"go", "mask"} /\ OpOf(th).held = {} /\ OpOf(th).sie
        /\ at[th] = "mask" /\ OpOf(th).op = "lock" => saved[th]

AwayInv ==
  \A s \in Stacks :
    /\ s # stack => LET th == <<s, IF s \in trapped THEN "trap" ELSE "base">>
                    IN  at[th] = "go" /\ OpOf(th).held = {} /\ ~OpOf(th).sie
    /\ s \notin trapped => at[<<s, "trap">>] = "go" /\ ~was_enabled[<<s, "trap">>]

LockInv == TypeInv /\ WithinInv /\ PathInv /\ ActiveInv /\ BeneathInv /\ AwayInv

\* on_tick is not preempted, and the ticks are at their time.
SuspendedInv ==
  /\ \A s \in Stacks : s # stack =>
       LET o == OpOf(<<s, IF s \in trapped THEN "trap" ELSE "base">>)
       IN  o.tick = 0 /\ o.op # "count"
  /\ \A s \in trapped : OpOf(<<s, "base">>).tick = 0 /\ OpOf(<<s, "base">>).op # "count"

RateInv ==
  /\ looked < NEXT_DEADLINE
  /\ Op.tick = 1 =>
       /\ armed = NEXT_DEADLINE /\ NEXT_DEADLINE <= now
       /\ TICKS * INTERVAL <= NEXT_DEADLINE
       /\ ~skipped => NEXT_DEADLINE = TICKS * INTERVAL
  /\ Op.tick # 1 =>
       /\ NEXT_DEADLINE <= now + INTERVAL
       /\ (TICKS + 1) * INTERVAL <= NEXT_DEADLINE
       /\ ~skipped => NEXT_DEADLINE = (TICKS + 1) * INTERVAL
  /\ Op.tick = 0 => armed = NEXT_DEADLINE
  /\ Op.op = "count" => armed <= now

TimeInv ==
  /\ now \in Nat /\ armed \in Nat /\ TICKS \in Nat /\ NEXT_DEADLINE \in Nat /\ looked \in Nat
  /\ skipped \in BOOLEAN
  /\ SuspendedInv
  /\ faults = 0 => RateInv

-----------------------------------------------------------------------------
(* Paths *)

\* Every operation of a path keeps the discipline of the code.
LEMMA OpFacts ==
  ASSUME NEW n \in Names, NEW i \in 1 .. Len(Code[n])
  PROVE  /\ Code[n][i].op \in OpNames
         /\ Code[n][i].sie \in BOOLEAN /\ Code[n][i].was \in BOOLEAN /\ Code[n][i].tick \in 0 .. 2
         /\ Disciplined(Code[n][i])
         /\ n \in HandlerNames \cup DownNames => ~Code[n][i].sie /\ Code[n][i].op # "die"
         /\ n \in Loops => Code[n][i].op # "die" /\ (Code[n][i].op = "end" => ~Code[n][i].sie)
BY Zenon, PathsAssumption

\* An operation that does not leave its path has a successor, which knows what
\* it should.
LEMMA NextFacts ==
  ASSUME NEW n \in Names, NEW i \in 1 .. Len(Code[n]), Code[n][i].op \notin Leaving
  PROVE  i + 1 \in 1 .. Len(Code[n]) /\ Follows(Code[n][i], Code[n][i + 1])
<1>1. Len(Code[n]) \in Nat /\ i # Len(Code[n])
  BY Zenon, PathsAssumption
<1>2. i < Len(Code[n])
  BY <1>1
<1>3. QED
  BY <1>1, <1>2, PathsAssumption

\* Every path but that of user mode starts masked and without locks.
LEMMA StartFacts ==
  ASSUME NEW n \in Names \ {User}
  PROVE  1 \in 1 .. Len(Code[n]) /\ Starts(Code[n][1])
BY PathsAssumption

\* User mode is one operation, with interrupts on.
LEMMA UserFacts ==
  /\ User \in Names /\ 1 \in 1 .. Len(Code[User])
  /\ Code[User][1].op = "user" /\ Code[User][1].sie /\ Code[User][1].held = {}
  /\ ~Code[User][1].was /\ Code[User][1].tick = 0
BY NamesAssumption, PathsAssumption DEF Disciplined

\* The flags of a path's first operation are Booleans.
LEMMA FirstFlags ==
  ASSUME NEW n \in Names
  PROVE  Code[n][1].sie \in BOOLEAN /\ Code[n][1].was \in BOOLEAN
<1>1. 1 \in 1 .. Len(Code[n])
  BY PathsAssumption
<1>2. QED
  BY Zenon, <1>1, OpFacts

\* In user mode `was_enabled` is not in use.
LEMMA UserWas ==
  Code[User][1].was = FALSE
<1>1. Code[User][1].was \in BOOLEAN /\ ~Code[User][1].was
  BY Zenon, UserFacts, FirstFlags
<1>2. QED
  BY Zenon, <1>1

\* Threads differ when their stacks or their levels do.
LEMMA Apart ==
  ASSUME NEW s \in Stacks, NEW r \in Stacks
  PROVE  /\ <<s, "base">> \in Threads /\ <<s, "trap">> \in Threads
         /\ <<s, "trap">> # <<r, "base">> /\ <<s, "base">> # <<r, "trap">>
         /\ s # r => <<s, "base">> # <<r, "base">> /\ <<s, "trap">> # <<r, "trap">>
BY Zenon, StackAssumption

\* The threads.
LEMMA ThreadFacts ==
  ASSUME stack \in Stacks
  PROVE  /\ Active \in Threads
         /\ \A s \in Stacks : <<s, "base">> \in Threads /\ <<s, "trap">> \in Threads
         /\ stack \in trapped => Active = <<stack, "trap">>
         /\ stack \notin trapped => Active = <<stack, "base">>
BY Zenon DEF Active

\* The operation at hand.
LEMMA AtHand ==
  ASSUME TypeInv, NEW th \in Threads
  PROVE  /\ OpOf(th).op \in OpNames
         /\ OpOf(th).sie \in BOOLEAN /\ OpOf(th).was \in BOOLEAN /\ OpOf(th).tick \in 0 .. 2
         /\ Disciplined(OpOf(th))
         /\ path[th] \in HandlerNames \cup DownNames => ~OpOf(th).sie /\ OpOf(th).op # "die"
         /\ path[th] \in Loops => OpOf(th).op # "die" /\ (OpOf(th).op = "end" => ~OpOf(th).sie)
<1>1. path[th] \in Names /\ pos[th] \in 1 .. Len(Code[path[th]])
  BY Zenon DEF TypeInv
<1>2. QED
  BY Zenon, <1>1, OpFacts DEF OpOf

\* What a step that goes on along its path leaves alone, and where it gets to.
LEMMA Ahead ==
  ASSUME TypeInv, Advanced, Op.op \notin Leaving, UNCHANGED <<path, hereVars>>
  PROVE  /\ Active' = Active
         /\ pos' \in [Threads -> Nat]
         /\ \A th \in Threads : pos'[th] \in 1 .. Len(Code[path'[th]])
         /\ \A th \in Threads : th # Active => OpOf(th)' = OpOf(th)
         /\ Follows(Op, Op')
<1>0. Active \in Threads
  BY Zenon, ThreadFacts DEF TypeInv
<1>1. Active' = Active
  BY Zenon DEF Active, hereVars
<1>2. path[Active] \in Names /\ pos[Active] \in 1 .. Len(Code[path[Active]])
  BY Zenon, <1>0 DEF TypeInv
<1>3. pos[Active] + 1 \in 1 .. Len(Code[path[Active]])
      /\ Follows(Op, Code[path[Active]][pos[Active] + 1])
  BY Zenon, <1>2, NextFacts DEF Op, OpOf
<1>4. pos'[Active] = pos[Active] + 1 /\ \A th \in Threads : th # Active => pos'[th] = pos[th]
  BY Zenon, <1>0 DEF Advanced, TypeInv
<1>5. Op' = Code[path[Active]][pos[Active] + 1]
  BY Zenon, <1>1, <1>4 DEF Op, OpOf
<1>6. \A th \in Threads : th # Active => OpOf(th)' = OpOf(th)
  BY Zenon, <1>4 DEF OpOf
<1>7. pos' \in [Threads -> Nat]
  BY <1>0, <1>2 DEF Advanced, TypeInv
<1>8. \A th \in Threads : pos'[th] \in 1 .. Len(Code[path'[th]])
  <2>1. \A th \in Threads : path'[th] = path[th] /\ pos[th] \in 1 .. Len(Code[path[th]])
    BY Zenon DEF TypeInv
  <2>2. pos'[Active] \in 1 .. Len(Code[path'[Active]])
    BY Zenon, <1>0, <1>3, <1>4, <2>1
  <2>3. \A th \in Threads : th # Active => pos'[th] \in 1 .. Len(Code[path'[th]])
    BY Zenon, <1>4, <2>1
  <2>4. QED
    BY Zenon, <2>2, <2>3
<1>9. QED
  BY Zenon, <1>1, <1>3, <1>5, <1>6, <1>7, <1>8

\* The same for a step inside an operation.
LEMMA Inside ==
  ASSUME TypeInv, UNCHANGED <<path, pos, hereVars>>
  PROVE  /\ Active' = Active /\ Op' = Op
         /\ pos' \in [Threads -> Nat]
         /\ \A th \in Threads : pos'[th] \in 1 .. Len(Code[path'[th]])
         /\ \A th \in Threads : OpOf(th)' = OpOf(th)
BY Zenon DEF Active, Op, OpOf, hereVars, TypeInv

\* A thread that comes to an operation, having kept what it should, leaves the
\* others within theirs.
LEMMA WithinGo ==
  ASSUME WithinInv, NEW a \in Threads, at'[a] = "go", was_enabled'[a] = OpOf(a)'.was,
         \A th \in Threads : th # a =>
           OpOf(th)' = OpOf(th) /\ at'[th] = at[th] /\ was_enabled'[th] = was_enabled[th]
  PROVE  WithinInv'
BY DEF WithinInv

\* So does one that goes on inside its operation.
LEMMA WithinAt ==
  ASSUME WithinInv, NEW a \in Threads, UNCHANGED was_enabled,
         \/ at'[a] \in {"mask", "swap"} /\ OpOf(a).op = "lock"
         \/ at'[a] = "unmask" /\ OpOf(a).op = "drop",
         \A th \in Threads : OpOf(th)' = OpOf(th) /\ (th # a => at'[th] = at[th])
  PROVE  WithinInv'
BY DEF WithinInv

\* A step of the running thread that leaves the others alone keeps what is said
\* of them.
LEMMA OthersKept ==
  ASSUME TypeInv, PathInv, BeneathInv, AwayInv, UNCHANGED <<path, hereVars>>,
         \A th \in Threads : th # Active =>
           OpOf(th)' = OpOf(th) /\ at'[th] = at[th] /\ saved'[th] = saved[th] /\ was_enabled'[th] = was_enabled[th]
  PROVE  PathInv' /\ BeneathInv' /\ AwayInv'
<1>1. stack \in Stacks /\ trapped \subseteq Stacks
  BY Zenon DEF TypeInv
<1>2. \A s \in trapped : <<s, "base">> \in Threads /\ <<s, "base">> # Active
  BY Zenon, <1>1 DEF Active
<1>3. \A s \in Stacks : s # stack =>
        LET th == <<s, IF s \in trapped THEN "trap" ELSE "base">> IN th \in Threads /\ th # Active
  BY Zenon, <1>1 DEF Active
<1>4. \A s \in Stacks : s \notin trapped => <<s, "trap">> \in Threads /\ <<s, "trap">> # Active
  BY Zenon, <1>1 DEF Active
<1>5. PathInv'
  BY Zenon DEF PathInv, hereVars
<1>6. BeneathInv'
  BY ZenonT(60), <1>2 DEF BeneathInv, hereVars
<1>7. AwayInv'
  <2>1. \A s \in Stacks : s # stack =>
          LET th == <<s, IF s \in trapped THEN "trap" ELSE "base">>
          IN  at'[th] = "go" /\ Code[path'[th]][pos'[th]].held = {} /\ ~Code[path'[th]][pos'[th]].sie
    BY ZenonT(60), <1>3 DEF AwayInv, OpOf
  <2>2. \A s \in Stacks : s \notin trapped => at'[<<s, "trap">>] = "go" /\ ~was_enabled'[<<s, "trap">>]
    BY ZenonT(60), <1>4 DEF AwayInv
  <2>3. stack' = stack /\ trapped' = trapped
    BY Zenon DEF hereVars
  <2>4. QED
    BY <2>1, <2>2, <2>3 DEF AwayInv, OpOf
<1>8. QED
  BY Zenon, <1>5, <1>6, <1>7
-----------------------------------------------------------------------------
(* Each step preserves LockInv. *)

\* lock()
LEMMA LockStep ==
  ASSUME LockInv, Lock
  PROVE  LockInv'
<1>0. Active \in Threads /\ Op.op = "lock" /\ Op = OpOf(Active)
  BY Zenon, ThreadFacts DEF LockInv, TypeInv, Lock, At, Op
<1>1. /\ Disciplined(Op) /\ Op.sie \in BOOLEAN /\ Op.was \in BOOLEAN
      /\ Op.arg \in Locks \ Op.held /\ Op.held \subseteq Locks
  BY Zenon, <1>0, AtHand DEF LockInv, Disciplined
<1>2. CASE LockRead(Active, Op.arg) /\ UNCHANGED pos
  <2>1. /\ Active' = Active /\ Op' = Op
        /\ pos' \in [Threads -> Nat]
        /\ \A th \in Threads : pos'[th] \in 1 .. Len(Code[path'[th]])
        /\ \A th \in Threads : OpOf(th)' = OpOf(th)
    BY Zenon, <1>2, Inside DEF LockInv, Lock
  <2>2. at[Active] = "go" /\ at'[Active] = IF intr THEN "mask" ELSE "swap"
    BY Zenon, <1>0, <1>2 DEF LockRead, Goto, LockInv, TypeInv
  <2>3. saved'[Active] = intr
    BY Zenon, <1>0, <1>2 DEF LockRead, LockInv, TypeInv
  <2>4. \A th \in Threads : th # Active => at'[th] = at[th] /\ saved'[th] = saved[th]
    BY Zenon, <1>2 DEF LockRead, Goto, LockInv, TypeInv
  <2>5. TypeInv'
    BY Zenon, <1>0, <1>2, <2>1 DEF LockInv, TypeInv, Lock, LockRead, Goto, lockVars, hereVars, downVars
  <2>6. WithinInv'
    BY ZenonT(60), <1>0, <2>1, <2>2, <2>4, WithinAt DEF LockInv, Lock
  <2>7. ActiveInv'
    BY ZenonT(60), <1>0, <1>1, <1>2, <2>1, <2>2, <2>3 DEF LockInv, ActiveInv, TypeInv, Lock, LockRead, lockVars, downVars
  <2>8. PathInv' /\ BeneathInv' /\ AwayInv'
    BY Zenon, <2>1, <2>4, OthersKept DEF LockInv, Lock
  <2>9. QED
    BY Zenon, <2>5, <2>6, <2>7, <2>8 DEF LockInv
<1>3. CASE LockMask(Active, Op.arg) /\ UNCHANGED pos
  <2>1. /\ Active' = Active /\ Op' = Op
        /\ pos' \in [Threads -> Nat]
        /\ \A th \in Threads : pos'[th] \in 1 .. Len(Code[path'[th]])
        /\ \A th \in Threads : OpOf(th)' = OpOf(th)
    BY Zenon, <1>3, Inside DEF LockInv, Lock
  <2>2. at[Active] = "mask" /\ at'[Active] = "swap"
    BY Zenon, <1>0, <1>3 DEF LockMask, Goto, LockInv, TypeInv
  <2>4. \A th \in Threads : th # Active => at'[th] = at[th]
    BY Zenon, <1>3 DEF LockMask, Goto, LockInv, TypeInv
  <2>5. TypeInv'
    BY Zenon, <1>0, <1>3, <2>1 DEF LockInv, TypeInv, Lock, LockMask, Goto, lockVars, hereVars, downVars
  <2>6. WithinInv'
    BY ZenonT(60), <1>0, <2>1, <2>2, <2>4, WithinAt DEF LockInv, Lock
  <2>7. ActiveInv'
    BY Zenon, <1>0, <1>1, <1>3, <2>1, <2>2 DEF LockInv, ActiveInv, TypeInv, Lock, LockMask, lockVars, downVars
  <2>8. PathInv' /\ BeneathInv' /\ AwayInv'
    BY Zenon, <1>3, <2>1, <2>4, OthersKept DEF LockInv, Lock, LockMask
  <2>9. QED
    BY Zenon, <2>5, <2>6, <2>7, <2>8 DEF LockInv
<1>4. CASE LockSwap(Active, Op.arg) /\ Advanced
  <2>1. /\ Active' = Active
        /\ pos' \in [Threads -> Nat]
        /\ \A th \in Threads : pos'[th] \in 1 .. Len(Code[path'[th]])
        /\ \A th \in Threads : th # Active => OpOf(th)' = OpOf(th)
        /\ Follows(Op, Op') /\ Op' = OpOf(Active)'
    BY Zenon, <1>0, <1>4, Ahead DEF LockInv, Lock, Leaving, Op
  <2>2. at[Active] = "swap" /\ at'[Active] = "go"
    BY Zenon, <1>0, <1>4 DEF LockSwap, Goto, LockInv, TypeInv
  <2>4. \A th \in Threads : th # Active => at'[th] = at[th] /\ saved'[th] = saved[th]
    BY Zenon, <1>4 DEF LockSwap, Goto, LockInv, TypeInv
  <2>5. TypeInv'
    BY ZenonT(60), <1>0, <1>1, <1>4, <2>1 DEF LockInv, TypeInv, Lock, LockSwap, Guard, Goto, lockVars, hereVars, downVars
  <2>6. WithinInv'
    <3>1. Op'.was = Op.was /\ was_enabled[Active] = Op.was /\ UNCHANGED was_enabled
      BY ZenonT(60), <1>0, <2>1, <2>2 DEF LockInv, WithinInv, Lock, Follows
    <3>2. QED
      BY ZenonT(60), <1>0, <2>1, <2>2, <2>4, <3>1, WithinGo DEF LockInv
  <2>7. /\ Op'.held = Op.held \cup {Op.arg} /\ Op'.sie = Op.sie
        /\ Op'.outer = IF Op.held = {} THEN Op.arg ELSE Op.outer
    BY Zenon, <1>0, <2>1 DEF Follows
  <2>8. /\ locked \ abandoned = Op.held /\ ~intr /\ saved[Active] = (Op.held = {} /\ Op.sie)
        /\ Op.held # {} => /\ restore_intr[Op.outer] = Op.sie
                           /\ \A l \in Op.held \ {Op.outer} : ~restore_intr[l]
    BY Zenon, <2>2 DEF LockInv, ActiveInv
  <2>9. locked' \ abandoned' = Op.held \cup {Op.arg}
    BY Zenon, <1>4, <2>8 DEF LockSwap, Lock, downVars, LockInv, TypeInv
  <2>10. restore_intr'[Op.arg] = saved[Active] /\ \A l \in Op.held : restore_intr'[l] = restore_intr[l]
    BY Zenon, <1>1, <1>4 DEF LockSwap, Guard, LockInv, TypeInv
  <2>11. ActiveInv'
    BY ZenonT(60), <1>1, <1>4, <2>1, <2>2, <2>7, <2>8, <2>9, <2>10 DEF ActiveInv, LockSwap, Disciplined
  <2>12. PathInv' /\ BeneathInv' /\ AwayInv'
    BY <2>1, <2>4, OthersKept DEF LockInv, Lock
  <2>13. QED
    BY Zenon, <2>5, <2>6, <2>11, <2>12 DEF LockInv
<1>5. QED
  BY Zenon, <1>2, <1>3, <1>4 DEF Lock
\* SpinLockGuard::drop
LEMMA DropStep ==
  ASSUME LockInv, Drop
  PROVE  LockInv'
<1>0. Active \in Threads /\ Op.op = "drop" /\ Op = OpOf(Active)
  BY Zenon, ThreadFacts DEF LockInv, TypeInv, Drop, At, Op
<1>1. /\ Op.sie \in BOOLEAN /\ Op.was \in BOOLEAN
      /\ Op.arg \in Op.held /\ Op.held \subseteq Locks
      /\ Op.outer \in Op.held
      /\ Op.arg = Op.outer => Op.held = {Op.arg}
  BY Zenon, <1>0, AtHand DEF LockInv, Disciplined
<1>2. CASE DropRelease(Active, Op.arg)
  <2>0. at[Active] = "go"
    BY Zenon, <1>2 DEF DropRelease
  <2>1. /\ locked \ abandoned = Op.held /\ ~intr
        /\ restore_intr[Op.outer] = Op.sie /\ \A l \in Op.held \ {Op.outer} : ~restore_intr[l]
    BY Zenon, <1>1, <2>0 DEF LockInv, ActiveInv
  <2>2. /\ locked' \ abandoned' = Op.held \ {Op.arg} /\ ~intr'
        /\ \A l \in Op.held \ {Op.arg} : restore_intr'[l] = restore_intr[l]
    BY Zenon, <1>1, <1>2, <2>1 DEF DropRelease, Drop, downVars, LockInv, TypeInv
  <2>3. at'[Active] = (IF restore_intr[Op.arg] THEN "unmask" ELSE "go")
        /\ \A th \in Threads : th # Active => at'[th] = at[th]
    BY Zenon, <1>0, <1>2 DEF DropRelease, Goto, LockInv, TypeInv
  <2>4. CASE restore_intr[Op.arg]
    <3>1. pos' = pos /\ at'[Active] = "unmask"
      BY Zenon, <2>3, <2>4 DEF Drop
    <3>2. /\ Active' = Active /\ Op' = Op
          /\ pos' \in [Threads -> Nat]
          /\ \A th \in Threads : pos'[th] \in 1 .. Len(Code[path'[th]])
          /\ \A th \in Threads : OpOf(th)' = OpOf(th)
      BY Zenon, <3>1, Inside DEF LockInv, Drop
    <3>3. TypeInv'
      BY Zenon, <1>0, <1>1, <1>2, <2>1, <3>2 DEF LockInv, TypeInv, Drop, DropRelease, Goto, lockVars, hereVars, downVars
    <3>4. WithinInv'
      BY ZenonT(60), <1>0, <3>1, <3>2, <2>3, WithinAt DEF LockInv, Drop
    <3>5. ActiveInv'
      BY Zenon, <1>1, <2>1, <2>2, <2>4, <3>1, <3>2 DEF ActiveInv
    <3>6. PathInv' /\ BeneathInv' /\ AwayInv'
      BY Zenon, <1>2, <3>2, <2>3, OthersKept DEF LockInv, Drop, DropRelease
    <3>7. QED
      BY Zenon, <3>3, <3>4, <3>5, <3>6 DEF LockInv
  <2>5. CASE ~restore_intr[Op.arg]
    <3>1. Advanced /\ at'[Active] = "go"
      BY Zenon, <2>3, <2>5 DEF Drop
    <3>2. /\ Active' = Active
          /\ pos' \in [Threads -> Nat]
          /\ \A th \in Threads : pos'[th] \in 1 .. Len(Code[path'[th]])
          /\ \A th \in Threads : th # Active => OpOf(th)' = OpOf(th)
          /\ Follows(Op, Op') /\ Op' = OpOf(Active)'
      BY Zenon, <1>0, <3>1, Ahead DEF LockInv, Drop, Leaving, Op
    <3>3. TypeInv'
      BY Zenon, <1>0, <1>1, <1>2, <2>1, <3>2 DEF LockInv, TypeInv, Drop, DropRelease, Goto, lockVars, hereVars, downVars
    <3>4. WithinInv'
      <4>1. Op'.was = Op.was /\ was_enabled[Active] = Op.was /\ UNCHANGED was_enabled
        BY ZenonT(60), <1>0, <3>2, <2>3 DEF LockInv, WithinInv, Drop, Follows
      <4>2. QED
        BY ZenonT(60), <1>0, <3>1, <3>2, <2>3, <4>1, WithinGo DEF LockInv
    <3>5. Op'.held = Op.held \ {Op.arg} /\ Op'.sie = Op.sie /\ Op'.outer = Op.outer
      BY Zenon, <1>0, <3>2 DEF Follows
    <3>6. ActiveInv'
      <4>1. CASE Op.arg = Op.outer
        <5>1. Op'.held = {} /\ ~Op'.sie /\ intr' = FALSE
          BY Zenon, <1>1, <2>1, <2>2, <2>5, <3>3, <3>5, <4>1 DEF TypeInv
        <5>2. Op'.sie = FALSE
          BY Zenon, <1>1, <3>5, <5>1
        <5>3. QED
          BY ZenonT(60), <2>2, <3>1, <3>2, <3>5, <5>1, <5>2 DEF ActiveInv
      <4>2. CASE Op.arg # Op.outer
        <5>1. Op'.outer \in Op'.held
          BY Zenon, <1>1, <3>5, <4>2
        <5>2. QED
          BY Zenon, <2>1, <2>2, <3>1, <3>2, <3>5, <4>2, <5>1 DEF ActiveInv
      <4>3. QED
        BY Zenon, <4>1, <4>2
    <3>7. PathInv' /\ BeneathInv' /\ AwayInv'
      BY Zenon, <1>2, <3>2, <2>3, OthersKept DEF LockInv, Drop, DropRelease
    <3>8. QED
      BY Zenon, <3>3, <3>4, <3>6, <3>7 DEF LockInv
  <2>6. QED
    BY Zenon, <2>4, <2>5
<1>3. CASE DropRestore(Active, Op.arg)
  <2>1. at[Active] = "unmask" /\ at'[Active] = "go" /\ \A th \in Threads : th # Active => at'[th] = at[th]
    BY Zenon, <1>0, <1>3 DEF DropRestore, Goto, LockInv, TypeInv
  <2>2. Advanced
    BY Zenon, <2>1 DEF Drop
  <2>3. /\ Active' = Active
        /\ pos' \in [Threads -> Nat]
        /\ \A th \in Threads : pos'[th] \in 1 .. Len(Code[path'[th]])
        /\ \A th \in Threads : th # Active => OpOf(th)' = OpOf(th)
        /\ Follows(Op, Op') /\ Op' = OpOf(Active)'
    BY Zenon, <1>0, <2>2, Ahead DEF LockInv, Drop, Leaving, Op
  <2>4. TypeInv'
    BY Zenon, <1>0, <1>3, <2>3 DEF LockInv, TypeInv, Drop, DropRestore, Goto, lockVars, hereVars, downVars
  <2>5. WithinInv'
    <3>1. /\ Op'.was = Op.was /\ Op = OpOf(Active) /\ Op.op = "drop"
          /\ UNCHANGED was_enabled
      BY Zenon, <2>3 DEF Drop, Follows, At, Op
    <3>2. OpOf(Active)'.was = was_enabled'[Active] /\ at'[Active] = "go"
      BY Zenon, <1>0, <2>1, <2>3, <3>1 DEF LockInv, WithinInv
    <3>3. QED
      BY ZenonT(60), <1>0, <2>1, <2>3, <3>1, <3>2, WithinGo DEF LockInv
  <2>6. Op'.held = {} /\ Op'.sie /\ locked \ abandoned = {}
    BY Zenon, <1>0, <2>1, <2>3 DEF Follows, LockInv, ActiveInv
  <2>7. ActiveInv'
    BY ZenonT(60), <1>3, <2>1, <2>3, <2>6 DEF ActiveInv, DropRestore, Drop, lockVars, downVars
  <2>8. PathInv' /\ BeneathInv' /\ AwayInv'
    BY Zenon, <1>3, <2>3, <2>1, OthersKept DEF LockInv, Drop, DropRestore
  <2>9. QED
    BY Zenon, <2>4, <2>5, <2>7, <2>8 DEF LockInv
<1>4. QED
  BY Zenon, <1>2, <1>3 DEF Drop
\* intr_enable, intr_disable
LEMMA SetIntrStep ==
  ASSUME LockInv, SetIntr
  PROVE  LockInv'
<1>0. Active \in Threads /\ Op.op \in {"enable", "disable"} /\ Op = OpOf(Active)
  BY Zenon, ThreadFacts DEF LockInv, TypeInv, SetIntr, At, Op
<1>1. Op.held = {} /\ Op.was \in BOOLEAN
  BY Zenon, <1>0, AtHand DEF LockInv, Disciplined
<1>2. /\ Active' = Active
      /\ pos' \in [Threads -> Nat]
      /\ \A th \in Threads : pos'[th] \in 1 .. Len(Code[path'[th]])
      /\ \A th \in Threads : th # Active => OpOf(th)' = OpOf(th)
      /\ Follows(Op, Op') /\ Op' = OpOf(Active)'
  BY Zenon, <1>0, Ahead DEF LockInv, SetIntr, Leaving, Op
<1>3. at[Active] = "go"
  BY Zenon, <1>0 DEF LockInv, WithinInv, TypeInv
<1>4. Op'.held = {} /\ Op'.was = Op.was /\ Op'.sie = (Op.op = "enable")
  BY Zenon, <1>0, <1>1, <1>2 DEF Follows
<1>5. TypeInv'
  BY Zenon, <1>2 DEF LockInv, TypeInv, SetIntr, lockVars, hereVars, downVars
<1>6. WithinInv'
  <2>1. was_enabled[Active] = Op.was /\ UNCHANGED <<at, was_enabled>>
    BY ZenonT(60), <1>0, <1>3 DEF LockInv, WithinInv, SetIntr
  <2>2. QED
    BY ZenonT(60), <1>0, <1>2, <1>3, <1>4, <2>1, WithinGo DEF LockInv
<1>7. ActiveInv'
  BY ZenonT(60), <1>1, <1>2, <1>3, <1>4 DEF LockInv, ActiveInv, SetIntr, lockVars, downVars
<1>8. PathInv' /\ BeneathInv' /\ AwayInv'
  BY Zenon, <1>2, OthersKept DEF LockInv, SetIntr
<1>9. QED
  BY Zenon, <1>5, <1>6, <1>7, <1>8 DEF LockInv

\* switch_to_idle: `was_enabled`
LEMMA SwitchReadStep ==
  ASSUME LockInv, SwitchRead
  PROVE  LockInv'
<1>0. Active \in Threads /\ Op.op = "mask" /\ Op = OpOf(Active) /\ at[Active] = "go"
  BY Zenon, ThreadFacts DEF LockInv, TypeInv, SwitchRead, At, Op
<1>1. Op.held = {} /\ Op.sie \in BOOLEAN
  BY Zenon, <1>0, AtHand DEF LockInv, Disciplined
<1>2. /\ Active' = Active /\ Op' = Op
      /\ pos' \in [Threads -> Nat]
      /\ \A th \in Threads : pos'[th] \in 1 .. Len(Code[path'[th]])
      /\ \A th \in Threads : OpOf(th)' = OpOf(th)
  BY Zenon, Inside DEF LockInv, SwitchRead
<1>3. /\ at'[Active] = "mask" /\ was_enabled'[Active] = intr
      /\ \A th \in Threads : th # Active => at'[th] = at[th] /\ was_enabled'[th] = was_enabled[th]
  BY Zenon, <1>0 DEF SwitchRead, Goto, LockInv, TypeInv
<1>4. intr = Op.sie /\ locked \ abandoned = {}
  BY Zenon, <1>0, <1>1 DEF LockInv, ActiveInv
<1>5. TypeInv'
  BY Zenon, <1>0, <1>2 DEF LockInv, TypeInv, SwitchRead, Goto, lockVars, hereVars, downVars
<1>6. WithinInv'
  BY <1>0, <1>2, <1>3, <1>4 DEF LockInv, WithinInv
<1>7. ActiveInv'
  BY Zenon, <1>0, <1>1, <1>2, <1>3, <1>4 DEF ActiveInv, SwitchRead, lockVars, downVars
<1>8. PathInv' /\ BeneathInv' /\ AwayInv'
  BY Zenon, <1>2, <1>3, OthersKept DEF LockInv, SwitchRead
<1>9. QED
  BY Zenon, <1>5, <1>6, <1>7, <1>8 DEF LockInv

\* switch_to_idle: intr_disable
LEMMA SwitchMaskStep ==
  ASSUME LockInv, SwitchMask
  PROVE  LockInv'
<1>0. Active \in Threads /\ Op.op = "mask" /\ Op = OpOf(Active) /\ at[Active] = "mask"
  BY Zenon, ThreadFacts DEF LockInv, TypeInv, SwitchMask, At, Op
<1>1. Op.held = {} /\ locked \ abandoned = {} /\ was_enabled[Active] = Op.sie
  BY Zenon, <1>0 DEF LockInv, ActiveInv, WithinInv
<1>2. /\ Active' = Active
      /\ pos' \in [Threads -> Nat]
      /\ \A th \in Threads : pos'[th] \in 1 .. Len(Code[path'[th]])
      /\ \A th \in Threads : th # Active => OpOf(th)' = OpOf(th)
      /\ Follows(Op, Op') /\ Op' = OpOf(Active)'
  BY Zenon, <1>0, Ahead DEF LockInv, SwitchMask, Leaving, Op
<1>3. at'[Active] = "go" /\ \A th \in Threads : th # Active => at'[th] = at[th]
  BY Zenon, <1>0 DEF SwitchMask, Goto, LockInv, TypeInv
<1>4. Op'.held = {} /\ Op'.was = Op.sie /\ Op'.sie = FALSE
  BY Zenon, <1>0, <1>1, <1>2 DEF Follows
<1>5. TypeInv'
  BY ZenonT(60), <1>0, <1>2 DEF LockInv, TypeInv, SwitchMask, Goto, lockVars, hereVars, downVars
<1>6. WithinInv'
  <2>1. UNCHANGED was_enabled
    BY Zenon DEF SwitchMask
  <2>2. was_enabled'[Active] = OpOf(Active)'.was
    BY Zenon, <1>1, <1>2, <1>4, <2>1
  <2>3. QED
    BY ZenonT(60), <1>0, <1>2, <1>3, <2>1, <2>2, WithinGo DEF LockInv
<1>7. ActiveInv'
  BY Zenon, <1>1, <1>2, <1>3, <1>4 DEF ActiveInv, SwitchMask, lockVars, downVars
<1>8. PathInv' /\ BeneathInv' /\ AwayInv'
  BY Zenon, <1>2, <1>3, OthersKept DEF LockInv, SwitchMask
<1>9. QED
  BY Zenon, <1>5, <1>6, <1>7, <1>8 DEF LockInv

\* switch_to_idle: back on this stack
LEMMA SwitchRestoreStep ==
  ASSUME LockInv, SwitchRestore
  PROVE  LockInv'
<1>0. Active \in Threads /\ Op.op = "restore" /\ Op = OpOf(Active)
  BY Zenon, ThreadFacts DEF LockInv, TypeInv, SwitchRestore, At, Op
<1>1. Op.held = {} /\ ~Op.sie /\ Op.sie \in BOOLEAN /\ Op.was \in BOOLEAN
  BY Zenon, <1>0, AtHand DEF LockInv, Disciplined
<1>2. /\ Active' = Active
      /\ pos' \in [Threads -> Nat]
      /\ \A th \in Threads : pos'[th] \in 1 .. Len(Code[path'[th]])
      /\ \A th \in Threads : th # Active => OpOf(th)' = OpOf(th)
      /\ Follows(Op, Op') /\ Op' = OpOf(Active)'
  BY Zenon, <1>0, Ahead DEF LockInv, SwitchRestore, Leaving, Op
<1>3. at[Active] = "go" /\ was_enabled[Active] = Op.was
  BY ZenonT(60), <1>0 DEF LockInv, WithinInv, TypeInv
<1>4. Op'.held = {} /\ Op'.was = FALSE /\ Op'.sie = Op.was
  BY Zenon, <1>0, <1>1, <1>2 DEF Follows
<1>5. intr' = Op.was /\ locked \ abandoned = {}
  BY Zenon, <1>1, <1>3 DEF LockInv, ActiveInv, TypeInv, SwitchRestore
<1>6. was_enabled'[Active] = FALSE /\ \A th \in Threads : th # Active => was_enabled'[th] = was_enabled[th]
  BY Zenon, <1>0 DEF SwitchRestore, LockInv, TypeInv
<1>7. TypeInv'
  BY ZenonT(60), <1>0, <1>1, <1>2, <1>5 DEF LockInv, TypeInv, SwitchRestore, lockVars, hereVars, downVars
<1>8. WithinInv'
  <2>1. UNCHANGED at
    BY Zenon DEF SwitchRestore
  <2>2. was_enabled'[Active] = OpOf(Active)'.was
    BY ZenonT(60), <1>2, <1>4, <1>6
  <2>3. QED
    BY ZenonT(60), <1>0, <1>2, <1>3, <1>6, <2>1, <2>2, WithinGo DEF LockInv
<1>9. ActiveInv'
  BY Zenon, <1>2, <1>3, <1>4, <1>5 DEF ActiveInv, SwitchRestore, lockVars, downVars
<1>10. PathInv' /\ BeneathInv' /\ AwayInv'
  BY Zenon, <1>2, <1>6, OthersKept DEF LockInv, SwitchRestore
<1>11. QED
  BY Zenon, <1>7, <1>8, <1>9, <1>10 DEF LockInv

\* on_tick, and everything that has no bearing on locks or interrupts
LEMMA PlainStep ==
  ASSUME LockInv, OnTick \/ Work
  PROVE  LockInv'
<1>0. Active \in Threads /\ Op.op \in {"count", "deadline", "arm", "work"} /\ Op = OpOf(Active)
  BY Zenon, ThreadFacts DEF LockInv, TypeInv, OnTick, Work, At, Op
<1>1. Advanced /\ UNCHANGED <<intr, lockVars, at, saved, path, was_enabled, hereVars, downVars>>
  BY Zenon DEF OnTick, Work
<1>2. /\ Active' = Active
      /\ pos' \in [Threads -> Nat]
      /\ \A th \in Threads : pos'[th] \in 1 .. Len(Code[path'[th]])
      /\ \A th \in Threads : th # Active => OpOf(th)' = OpOf(th)
      /\ Follows(Op, Op') /\ Op' = OpOf(Active)'
  BY Zenon, <1>0, <1>1, Ahead DEF LockInv, Leaving, Op
<1>3. at[Active] = "go"
  BY Zenon, <1>0 DEF LockInv, WithinInv, TypeInv
<1>4. Op'.held = Op.held /\ Op'.was = Op.was /\ Op'.sie = Op.sie /\ Op'.outer = Op.outer
  BY ZenonT(60), <1>0, <1>2 DEF Follows
<1>5. TypeInv'
  BY Zenon, <1>1, <1>2 DEF LockInv, TypeInv, lockVars, hereVars, downVars
<1>6. WithinInv'
  <2>1. was_enabled'[Active] = OpOf(Active)'.was /\ at'[Active] = "go"
    BY Zenon, <1>0, <1>1, <1>2, <1>3, <1>4 DEF LockInv, WithinInv
  <2>2. QED
    BY ZenonT(60), <1>0, <1>1, <1>2, <2>1, WithinGo DEF LockInv
<1>7. ActiveInv'
  BY ZenonT(60), <1>1, <1>2, <1>3, <1>4 DEF LockInv, ActiveInv, lockVars, downVars
<1>8. PathInv' /\ BeneathInv' /\ AwayInv'
  BY Zenon, <1>1, <1>2, OthersKept DEF LockInv
<1>9. QED
  BY Zenon, <1>5, <1>6, <1>7, <1>8 DEF LockInv

\* A step that goes on along a path while another stack comes into use.
LEMMA AheadOf ==
  ASSUME TypeInv, NEW a \in Threads, pos' = [pos EXCEPT ![a] = @ + 1], OpOf(a).op \notin Leaving,
         UNCHANGED path
  PROVE  /\ pos' \in [Threads -> Nat]
         /\ \A th \in Threads : pos'[th] \in 1 .. Len(Code[path'[th]])
         /\ \A th \in Threads : th # a => OpOf(th)' = OpOf(th)
         /\ Follows(OpOf(a), OpOf(a)')
<1>1. path[a] \in Names /\ pos[a] \in 1 .. Len(Code[path[a]])
  BY Zenon DEF TypeInv
<1>2. pos[a] + 1 \in 1 .. Len(Code[path[a]]) /\ Follows(OpOf(a), Code[path[a]][pos[a] + 1])
  BY Zenon, <1>1, NextFacts DEF OpOf
<1>3. pos'[a] = pos[a] + 1 /\ \A th \in Threads : th # a => pos'[th] = pos[th]
  BY Zenon DEF TypeInv
<1>4. pos' \in [Threads -> Nat] /\ \A th \in Threads : pos'[th] \in 1 .. Len(Code[path'[th]])
  BY <1>2, <1>3 DEF TypeInv
<1>5. QED
  BY Zenon, <1>2, <1>3, <1>4 DEF OpOf

\* A thread that goes on at the start of a path.
LEMMA Jumped ==
  ASSUME TypeInv, NEW a \in Threads, NEW n \in Names, Jump(a, n)
  PROVE  /\ path' \in [Threads -> Names] /\ pos' \in [Threads -> Nat]
         /\ at' \in [Threads -> {"go", "mask", "swap", "unmask"}]
         /\ \A th \in Threads : pos'[th] \in 1 .. Len(Code[path'[th]])
         /\ \A th \in Threads : th # a => OpOf(th)' = OpOf(th) /\ path'[th] = path[th] /\ at'[th] = at[th]
         /\ OpOf(a)' = Code[n][1] /\ path'[a] = n /\ at'[a] = "go"
<1>1. 1 \in 1 .. Len(Code[n])
  BY PathsAssumption
<1>2. /\ path'[a] = n /\ pos'[a] = 1 /\ at'[a] = "go"
      /\ \A th \in Threads : th # a => path'[th] = path[th] /\ pos'[th] = pos[th] /\ at'[th] = at[th]
  BY Zenon DEF Jump, TypeInv
<1>3. /\ path' \in [Threads -> Names] /\ pos' \in [Threads -> Nat]
      /\ at' \in [Threads -> {"go", "mask", "swap", "unmask"}]
  BY Zenon DEF Jump, TypeInv
<1>4. \A th \in Threads : pos'[th] \in 1 .. Len(Code[path'[th]])
  BY ZenonT(60), <1>1, <1>2 DEF TypeInv
<1>5. QED
  BY ZenonT(60), <1>2, <1>3, <1>4 DEF OpOf

\* The thread of a stack that runs when the stack is in use.
Top(s) == <<s, IF s \in trapped THEN "trap" ELSE "base">>

\* It is none of the threads of another stack, nor the other one of its own.
LEMMA TopApart ==
  ASSUME NEW s \in Stacks, NEW r \in Stacks
  PROVE  /\ Top(s) \in Threads
         /\ s # r => Top(s) # Top(r) /\ Top(s) # <<r, "base">> /\ Top(s) # <<r, "trap">>
         /\ s \in trapped => <<s, "base">> # Top(r)
         /\ s \notin trapped => <<s, "trap">> # Top(r)
BY StackAssumption DEF Top

\* A switch between stacks: all of them are left masked and without locks, so it
\* does not matter which comes next.
LEMMA Switched ==
  ASSUME LockInv, NEW a \in Threads, a = Active, UNCHANGED <<intr, lockVars, trapped, saved, downVars>>,
         stack' \in Stacks, at[a] = "go", Op.held = {}, ~Op.sie,
         TypeInv', WithinInv', PathInv',
         \A th \in Threads : th # a => OpOf(th)' = OpOf(th) /\ at'[th] = at[th] /\ was_enabled'[th] = was_enabled[th],
         at'[a] = "go", OpOf(a)'.held = {}, ~OpOf(a)'.sie
  PROVE  LockInv'
<1>1. stack \in Stacks /\ trapped \subseteq Stacks /\ a = Top(stack)
  BY Zenon DEF LockInv, TypeInv, Active, Top
<1>2. \A s \in Stacks : Top(s) \in Threads /\ (s # stack => Top(s) # a)
  BY ZenonT(60), <1>1, TopApart
<1>3. \A s \in Stacks : s # stack => at[Top(s)] = "go" /\ OpOf(Top(s)).held = {} /\ ~OpOf(Top(s)).sie
  BY Zenon DEF LockInv, AwayInv, Top
<1>4. \A s \in Stacks : at'[Top(s)] = "go" /\ Code[path'[Top(s)]][pos'[Top(s)]].held = {}
                        /\ ~Code[path'[Top(s)]][pos'[Top(s)]].sie
  BY ZenonT(60), <1>1, <1>2, <1>3 DEF OpOf
<1>5. Active' = Top(stack') /\ Op' = Code[path'[Top(stack')]][pos'[Top(stack')]]
  BY Zenon DEF Active, Top, Op, OpOf
<1>6. locked \ abandoned = {} /\ ~intr
  BY Zenon DEF LockInv, ActiveInv
<1>7. Op'.sie \in BOOLEAN /\ Op'.sie = FALSE /\ intr' = FALSE
  <2>1. intr' = intr /\ intr \in BOOLEAN
    BY Zenon DEF LockInv, TypeInv
  <2>2. Code[path'[Top(stack')]][pos'[Top(stack')]].sie \in BOOLEAN
    BY Zenon, <1>2, OpFacts DEF TypeInv
  <2>3. QED
    BY Zenon, <1>4, <1>5, <1>6, <2>1, <2>2
<1>8. ActiveInv'
  <2>1. at'[Active'] = "go" /\ Op'.held = {} /\ locked' \ abandoned' = {}
    BY ZenonT(60), <1>4, <1>5, <1>6 DEF lockVars, downVars
  <2>2. QED
    BY ZenonT(60), <1>7, <2>1 DEF ActiveInv
<1>9. BeneathInv'
  <2>1. \A s \in trapped : <<s, "base">> \in Threads /\ <<s, "base">> # a
    <3>1. \A s \in trapped : <<s, "base">> \in Threads
      BY Zenon, <1>1, Apart
    <3>2. \A s \in trapped : <<s, "base">> # Top(stack)
      BY Zenon, <1>1, TopApart
    <3>3. QED
      BY Zenon, <1>1, <3>1, <3>2
  <2>2. QED
    BY ZenonT(60), <2>1 DEF LockInv, BeneathInv
<1>10. AwayInv'
  <2>1. \A s \in Stacks : s \notin trapped => <<s, "trap">> \in Threads /\ <<s, "trap">> # a
    <3>1. \A s \in Stacks : <<s, "trap">> \in Threads
      BY Zenon, <1>1, Apart
    <3>2. \A s \in Stacks : s \notin trapped => <<s, "trap">> # Top(stack)
      BY Zenon, <1>1, TopApart
    <3>3. QED
      BY Zenon, <1>1, <3>1, <3>2
  <2>2. \A s \in Stacks : s \notin trapped => at'[<<s, "trap">>] = "go" /\ ~was_enabled'[<<s, "trap">>]
    BY ZenonT(60), <2>1 DEF LockInv, AwayInv
  <2>3. QED
    BY Zenon, <1>4, <2>2 DEF AwayInv, Top, OpOf
<1>11. QED
  BY Zenon, <1>8, <1>9, <1>10 DEF LockInv

\* switch_context
LEMMA SwitchStep ==
  ASSUME LockInv, Switch
  PROVE  LockInv'
<1>0. Active \in Threads /\ Op.op = "switch" /\ Op = OpOf(Active)
  BY Zenon, ThreadFacts DEF LockInv, TypeInv, Switch, At, Op
<1>1. PICK a \in Threads : a = Active
  BY Zenon, <1>0
<1>2. OpOf(a).op = "switch" /\ OpOf(a).held = {} /\ ~OpOf(a).sie /\ OpOf(a).arg \in Stacks
  BY Zenon, <1>0, <1>1, AtHand DEF LockInv, Disciplined
<1>3. /\ pos' \in [Threads -> Nat]
      /\ \A th \in Threads : pos'[th] \in 1 .. Len(Code[path'[th]])
      /\ \A th \in Threads : th # a => OpOf(th)' = OpOf(th)
      /\ Follows(OpOf(a), OpOf(a)')
  BY Zenon, <1>1, <1>2, AheadOf DEF LockInv, Switch, Advanced, Leaving
<1>4. at[a] = "go" /\ was_enabled[a] = OpOf(a).was
  BY ZenonT(60), <1>2 DEF LockInv, WithinInv, TypeInv
<1>5. OpOf(a)'.held = {} /\ OpOf(a)'.sie = OpOf(a).sie /\ OpOf(a)'.was = OpOf(a).was
  BY Zenon, <1>2, <1>3 DEF Follows
<1>6. stack' \in Stacks
  BY Zenon, <1>0, <1>1, <1>2 DEF Switch
<1>7. TypeInv'
  BY ZenonT(60), <1>3, <1>6 DEF LockInv, TypeInv, Switch, lockVars, downVars
<1>8. WithinInv'
  <2>1. UNCHANGED <<at, was_enabled>>
    BY Zenon DEF Switch
  <2>2. at'[a] = "go" /\ was_enabled'[a] = OpOf(a)'.was
    BY Zenon, <1>4, <1>5, <2>1
  <2>3. QED
    BY ZenonT(60), <1>3, <2>1, <2>2, WithinGo DEF LockInv
<1>9. PathInv'
  BY Zenon DEF LockInv, PathInv, Switch
<1>10. QED
  BY ZenonT(60), <1>0, <1>1, <1>2, <1>3, <1>4, <1>5, <1>6, <1>7, <1>8, <1>9, Switched DEF Switch

\* The last switch of a task
LEMMA DieStep ==
  ASSUME LockInv, Die
  PROVE  LockInv'
<1>0. Active \in Threads /\ Op.op = "die" /\ Op = OpOf(Active) /\ stack \in Stacks
  BY Zenon, ThreadFacts DEF LockInv, TypeInv, Die, At, Op
<1>1. PICK a \in Threads : a = Active
  BY Zenon, <1>0
<1>2. OpOf(a).op = "die" /\ OpOf(a).held = {} /\ ~OpOf(a).sie /\ OpOf(a).arg \in Stacks
  BY Zenon, <1>0, <1>1, AtHand DEF LockInv, Disciplined
<1>3. path[a] \notin HandlerNames \cup DownNames \cup Loops
  BY Zenon, <1>2, AtHand DEF LockInv
<1>4. stack \notin trapped /\ stack # Idle /\ a = <<stack, "base">>
  BY Zenon, <1>0, <1>1, <1>3 DEF LockInv, PathInv, Active
<1>5. PICK n \in Names \ {User} : n = Entry[stack]
  BY Zenon, <1>0, <1>4, NamesAssumption DEF Stacks
<1>6. Starts(Code[n][1]) /\ Jump(a, n)
  BY Zenon, <1>1, <1>5, StartFacts DEF Die, Jump
<1>7. /\ path' \in [Threads -> Names] /\ pos' \in [Threads -> Nat]
      /\ at' \in [Threads -> {"go", "mask", "swap", "unmask"}]
      /\ \A th \in Threads : pos'[th] \in 1 .. Len(Code[path'[th]])
      /\ \A th \in Threads : th # a => OpOf(th)' = OpOf(th) /\ path'[th] = path[th] /\ at'[th] = at[th]
      /\ OpOf(a)' = Code[n][1] /\ at'[a] = "go"
  BY ZenonT(60), <1>6, Jumped DEF LockInv
<1>8. at[a] = "go"
  BY Zenon, <1>2 DEF LockInv, WithinInv, TypeInv
<1>9. was_enabled'[a] = FALSE /\ \A th \in Threads : th # a => was_enabled'[th] = was_enabled[th]
  BY Zenon, <1>1 DEF LockInv, TypeInv, Die
<1>10. stack' \in Stacks
  BY Zenon, <1>0, <1>1, <1>2 DEF Die
<1>11. TypeInv'
  BY ZenonT(60), <1>1, <1>7, <1>10 DEF LockInv, TypeInv, Die, lockVars, downVars
<1>12. OpOf(a)'.held = {} /\ OpOf(a)'.sie = FALSE /\ OpOf(a)'.was = FALSE
  <2>1. Code[n][1].sie \in BOOLEAN /\ Code[n][1].was \in BOOLEAN
    BY ZenonT(60), <1>5, StartFacts, OpFacts
  <2>2. QED
    BY ZenonT(60), <1>6, <1>7, <2>1 DEF Starts
<1>13. WithinInv'
  <2>1. was_enabled'[a] = OpOf(a)'.was
    BY Zenon, <1>9, <1>12
  <2>2. QED
    BY <1>7, <1>9, <2>1 DEF LockInv, WithinInv
<1>14. PathInv'
  <2>1. <<Idle, "base">> \in Threads /\ <<Idle, "base">> # a
    BY Zenon, <1>4 DEF Stacks
  <2>2. \A s \in trapped : <<s, "trap">> \in Threads /\ <<s, "trap">> # a
    BY Zenon, <1>4 DEF LockInv, TypeInv
  <2>3. QED
    BY ZenonT(60), <1>7, <2>1, <2>2 DEF LockInv, PathInv, Die
<1>15. /\ UNCHANGED <<intr, lockVars, trapped, saved, downVars>>
       /\ Op.held = {} /\ ~Op.sie /\ ~OpOf(a)'.sie
       /\ \A th \in Threads : th # a => OpOf(th)' = OpOf(th) /\ at'[th] = at[th] /\ was_enabled'[th] = was_enabled[th]
  BY Zenon, <1>0, <1>1, <1>2, <1>7, <1>9, <1>12 DEF Die
<1>16. QED
  BY Zenon, <1>1, <1>7, <1>8, <1>10, <1>11, <1>12, <1>13, <1>14, <1>15, Switched

\* The running thread of a stack without a handler goes on at the start of a path.
LEMMA Restarted ==
  ASSUME LockInv, NEW a \in Threads, NEW n \in Names, a = Active, a = <<stack, "base">>, stack \notin trapped,
         Jump(a, n), UNCHANGED <<lockVars, saved, was_enabled, hereVars, downVars>>,
         stack = Idle => n \in Loops \cup DownNames,
         locked \ abandoned = {}, was_enabled[a] = FALSE,
         Code[n][1].held = {}, ~Code[n][1].was, intr' \in BOOLEAN, intr' = Code[n][1].sie
  PROVE  LockInv'
<1>1. /\ path' \in [Threads -> Names] /\ pos' \in [Threads -> Nat]
      /\ at' \in [Threads -> {"go", "mask", "swap", "unmask"}]
      /\ \A th \in Threads : pos'[th] \in 1 .. Len(Code[path'[th]])
      /\ \A th \in Threads : th # a => OpOf(th)' = OpOf(th) /\ path'[th] = path[th] /\ at'[th] = at[th]
      /\ OpOf(a)' = Code[n][1] /\ path'[a] = n /\ at'[a] = "go"
  BY ZenonT(60), Jumped DEF LockInv
<1>2. stack \in Stacks /\ trapped \subseteq Stacks
  BY DEF LockInv, TypeInv
<1>3. Active' = Active /\ Op' = Code[n][1]
  BY Zenon, <1>1 DEF Active, Op, hereVars
<1>4. TypeInv'
  BY Zenon, <1>1 DEF LockInv, TypeInv, lockVars, hereVars, downVars
<1>5. WithinInv'
  <2>1. Code[n][1].was \in BOOLEAN
    BY Zenon, FirstFlags
  <2>2. was_enabled'[a] = OpOf(a)'.was
    BY Zenon, <1>1, <2>1
  <2>3. QED
    BY ZenonT(60), <1>1, <2>2, WithinGo DEF LockInv
<1>6. PathInv'
  <2>1. \A s \in trapped : <<s, "trap">> \in Threads /\ <<s, "trap">> # a
    BY Zenon, <1>2, Apart
  <2>2. path'[<<Idle, "base">>] \in Loops \cup DownNames
    <3>1. CASE stack = Idle
      BY Zenon, <1>1, <3>1
    <3>2. CASE stack # Idle
      <4>1. <<Idle, "base">> \in Threads /\ <<Idle, "base">> # a
        <5>1. Idle \in Stacks
          BY DEF Stacks
        <5>2. QED
          BY Zenon, <1>2, <3>2, <5>1, Apart
      <4>2. QED
        BY Zenon, <1>1, <4>1 DEF LockInv, PathInv
    <3>3. QED
      BY Zenon, <3>1, <3>2
  <2>3. QED
    BY ZenonT(60), <1>1, <2>1, <2>2 DEF LockInv, PathInv, hereVars
<1>7. ActiveInv'
  BY ZenonT(60), <1>1, <1>3 DEF ActiveInv, lockVars, downVars
<1>8. BeneathInv'
  <2>1. \A s \in trapped : <<s, "base">> \in Threads /\ <<s, "base">> # a
    BY Zenon, <1>2, Apart
  <2>2. \A s \in trapped : OpOf(<<s, "base">>)' = OpOf(<<s, "base">>) /\ at'[<<s, "base">>] = at[<<s, "base">>]
    BY ZenonT(60), <1>1, <2>1
  <2>3. UNCHANGED <<trapped, saved>>
    BY Zenon DEF hereVars
  <2>4. QED
    BY ZenonT(60), <2>2, <2>3 DEF LockInv, BeneathInv
<1>9. AwayInv'
  <2>1. \A s \in Stacks : s # stack => Top(s) \in Threads /\ Top(s) # a
    BY Zenon, <1>2, TopApart
  <2>2. \A s \in Stacks : s \notin trapped => <<s, "trap">> \in Threads /\ <<s, "trap">> # a
    BY Zenon, <1>2, Apart
  <2>3. UNCHANGED <<stack, trapped, was_enabled>>
    BY Zenon DEF hereVars
  <2>4. \A s \in Stacks : s # stack => OpOf(Top(s))' = OpOf(Top(s)) /\ at'[Top(s)] = at[Top(s)]
    BY ZenonT(60), <1>1, <2>1, <2>3 DEF OpOf, Top
  <2>5. \A s \in Stacks : s \notin trapped => at'[<<s, "trap">>] = at[<<s, "trap">>]
    BY Zenon, <1>1, <2>2
  <2>6. QED
    BY ZenonT(60), <2>3, <2>4, <2>5 DEF LockInv, AwayInv, Top
<1>10. QED
  BY <1>4, <1>5, <1>6, <1>7, <1>8, <1>9 DEF LockInv

\* sret to the code that a handler has interrupted
LEMMA Resumed ==
  ASSUME LockInv, At("end"), stack \in trapped, trapped' = trapped \ {stack}, intr' = TRUE,
         NEW a \in Threads, a = Active, Jump(a, User),
         UNCHANGED <<lockVars, saved, was_enabled, stack, downVars>>
  PROVE  LockInv'
<1>1. a = <<stack, "trap">> /\ stack \in Stacks /\ trapped \subseteq Stacks
  BY Zenon DEF Active, LockInv, TypeInv
<1>2. PICK b \in Threads : b = <<stack, "base">>
  BY Zenon, <1>1, ThreadFacts
<1>3. OpOf(a).op = "end" /\ OpOf(a).held = {} /\ OpOf(a).was = FALSE
  BY ZenonT(60), AtHand DEF LockInv, Disciplined, At, Op
<1>4. at[a] = "go" /\ was_enabled[a] = FALSE
  BY ZenonT(60), <1>3 DEF LockInv, WithinInv, TypeInv
<1>5. locked \ abandoned = {}
  BY Zenon, <1>3, <1>4 DEF LockInv, ActiveInv, Op
<1>6. /\ path' \in [Threads -> Names] /\ pos' \in [Threads -> Nat]
      /\ at' \in [Threads -> {"go", "mask", "swap", "unmask"}]
      /\ \A th \in Threads : pos'[th] \in 1 .. Len(Code[path'[th]])
      /\ \A th \in Threads : th # a => OpOf(th)' = OpOf(th) /\ path'[th] = path[th] /\ at'[th] = at[th]
      /\ OpOf(a)' = Code[User][1] /\ path'[a] = User /\ at'[a] = "go"
  BY ZenonT(60), UserFacts, Jumped DEF LockInv
<1>7. a # b /\ Active' = b /\ Op' = OpOf(b)
  BY <1>1, <1>2, <1>6 DEF Active, Op
<1>8. /\ at'[b] \in {"go", "mask"} /\ Op'.held = {} /\ Op'.sie
      /\ at'[b] = "mask" /\ Op'.op = "lock" => saved[b]
  BY ZenonT(60), <1>2, <1>6, <1>7 DEF LockInv, BeneathInv
<1>9. Op'.sie = TRUE
  BY Zenon, <1>7, <1>8, AtHand DEF LockInv
<1>10. TypeInv'
  BY Zenon, <1>6 DEF LockInv, TypeInv, lockVars, downVars
<1>11. WithinInv'
  <2>1. Code[User][1].was = FALSE
    BY Zenon, UserWas
  <2>2. was_enabled'[a] = OpOf(a)'.was
    BY ZenonT(60), <1>4, <1>6, <2>1
  <2>3. QED
    BY ZenonT(60), <1>6, <2>2, WithinGo DEF LockInv
<1>12. PathInv'
  <2>1. \A s \in trapped' : <<s, "trap">> \in Threads /\ <<s, "trap">> # a
    BY Zenon, <1>1, Apart
  <2>2. <<Idle, "base">> \in Threads /\ <<Idle, "base">> # a
    <3>1. Idle \in Stacks
      BY Zenon DEF Stacks
    <3>2. QED
      BY Zenon, <1>1, <3>1, Apart
  <2>3. QED
    BY Zenon, <1>6, <2>1, <2>2 DEF LockInv, PathInv
<1>13. ActiveInv'
  <2>1. locked' \ abandoned' = {} /\ saved'[b] = saved[b]
    BY ZenonT(60), <1>5 DEF lockVars, downVars
  <2>2. QED
    BY ZenonT(60), <1>7, <1>8, <1>9, <2>1 DEF ActiveInv
<1>14. BeneathInv'
  <2>1. \A s \in trapped' : <<s, "base">> \in Threads /\ <<s, "base">> # a
    BY Zenon, <1>1, Apart
  <2>2. \A s \in trapped' : OpOf(<<s, "base">>)' = OpOf(<<s, "base">>) /\ at'[<<s, "base">>] = at[<<s, "base">>]
    BY Zenon, <1>6, <2>1
  <2>3. UNCHANGED saved /\ trapped' \subseteq trapped
    BY Zenon
  <2>4. QED
    BY ZenonT(60), <2>2, <2>3 DEF LockInv, BeneathInv
<1>15. AwayInv'
  <2>1. \A s \in Stacks : s # stack => Top(s) \in Threads /\ Top(s) # a /\ Top(s)' = Top(s)
    <3>1. \A s \in Stacks : s # stack => Top(s) \in Threads /\ Top(s) # a
      BY Zenon, <1>1, TopApart
    <3>2. \A s \in Stacks : s # stack => (s \in trapped' <=> s \in trapped)
      BY <1>1
    <3>3. \A s \in Stacks : s # stack => Top(s)' = Top(s)
      BY Zenon, <3>2 DEF Top
    <3>4. QED
      BY Zenon, <3>1, <3>3
  <2>2. \A s \in Stacks : s # stack => LET th == Top(s)' IN at'[th] = "go" /\ Code[path'[th]][pos'[th]].held = {} /\ ~Code[path'[th]][pos'[th]].sie
    <3>1. \A s \in Stacks : s # stack => at[Top(s)] = "go" /\ OpOf(Top(s)).held = {} /\ ~OpOf(Top(s)).sie
      BY ZenonT(60) DEF LockInv, AwayInv, Top
    <3>2. \A th \in Threads : th # a => Code[path'[th]][pos'[th]] = OpOf(th) /\ at'[th] = at[th]
      BY Zenon, <1>6 DEF OpOf
    <3>3. \A s \in Stacks : s # stack =>
            LET th == Top(s) IN at'[th] = "go" /\ Code[path'[th]][pos'[th]].held = {} /\ ~Code[path'[th]][pos'[th]].sie
      BY ZenonT(60), <2>1, <3>1, <3>2
    <3>4. QED
      BY Zenon, <2>1, <3>3
  <2>3. \A s \in Stacks : s \notin trapped' => at'[<<s, "trap">>] = "go" /\ ~was_enabled'[<<s, "trap">>]
    <3>1. \A s \in Stacks : s # stack => <<s, "trap">> \in Threads /\ <<s, "trap">> # a
      BY Zenon, <1>1, Apart
    <3>2. QED
      BY ZenonT(60), <1>1, <1>4, <1>6, <3>1 DEF LockInv, AwayInv
  <2>4. QED
    BY Zenon, <2>2, <2>3 DEF AwayInv, Top, OpOf
<1>16. QED
  BY Zenon, <1>10, <1>11, <1>12, <1>13, <1>14, <1>15 DEF LockInv

\* the end of a path
LEMMA ReturnStep ==
  ASSUME LockInv, Return
  PROVE  LockInv'
<1>0. Active \in Threads /\ Op.op = "end" /\ Op = OpOf(Active) /\ stack \in Stacks
  BY Zenon, ThreadFacts DEF LockInv, TypeInv, Return, At, Op
<1>1. PICK a \in Threads : a = Active
  BY Zenon, <1>0
<1>2. OpOf(a).op = "end" /\ OpOf(a).held = {} /\ OpOf(a).was = FALSE /\ OpOf(a).sie \in BOOLEAN
  BY Zenon, <1>0, <1>1, AtHand DEF LockInv, Disciplined
<1>3. at[a] = "go" /\ was_enabled[a] = FALSE
  BY Zenon, <1>2 DEF LockInv, WithinInv, TypeInv
<1>4. locked \ abandoned = {} /\ intr = OpOf(a).sie
  BY Zenon, <1>0, <1>1, <1>2, <1>3 DEF LockInv, ActiveInv
<1>5. CASE stack \in trapped
  <2>1. /\ trapped' = trapped \ {stack} /\ intr' = TRUE /\ Jump(a, User)
        /\ UNCHANGED <<lockVars, saved, was_enabled, stack, downVars>>
    BY Zenon, <1>1, <1>5 DEF Return, Jump
  <2>2. QED
    BY Zenon, <1>1, <1>5, <2>1, Resumed DEF Return
<1>6. CASE stack \notin trapped
  <2>0. a = <<stack, "base">>
    BY Zenon, <1>1, <1>6 DEF Active
  <2>1. CASE stack = Idle
    <3>1. PICK n \in Loops : Jump(a, n) /\ UNCHANGED <<trapped, intr>>
      BY Zenon, <1>1, <1>6, <2>1 DEF Return, Jump
    <3>2. n \in Names \ {User} /\ Starts(Code[n][1]) /\ Code[n][1].sie \in BOOLEAN
      BY Zenon, NamesAssumption, StartFacts, OpFacts
    <3>3. path[a] \in Loops \cup DownNames
      BY Zenon, <2>0, <2>1 DEF LockInv, PathInv
    <3>4. OpOf(a).sie = FALSE
      BY Zenon, <1>2, <3>3, AtHand DEF LockInv
    <3>5. intr' \in BOOLEAN /\ intr' = Code[n][1].sie
      BY Zenon, <1>4, <3>1, <3>2, <3>4 DEF Starts
    <3>6. UNCHANGED <<lockVars, saved, was_enabled, hereVars, downVars>>
      BY Zenon, <3>1 DEF Return, hereVars
    <3>7. QED
      BY ZenonT(60), <1>1, <1>3, <1>4, <1>6, <2>0, <3>1, <3>2, <3>5, <3>6, Restarted DEF Starts
  <2>2. CASE stack # Idle
    <3>1. Jump(a, User) /\ intr' = TRUE /\ UNCHANGED trapped
      BY ZenonT(60), <1>1, <1>6, <2>2 DEF Return, Jump
    <3>2. intr' = Code[User][1].sie
      BY Zenon, <3>1, UserFacts, OpFacts
    <3>3. UNCHANGED <<lockVars, saved, was_enabled, hereVars, downVars>>
      BY Zenon, <3>1 DEF Return, hereVars
    <3>4. QED
      BY Zenon, <1>1, <1>3, <1>4, <1>6, <2>0, <2>2, <3>1, <3>2, <3>3, UserFacts, Restarted
  <2>3. QED
    BY Zenon, <2>1, <2>2
<1>7. QED
  BY Zenon, <1>5, <1>6

\* A trap from user mode: the program has no locks, and is not a handler.
LEMMA UserTrapped ==
  ASSUME LockInv, InUser, NEW n \in Names \ {User}, Jump(Active, n), stack # Idle, intr' = FALSE,
         UNCHANGED <<lockVars, saved, was_enabled, hereVars, downVars>>
  PROVE  LockInv'
<1>0. Active \in Threads /\ Op.op = "user" /\ Op = OpOf(Active) /\ stack \in Stacks
  BY Zenon, ThreadFacts DEF LockInv, TypeInv, InUser, Op
<1>1. PICK a \in Threads : a = Active
  BY Zenon, <1>0
<1>2. OpOf(a).held = {} /\ OpOf(a).was = FALSE /\ OpOf(a).sie
  BY ZenonT(60), <1>0, <1>1, AtHand DEF LockInv, Disciplined
<1>3. at[a] = "go" /\ was_enabled[a] = FALSE
  BY ZenonT(60), <1>0, <1>1, <1>2 DEF LockInv, WithinInv, TypeInv
<1>4. locked \ abandoned = {}
  BY Zenon, <1>0, <1>1, <1>2, <1>3 DEF LockInv, ActiveInv
<1>5. path[a] \notin HandlerNames
  BY Zenon, <1>2, AtHand DEF LockInv
<1>6. stack \notin trapped /\ a = <<stack, "base">>
  BY Zenon, <1>1, <1>5 DEF LockInv, PathInv, Active
<1>7. Jump(a, n)
  BY ZenonT(60), <1>1 DEF Jump
<1>8. Starts(Code[n][1]) /\ Code[n][1].sie \in BOOLEAN
  BY Zenon, StartFacts, FirstFlags
<1>9. intr' = Code[n][1].sie
  BY Zenon, <1>8 DEF Starts
<1>10. QED
  BY ZenonT(60), <1>1, <1>3, <1>4, <1>6, <1>7, <1>8, <1>9, Restarted DEF Starts

\* An interrupt of kernel code: it comes where no lock is held.
LEMMA KernelTrapped ==
  ASSUME LockInv, intr, stack \notin trapped, NEW n \in HandlerNames, n \in Names \ {User},
         Jump(<<stack, "trap">>, n), trapped' = trapped \cup {stack}, intr' = FALSE,
         UNCHANGED <<lockVars, saved, was_enabled, stack, downVars>>
  PROVE  LockInv'
<1>0. stack \in Stacks /\ trapped \subseteq Stacks
  BY Zenon DEF LockInv, TypeInv
<1>1. PICK b \in Threads : b = <<stack, "base">> /\ b = Active
  BY Zenon, <1>0, ThreadFacts
<1>2. PICK a \in Threads : a = <<stack, "trap">>
  BY Zenon, <1>0, ThreadFacts
<1>3. OpOf(b).held = {} /\ OpOf(b).sie /\ at[b] \in {"go", "mask"} /\ locked \ abandoned = {}
      /\ (at[b] = "mask" /\ OpOf(b).op = "lock" => saved[b])
  <2>1. Op = OpOf(b)
    BY Zenon, <1>1 DEF Op
  <2>2. at[b] \in {"go", "mask"}
    BY ZenonT(60), <1>1 DEF LockInv, ActiveInv, TypeInv
  <2>3. OpOf(b).held = {}
    BY Zenon, <1>1, <2>1, <2>2 DEF LockInv, ActiveInv
  <2>4. QED
    BY Zenon, <1>1, <2>1, <2>2, <2>3 DEF LockInv, ActiveInv
<1>4. at[a] = "go" /\ was_enabled[a] = FALSE
  BY ZenonT(60), <1>0, <1>2 DEF LockInv, AwayInv, TypeInv
<1>5. Starts(Code[n][1]) /\ Code[n][1].sie = FALSE /\ Code[n][1].was = FALSE /\ Code[n][1].held = {}
  BY ZenonT(60), StartFacts, OpFacts DEF Starts
<1>6. /\ path' \in [Threads -> Names] /\ pos' \in [Threads -> Nat]
      /\ at' \in [Threads -> {"go", "mask", "swap", "unmask"}]
      /\ \A th \in Threads : pos'[th] \in 1 .. Len(Code[path'[th]])
      /\ \A th \in Threads : th # a => OpOf(th)' = OpOf(th) /\ path'[th] = path[th] /\ at'[th] = at[th]
      /\ OpOf(a)' = Code[n][1] /\ path'[a] = n /\ at'[a] = "go"
  <2>1. Jump(a, n)
    BY Zenon, <1>2 DEF Jump
  <2>2. QED
    BY ZenonT(60), <2>1, Jumped DEF LockInv
<1>7. Active' = a /\ Op' = Code[n][1]
  BY Zenon, <1>2, <1>6 DEF Active, Op
<1>8. TypeInv'
  BY ZenonT(60), <1>0, <1>6 DEF LockInv, TypeInv, lockVars, downVars
<1>9. WithinInv'
  <2>1. was_enabled'[a] = OpOf(a)'.was
    BY Zenon, <1>4, <1>5, <1>6
  <2>2. QED
    BY ZenonT(60), <1>6, <2>1, WithinGo DEF LockInv
<1>10. PathInv'
  <2>1. \A s \in trapped : <<s, "trap">> \in Threads /\ <<s, "trap">> # a
    BY Zenon, <1>0, <1>2
  <2>2. <<Idle, "base">> \in Threads /\ <<Idle, "base">> # a
    BY Zenon, <1>2 DEF Stacks
  <2>3. QED
    BY Zenon, <1>2, <1>6, <2>1, <2>2 DEF LockInv, PathInv
<1>11. ActiveInv'
  <2>1. at'[Active'] = "go" /\ Op'.held = {} /\ Op'.sie = FALSE /\ locked' \ abandoned' = {}
    BY Zenon, <1>3, <1>5, <1>6, <1>7 DEF lockVars, downVars
  <2>2. QED
    BY ZenonT(60), <2>1 DEF ActiveInv
<1>12. BeneathInv'
  <2>1. \A s \in trapped' : <<s, "base">> \in Threads /\ <<s, "base">> # a
    BY Zenon, <1>0, <1>2
  <2>2. \A s \in trapped' : OpOf(<<s, "base">>)' = OpOf(<<s, "base">>) /\ at'[<<s, "base">>] = at[<<s, "base">>]
    BY ZenonT(60), <1>6, <2>1
  <2>3. \A s \in trapped' : /\ at[<<s, "base">>] \in {"go", "mask"}
                            /\ OpOf(<<s, "base">>).held = {} /\ OpOf(<<s, "base">>).sie
                            /\ at[<<s, "base">>] = "mask" /\ OpOf(<<s, "base">>).op = "lock" => saved[<<s, "base">>]
    BY Zenon, <1>1, <1>3 DEF LockInv, BeneathInv
  <2>4. UNCHANGED saved
    BY Zenon
  <2>5. QED
    BY ZenonT(60), <2>2, <2>3, <2>4 DEF BeneathInv
<1>13. AwayInv'
  <2>1. \A s \in Stacks : s # stack => Top(s) \in Threads /\ Top(s) # a /\ Top(s)' = Top(s)
    BY Zenon, <1>0, <1>2 DEF Top
  <2>2. \A s \in Stacks : s # stack => LET th == Top(s)' IN at'[th] = "go" /\ Code[path'[th]][pos'[th]].held = {} /\ ~Code[path'[th]][pos'[th]].sie
    <3>1. \A s \in Stacks : s # stack => at[Top(s)] = "go" /\ OpOf(Top(s)).held = {} /\ ~OpOf(Top(s)).sie
      BY Zenon DEF LockInv, AwayInv, Top
    <3>2. \A th \in Threads : th # a => Code[path'[th]][pos'[th]] = OpOf(th) /\ at'[th] = at[th]
      BY ZenonT(60), <1>6 DEF OpOf
    <3>3. \A s \in Stacks : s # stack =>
            LET th == Top(s) IN at'[th] = "go" /\ Code[path'[th]][pos'[th]].held = {} /\ ~Code[path'[th]][pos'[th]].sie
      BY ZenonT(60), <2>1, <3>1, <3>2
    <3>4. QED
      BY Zenon, <2>1, <3>3
  <2>3. \A s \in Stacks : s \notin trapped' => at'[<<s, "trap">>] = "go" /\ ~was_enabled'[<<s, "trap">>]
    <3>1. \A s \in Stacks : s # stack => <<s, "trap">> \in Threads /\ <<s, "trap">> # a
      BY Zenon, <1>0, <1>2
    <3>2. QED
      BY Zenon, <1>6, <3>1 DEF LockInv, AwayInv
  <2>4. QED
    BY ZenonT(60), <2>2, <2>3 DEF AwayInv, Top, OpOf
<1>14. QED
  BY ZenonT(60), <1>8, <1>9, <1>10, <1>11, <1>12, <1>13 DEF LockInv

\* the timer interrupt
LEMMA TimerStep ==
  ASSUME LockInv, TimerInterrupt
  PROVE  LockInv'
<1>0. stack \in Stacks
  BY Zenon DEF LockInv, TypeInv
<1>1. CASE InUser /\ UNCHANGED trapped
           /\ \E n \in IF stack = Idle THEN {} ELSE UserTicks[stack] : Jump(Active, n)
  <2>1. PICK n : stack # Idle /\ n \in UserTicks[stack] /\ Jump(Active, n)
    BY Zenon, <1>1
  <2>2. n \in Names \ {User}
    BY Zenon, <1>0, <2>1, NamesAssumption DEF Stacks
  <2>3. QED
    BY ZenonT(60), <1>1, <2>1, <2>2, UserTrapped DEF TimerInterrupt, Trap, hereVars
<1>2. CASE intr /\ stack \notin trapped /\ trapped' = trapped \cup {stack}
           /\ \E n \in Ticks[stack] : Jump(<<stack, "trap">>, n)
  <2>1. PICK n \in Ticks[stack] : Jump(<<stack, "trap">>, n)
    BY Zenon, <1>2
  <2>2. n \in HandlerNames /\ n \in Names \ {User}
    BY ZenonT(60), <1>0, NamesAssumption DEF HandlerNames
  <2>3. QED
    BY ZenonT(60), <1>2, <2>1, <2>2, KernelTrapped DEF TimerInterrupt, Trap
<1>3. QED
  BY Zenon, <1>1, <1>2 DEF TimerInterrupt, Trap

\* every other trap
LEMMA OtherTrapStep ==
  ASSUME LockInv, OtherTrap
  PROVE  LockInv'
<1>0. stack \in Stacks
  BY Zenon DEF LockInv, TypeInv
<1>1. CASE InUser /\ UNCHANGED trapped
           /\ \E n \in IF stack = Idle THEN {} ELSE Calls[stack] \cup UserDevices[stack] : Jump(Active, n)
  <2>1. PICK n : stack # Idle /\ n \in Calls[stack] \cup UserDevices[stack] /\ Jump(Active, n)
    BY Zenon, <1>1
  <2>2. n \in Names \ {User}
    BY Zenon, <1>0, <2>1, NamesAssumption DEF Stacks
  <2>3. QED
    BY Zenon, <1>1, <2>1, <2>2, UserTrapped DEF OtherTrap, Trap, hereVars
<1>2. CASE intr /\ stack \notin trapped /\ trapped' = trapped \cup {stack}
           /\ \E n \in Devices[stack] : Jump(<<stack, "trap">>, n)
  <2>1. PICK n \in Devices[stack] : Jump(<<stack, "trap">>, n)
    BY ZenonT(60), <1>2
  <2>2. n \in HandlerNames /\ n \in Names \ {User}
    BY Zenon, <1>0, NamesAssumption DEF HandlerNames
  <2>3. QED
    BY Zenon, <1>2, <2>1, <2>2, KernelTrapped DEF OtherTrap, Trap
<1>3. QED
  BY Zenon, <1>1, <1>2 DEF OtherTrap, Trap

\* A panic or a fault: everything the hart was doing is forgotten.
LEMMA GoDownStep ==
  ASSUME LockInv, NEW n \in DownNames, GoDown(n), PANIC_DEPTH' \in Nat, faults' \in Nat
  PROVE  LockInv'
<1>1. n \in Names \ {User} /\ Starts(Code[n][1]) /\ 1 \in 1 .. Len(Code[n])
  BY ZenonT(60), NamesAssumption, StartFacts
<1>2. Code[n][1].sie = FALSE /\ Code[n][1].was = FALSE /\ Code[n][1].held = {}
  BY Zenon, <1>1, OpFacts DEF Starts
<1>3. \A th \in Threads : OpOf(th)' = Code[n][1] /\ at'[th] = "go" /\ was_enabled'[th] = FALSE /\ path'[th] = n
  BY ZenonT(60) DEF GoDown, OpOf
<1>4. stack' = Idle /\ trapped' = {} /\ Active' \in Threads /\ Op' = Code[n][1]
  <2>1. stack' = Idle /\ trapped' = {}
    BY Zenon DEF GoDown
  <2>2. Active' \in Threads
    BY Zenon, <2>1 DEF Active, Stacks
  <2>3. QED
    BY Zenon, <1>3, <2>1, <2>2 DEF Op, OpOf
<1>5. TypeInv'
  BY ZenonT(60), <1>1, <1>4 DEF LockInv, TypeInv, GoDown, lockVars, Stacks
<1>6. WithinInv'
  BY Zenon, <1>2, <1>3 DEF WithinInv
<1>7. PathInv'
  BY Zenon, <1>3, <1>4 DEF PathInv, Stacks
<1>8. ActiveInv'
  <2>1. locked' \ abandoned' = {} /\ intr' = FALSE
    BY Zenon DEF GoDown, lockVars
  <2>2. at'[Active'] = "go"
    BY Zenon, <1>3, <1>4
  <2>3. QED
    BY ZenonT(60), <1>2, <1>4, <2>1, <2>2 DEF ActiveInv
<1>9. BeneathInv' /\ AwayInv'
  BY ZenonT(60), <1>2, <1>3, <1>4 DEF BeneathInv, AwayInv
<1>10. QED
  BY Zenon, <1>5, <1>6, <1>7, <1>8, <1>9 DEF LockInv

\* panic!, failed assertions, faults of the kernel, and the end of them
LEMMA DownStep ==
  ASSUME LockInv, Panic \/ Assertion \/ Fault \/ Down \/ Time \/ UNCHANGED vars
  PROVE  LockInv'
<1>0. PANIC_DEPTH \in Nat /\ faults \in Nat
  BY Zenon DEF LockInv, TypeInv
<1>1. CASE Panic
  <2>1. PICK n \in DownNames : n = IF PANIC_DEPTH > 0 THEN Halting ELSE Panicking
    BY Zenon DEF DownNames
  <2>2. GoDown(n) /\ PANIC_DEPTH' \in Nat /\ faults' \in Nat
    BY <1>0, <1>1, <2>1 DEF Panic, PanicHandler, GoDown
  <2>3. QED
    BY Zenon, <2>2, GoDownStep
<1>2. CASE Assertion
  <2>1. PICK n \in DownNames : n = IF PANIC_DEPTH > 0 THEN Halting ELSE Panicking
    BY Zenon DEF DownNames
  <2>2. GoDown(n) /\ PANIC_DEPTH' \in Nat /\ faults' \in Nat
    BY <1>0, <1>2, <2>1 DEF Assertion, PanicHandler, GoDown
  <2>3. QED
    BY Zenon, <2>2, GoDownStep
<1>3. CASE Fault
  <2>1. Fatal \in DownNames /\ GoDown(Fatal) /\ PANIC_DEPTH' \in Nat /\ faults' \in Nat
    BY <1>0, <1>3 DEF Fault, DownNames
  <2>2. QED
    BY Zenon, <2>1, GoDownStep
<1>4. CASE Down \/ Time \/ UNCHANGED vars
  <2>1. UNCHANGED <<intr, lockVars, at, saved, path, pos, was_enabled, hereVars, PANIC_DEPTH, faults, abandoned>>
    BY Zenon, <1>4 DEF Down, Time, downVars, vars
  <2>2. /\ Active' = Active /\ Op' = Op
        /\ pos' \in [Threads -> Nat]
        /\ \A th \in Threads : pos'[th] \in 1 .. Len(Code[path'[th]])
        /\ \A th \in Threads : OpOf(th)' = OpOf(th)
    BY Zenon, <2>1, Inside DEF LockInv
  <2>3. TypeInv'
    BY Zenon, <2>1 DEF LockInv, TypeInv, lockVars, hereVars
  <2>4. WithinInv'
    BY ZenonT(60), <2>1, <2>2 DEF LockInv, WithinInv
  <2>5. ActiveInv'
    BY Zenon, <2>1, <2>2 DEF LockInv, ActiveInv, lockVars
  <2>6. PathInv' /\ BeneathInv' /\ AwayInv'
    BY Zenon, <2>1, <2>2, OthersKept DEF LockInv
  <2>7. QED
    BY Zenon, <2>3, <2>4, <2>5, <2>6 DEF LockInv
<1>5. QED
  BY Zenon, <1>1, <1>2, <1>3, <1>4

\* The first iteration of the idle loop, and tasks that have not run yet.
LEMMA LockInit ==
  ASSUME Init
  PROVE  LockInv
<1>1. PICK n \in Loops : path = [th \in Threads |-> IF th[2] = "trap" THEN User
                                           ELSE IF th[1] = Idle THEN n ELSE Entry[th[1]]]
  BY Zenon DEF Init
<1>2. stack = Idle /\ trapped = {} /\ Active = <<Idle, "base">>
  BY Zenon DEF Init, Active
<1>3. /\ \A s \in Stacks : path[<<s, "trap">>] = User
      /\ \A t \in Tasks : path[<<t, "base">>] = Entry[t]
      /\ path[<<Idle, "base">>] = n
  BY Zenon, <1>1 DEF Stacks
<1>4. \A s \in Stacks : path[<<s, "base">>] \in Names \ {User}
  BY Zenon, <1>3, NamesAssumption DEF Stacks
<1>5. \A th \in Threads : \E s \in Stacks : th = <<s, "trap">> \/ th = <<s, "base">>
  OBVIOUS
<1>6. \A th \in Threads : path[th] \in Names
  BY <1>3, <1>4, <1>5, UserFacts
<1>7. \A th \in Threads : pos[th] = 1 /\ at[th] = "go" /\ saved[th] = FALSE /\ was_enabled[th] = FALSE
  BY Zenon DEF Init
<1>8. \A th \in Threads : OpOf(th) = Code[path[th]][1] /\ 1 \in 1 .. Len(Code[path[th]])
  <2>1. \A m \in Names : 1 \in 1 .. Len(Code[m])
    BY PathsAssumption
  <2>2. QED
    BY ZenonT(60), <1>6, <1>7, <2>1 DEF OpOf
<1>9. \A s \in Stacks : OpOf(<<s, "base">>).held = {} /\ OpOf(<<s, "base">>).sie = FALSE /\ OpOf(<<s, "base">>).was = FALSE
  <2>1. SUFFICES ASSUME NEW s \in Stacks
                 PROVE  OpOf(<<s, "base">>).held = {} /\ OpOf(<<s, "base">>).sie = FALSE /\ OpOf(<<s, "base">>).was = FALSE
    OBVIOUS
  <2>2. PICK m \in Names \ {User} : m = path[<<s, "base">>]
    BY Zenon, <1>4
  <2>3. Starts(Code[m][1]) /\ Code[m][1].sie \in BOOLEAN /\ Code[m][1].was \in BOOLEAN
    BY Zenon, StartFacts, OpFacts
  <2>4. OpOf(<<s, "base">>) = Code[m][1]
    BY Zenon, <1>8, <2>2
  <2>5. QED
    BY ZenonT(60), <2>3, <2>4 DEF Starts
<1>10. TypeInv
  <2>1. path \in [Threads -> Names]
    BY Zenon, <1>1, <1>6
  <2>2. pos \in [Threads -> Nat] /\ at \in [Threads -> {"go", "mask", "swap", "unmask"}]
        /\ saved \in [Threads -> BOOLEAN] /\ was_enabled \in [Threads -> BOOLEAN]
    BY Zenon DEF Init
  <2>3. QED
    BY Zenon, <1>7, <1>8, <2>1, <2>2 DEF Init, TypeInv, Stacks
<1>11. WithinInv
  <2>1. \A s \in Stacks : OpOf(<<s, "trap">>).was = FALSE
    <3>1. Code[User][1].was = FALSE
      BY Zenon, UserWas
    <3>2. QED
      BY Zenon, <1>3, <1>8, <3>1
  <2>2. \A th \in Threads : OpOf(th).was = FALSE
    BY <1>5, <1>9, <2>1
  <2>3. QED
    BY ZenonT(60), <1>7, <2>2 DEF WithinInv
<1>12. PathInv
  BY Zenon, <1>2, <1>3 DEF PathInv
<1>13. ActiveInv
  <2>1. Op.held = {} /\ Op.sie = FALSE /\ at[Active] = "go"
    BY ZenonT(60), <1>2, <1>7, <1>9 DEF Op, Stacks
  <2>2. QED
    BY ZenonT(60), <2>1 DEF ActiveInv, Init
<1>14. BeneathInv /\ AwayInv
  BY Zenon, <1>2, <1>7, <1>9 DEF BeneathInv, AwayInv
<1>15. QED
  BY Zenon, <1>10, <1>11, <1>12, <1>13, <1>14 DEF LockInv

\* LockInv is inductive.
THEOREM LockInductive == Spec => []LockInv
<1>1. Init => LockInv
  BY Zenon, LockInit
<1>2. ASSUME LockInv, [Next]_vars
      PROVE  LockInv'
  <2>1. CASE Lock
    BY Zenon, <1>2, <2>1, LockStep
  <2>2. CASE Drop
    BY Zenon, <1>2, <2>2, DropStep
  <2>3. CASE SetIntr
    BY Zenon, <1>2, <2>3, SetIntrStep
  <2>4. CASE SwitchRead
    BY Zenon, <1>2, <2>4, SwitchReadStep
  <2>5. CASE SwitchMask
    BY Zenon, <1>2, <2>5, SwitchMaskStep
  <2>6. CASE SwitchRestore
    BY Zenon, <1>2, <2>6, SwitchRestoreStep
  <2>7. CASE Switch
    BY Zenon, <1>2, <2>7, SwitchStep
  <2>8. CASE Die
    BY Zenon, <1>2, <2>8, DieStep
  <2>9. CASE OnTick \/ Work
    BY Zenon, <1>2, <2>9, PlainStep
  <2>10. CASE Return
    BY Zenon, <1>2, <2>10, ReturnStep
  <2>11. CASE TimerInterrupt
    BY Zenon, <1>2, <2>11, TimerStep
  <2>12. CASE OtherTrap
    BY Zenon, <1>2, <2>12, OtherTrapStep
  <2>13. CASE Panic \/ Assertion \/ Fault \/ Down \/ Time \/ UNCHANGED vars
    BY Zenon, <1>2, <2>13, DownStep
  <2>14. QED
    BY Zenon, <1>2, <2>1, <2>2, <2>3, <2>4, <2>5, <2>6, <2>7, <2>8, <2>9, <2>10, <2>11, <2>12, <2>13
       DEF Next, KernelStep
<1>3. QED
  BY <1>1, <1>2, PTL DEF Spec

\* The hart never waits for a lock whose holder cannot go on: SpinLock::lock
\* masks interrupts, and no path of the kernel takes a lock twice or keeps one
\* across a switch.
THEOREM NoDeadlock == Spec => []NoSelfDeadlock
<1>1. ASSUME LockInv
      PROVE  NoSelfDeadlock
  <2>1. SUFFICES ASSUME Op.op = "lock", at[Active] = "swap"
                 PROVE  Op.arg \notin locked \ abandoned
    BY Zenon DEF NoSelfDeadlock
  <2>2. Active \in Threads /\ Op = OpOf(Active)
    BY ZenonT(60), <1>1, ThreadFacts DEF LockInv, TypeInv, Op
  <2>3. Op.arg \notin Op.held
    BY Zenon, <1>1, <2>1, <2>2, AtHand DEF LockInv, Disciplined
  <2>4. QED
    BY Zenon, <1>1, <2>1, <2>3 DEF LockInv, ActiveInv
<1>2. QED
  BY <1>1, LockInductive, PTL

\* Guards mask interrupts while any of them is alive and restore exactly what
\* they found, and handlers are never interrupted: SpinLockGuard::drop,
\* switch_to_idle, kernel_trap_handler.
THEOREM Masking == Spec => []MaskingIsExact
<1>1. ASSUME LockInv
      PROVE  MaskingIsExact
  <2>0. /\ Active \in Threads /\ Op = OpOf(Active)
        /\ at[Active] \in {"go", "mask", "swap", "unmask"}
    BY Zenon, <1>1, ThreadFacts DEF LockInv, TypeInv, Op
  <2>1. ASSUME locked \ abandoned # {} PROVE ~intr
    <3>1. at[Active] # "unmask" /\ Op.held # {}
      BY Zenon, <1>1, <2>1 DEF LockInv, ActiveInv
    <3>2. QED
      BY Zenon, <1>1, <2>0, <3>1 DEF LockInv, ActiveInv
  <2>2. ASSUME stack \in trapped PROVE ~intr
    <3>1. path[Active] \in HandlerNames
      BY ZenonT(60), <1>1, <2>2 DEF LockInv, PathInv, Active
    <3>2. ~Op.sie
      BY Zenon, <1>1, <2>0, <3>1, AtHand DEF LockInv
    <3>3. QED
      BY Zenon, <1>1, <2>0, <3>2 DEF LockInv, ActiveInv
  <2>3. at[Active] = "go" /\ Op.held = {} => intr = Op.sie
    BY ZenonT(60), <1>1 DEF LockInv, ActiveInv
  <2>4. QED
    BY Zenon, <2>1, <2>2, <2>3 DEF MaskingIsExact
<1>2. QED
  BY <1>1, LockInductive, PTL

-----------------------------------------------------------------------------
(* The timer *)

\* on_tick counts first, in a handler that starts with it.
LEMMA CountFirst ==
  ASSUME NEW n \in Names, NEW i \in 1 .. Len(Code[n]), Code[n][i].op = "count"
  PROVE  i = 1 /\ n \in TickNames /\ ~Code[n][i].sie /\ Code[n][i].tick = 0
<1>1. Len(Code[n]) \in Nat
  BY Zenon, PathsAssumption
<1>2. i = 1
  <2>1. SUFFICES ASSUME i > 1 PROVE FALSE
    BY <1>1
  <2>2. i - 1 \in 1 .. Len(Code[n]) /\ i - 1 < Len(Code[n]) /\ (i - 1) + 1 = i
    BY <1>1, <2>1
  <2>3. Follows(Code[n][i - 1], Code[n][i])
    BY Zenon, <2>2, PathsAssumption
  <2>4. QED
    BY ZenonT(60), <2>3 DEF Follows
<1>3. n # User
  BY ZenonT(60), <1>2, NamesAssumption
<1>4. QED
  BY ZenonT(60), <1>2, <1>3, PathsAssumption DEF Starts

\* The same of the operation at hand; interrupts are masked throughout on_tick.
LEMMA TickFacts ==
  ASSUME TypeInv, NEW th \in Threads
  PROVE  /\ OpOf(th).op = "count" => ~OpOf(th).sie /\ OpOf(th).tick = 0
         /\ OpOf(th).tick # 0 => ~OpOf(th).sie
         /\ OpOf(th).op \notin {"lock", "drop", "work", "deadline", "arm"} => OpOf(th).tick = 0
<1>1. path[th] \in Names /\ pos[th] \in 1 .. Len(Code[path[th]])
  BY Zenon DEF TypeInv
<1>2. QED
  BY Zenon, <1>1, CountFirst, AtHand DEF OpOf, Disciplined

\* A step that leaves the timer alone.
LEMMA Quiet ==
  ASSUME TimeInv, UNCHANGED timerVars, SuspendedInv', faults' = 0 => faults = 0,
         Op'.tick = Op.tick, Op'.op = "count" => armed <= now
  PROVE  TimeInv'
<1>1. now' = now /\ armed' = armed /\ TICKS' = TICKS /\ NEXT_DEADLINE' = NEXT_DEADLINE
      /\ looked' = looked /\ skipped' = skipped
  BY Zenon DEF timerVars
<1>2. ASSUME faults' = 0 PROVE RateInv'
  <2>1. RateInv
    BY Zenon, <1>2 DEF TimeInv
  <2>2. QED
    BY Zenon, <1>1, <2>1 DEF RateInv
<1>3. QED
  BY Zenon, <1>1, <1>2 DEF TimeInv

\* What is said of suspended threads does not change as long as they stay so.
LEMMA SuspendedKept ==
  ASSUME TypeInv, SuspendedInv, UNCHANGED hereVars,
         \A th \in Threads : th # Active => OpOf(th)' = OpOf(th)
  PROVE  SuspendedInv'
<1>1. stack \in Stacks /\ trapped \subseteq Stacks
  BY Zenon DEF TypeInv
<1>2. \A s \in trapped : <<s, "base">> \in Threads /\ <<s, "base">> # Active
  BY Zenon, <1>1 DEF Active
<1>3. \A s \in Stacks : s # stack =>
        LET th == <<s, IF s \in trapped THEN "trap" ELSE "base">> IN th \in Threads /\ th # Active
  BY Zenon, <1>1 DEF Active
<1>4. QED
  BY Zenon, <1>2, <1>3 DEF SuspendedInv, hereVars

\* A step along a path, outside on_tick.
LEMMA TimeAlong ==
  ASSUME LockInv, TimeInv,
         Lock \/ Drop \/ SetIntr \/ SwitchRead \/ SwitchMask \/ SwitchRestore \/ Work
  PROVE  TimeInv'
<1>0. Op.op \in {"lock", "drop", "enable", "disable", "mask", "restore", "work"}
  BY Zenon DEF Lock, Drop, SetIntr, SwitchRead, SwitchMask, SwitchRestore, Work, At
<1>1. UNCHANGED <<timerVars, path, hereVars, downVars>> /\ (Advanced \/ UNCHANGED pos)
  BY Zenon DEF Lock, Drop, SetIntr, SwitchRead, SwitchMask, SwitchRestore, Work
<1>2. CASE UNCHANGED pos
  <2>1. Op' = Op /\ \A th \in Threads : OpOf(th)' = OpOf(th)
    BY Zenon, <1>1, <1>2, Inside DEF LockInv
  <2>2. SuspendedInv'
    BY Zenon, <1>1, <2>1, SuspendedKept DEF LockInv, TimeInv
  <2>3. QED
    BY Zenon, <1>0, <1>1, <2>1, <2>2, Quiet DEF downVars
<1>3. CASE Advanced
  <2>1. Follows(Op, Op') /\ \A th \in Threads : th # Active => OpOf(th)' = OpOf(th)
    BY Zenon, <1>0, <1>1, <1>3, Ahead DEF LockInv, Leaving
  <2>2. SuspendedInv'
    BY ZenonT(60), <1>1, <2>1, SuspendedKept DEF LockInv, TimeInv
  <2>3. Op'.tick = Op.tick /\ Op'.op # "count"
    BY Zenon, <1>0, <2>1 DEF Follows
  <2>4. QED
    BY Zenon, <1>1, <2>2, <2>3, Quiet DEF downVars
<1>4. QED
  BY Zenon, <1>1, <1>2, <1>3

\* on_tick
LEMMA TimeOnTick ==
  ASSUME LockInv, TimeInv, OnTick
  PROVE  TimeInv'
<1>0. Active \in Threads /\ Op = OpOf(Active) /\ Op.op \in {"count", "deadline", "arm"}
  BY Zenon, ThreadFacts DEF LockInv, TypeInv, OnTick, At, Op
<1>1. Follows(Op, Op') /\ \A th \in Threads : th # Active => OpOf(th)' = OpOf(th)
  BY Zenon, <1>0, Ahead DEF LockInv, OnTick, Leaving
<1>2. SuspendedInv'
  BY ZenonT(60), <1>1, SuspendedKept DEF LockInv, TimeInv, OnTick
<1>3. faults' = faults /\ Op'.op # "count"
  BY Zenon, <1>1 DEF OnTick, downVars, Follows
<1>4. INTERVAL \in Nat /\ INTERVAL > 0 /\ TICKS \in Nat /\ NEXT_DEADLINE \in Nat /\ now \in Nat
  BY TimerAssumption DEF TimeInv
<1>5. TICKS * INTERVAL \in Nat /\ (TICKS + 1) * INTERVAL = TICKS * INTERVAL + INTERVAL
  BY <1>4
<1>6. CASE Op.op = "count"
  <2>1. Op.tick = 0 /\ Op'.tick = 1 /\ CountTick
    BY Zenon, <1>0, <1>1, <1>6, TickFacts DEF LockInv, Follows, OnTick, At
  <2>2. QED
    BY <1>2, <1>3, <1>4, <1>6, <2>1 DEF TimeInv, RateInv, CountTick
<1>7. CASE Op.op = "deadline"
  <2>1. Op.tick = 1 /\ Op'.tick = 2 /\ StoreDeadline
    BY Zenon, <1>0, <1>1, <1>7, AtHand DEF LockInv, Disciplined, Follows, OnTick, At
  <2>2. CASE NEXT_DEADLINE + INTERVAL <= now
    <3>1. /\ NEXT_DEADLINE' = now + INTERVAL /\ looked' = now /\ skipped' = TRUE
          /\ TICKS' = TICKS /\ now' = now /\ armed' = armed
      BY ZenonT(60), <2>1, <2>2 DEF StoreDeadline, NextDeadline, TimeInv
    <3>2. ASSUME faults = 0 PROVE (TICKS + 1) * INTERVAL <= now + INTERVAL
      BY <1>4, <1>5, <2>1, <2>2, <3>2 DEF TimeInv, RateInv
    <3>3. ASSUME faults' = 0 PROVE RateInv'
      BY <1>3, <1>4, <2>1, <3>1, <3>2, <3>3 DEF RateInv
    <3>4. QED
      BY <1>2, <1>4, <3>1, <3>3 DEF TimeInv
  <2>3. CASE ~(NEXT_DEADLINE + INTERVAL <= now)
    BY <1>2, <1>3, <1>4, <1>5, <2>1, <2>3 DEF TimeInv, RateInv, StoreDeadline, NextDeadline
  <2>4. QED
    BY Zenon, <2>2, <2>3
<1>8. CASE Op.op = "arm"
  <2>1. Op.tick = 2 /\ Op'.tick = 0 /\ SetTimer
    BY ZenonT(60), <1>0, <1>1, <1>8, AtHand DEF LockInv, Disciplined, Follows, OnTick, At
  <2>2. QED
    BY <1>2, <1>3, <1>4, <1>8, <2>1 DEF TimeInv, RateInv, SetTimer
<1>9. QED
  BY Zenon, <1>0, <1>6, <1>7, <1>8

\* A step of the running thread, on the same stack or to another, after which no
\* thread is in on_tick, or this one is about to enter it.
LEMMA Elsewhere ==
  ASSUME TypeInv, TimeInv, NEW a \in Threads, a = Active, UNCHANGED <<timerVars, trapped, downVars>>,
         stack' \in Stacks, \A th \in Threads : th # a => OpOf(th)' = OpOf(th),
         OpOf(a).tick = 0, OpOf(a)'.tick = 0, OpOf(a)'.op = "count" => stack' = stack /\ armed <= now
  PROVE  TimeInv'
<1>1. stack \in Stacks /\ trapped \subseteq Stacks /\ a = Top(stack)
  BY Zenon DEF TypeInv, Active, Top
<1>2. \A s \in Stacks : Top(s) \in Threads /\ (s # stack => Top(s) # a)
  BY Zenon, <1>1, TopApart
<1>3. \A s \in Stacks : s # stack => OpOf(Top(s)).tick = 0 /\ OpOf(Top(s)).op # "count"
  BY ZenonT(60) DEF TimeInv, SuspendedInv, Top
<1>4. \A th \in Threads : th # a => Code[path'[th]][pos'[th]] = OpOf(th)
  BY Zenon DEF OpOf
<1>5. \A s \in Stacks : /\ Code[path'[Top(s)]][pos'[Top(s)]].tick = 0
                        /\ Code[path'[Top(s)]][pos'[Top(s)]].op = "count" => s = stack /\ stack' = stack /\ armed <= now
  BY ZenonT(60), <1>1, <1>2, <1>3, <1>4 DEF OpOf
<1>6. Op' = Code[path'[Top(stack')]][pos'[Top(stack')]] /\ Op.tick = 0
  BY Zenon DEF Active, Top, Op, OpOf
<1>7. SuspendedInv'
  <2>1. \A s \in trapped : <<s, "base">> \in Threads /\ <<s, "base">> # a
    <3>1. \A s \in trapped : <<s, "base">> \in Threads
      BY Zenon, <1>1, Apart
    <3>2. \A s \in trapped : <<s, "base">> # Top(stack)
      BY Zenon, <1>1, TopApart
    <3>3. QED
      BY Zenon, <1>1, <3>1, <3>2
  <2>2. \A s \in trapped : OpOf(<<s, "base">>)' = OpOf(<<s, "base">>)
    BY ZenonT(60), <2>1
  <2>3. \A s \in trapped' : OpOf(<<s, "base">>)'.tick = 0 /\ OpOf(<<s, "base">>)'.op # "count"
    BY ZenonT(60), <2>2 DEF TimeInv, SuspendedInv
  <2>4. QED
    BY ZenonT(60), <1>5, <2>3 DEF SuspendedInv, Top, OpOf
<1>8. QED
  BY ZenonT(60), <1>5, <1>6, <1>7, Quiet DEF downVars

\* switch_context
LEMMA TimeSwitch ==
  ASSUME LockInv, TimeInv, Switch
  PROVE  TimeInv'
<1>0. Active \in Threads /\ Op.op = "switch" /\ Op = OpOf(Active)
  BY Zenon, ThreadFacts DEF LockInv, TypeInv, Switch, At, Op
<1>1. PICK a \in Threads : a = Active
  BY Zenon, <1>0
<1>2. OpOf(a).op = "switch" /\ OpOf(a).arg \in Stacks /\ OpOf(a).tick = 0
  BY ZenonT(60), <1>0, <1>1, AtHand, TickFacts DEF LockInv, Disciplined
<1>3. Follows(OpOf(a), OpOf(a)') /\ \A th \in Threads : th # a => OpOf(th)' = OpOf(th)
  BY Zenon, <1>1, <1>2, AheadOf DEF LockInv, Switch, Advanced, Leaving
<1>4. OpOf(a)'.tick = 0 /\ OpOf(a)'.op # "count"
  BY Zenon, <1>2, <1>3 DEF Follows
<1>5. stack' \in Stacks
  BY Zenon, <1>0, <1>1, <1>2 DEF Switch
<1>6. QED
  BY Zenon, <1>1, <1>2, <1>3, <1>4, <1>5, Elsewhere DEF LockInv, Switch

\* A path that is not a handler of the timer starts outside on_tick.
LEMMA StartsQuiet ==
  ASSUME NEW n \in Names \ TickNames
  PROVE  Code[n][1].tick = 0 /\ Code[n][1].op # "count"
<1>1. Code[n][1].op # "count"
  BY ZenonT(60), PathsAssumption
<1>2. Code[n][1].tick = 0
  BY ZenonT(60), UserFacts, StartFacts DEF Starts
<1>3. QED
  BY Zenon, <1>1, <1>2

\* A thread that goes to the start of a path leaves the others where they are.
LEMMA JumpedOps ==
  ASSUME LockInv, NEW a \in Threads, NEW n \in Names, Jump(a, n)
  PROVE  OpOf(a)' = Code[n][1] /\ \A th \in Threads : th # a => OpOf(th)' = OpOf(th)
<1>1. TypeInv
  BY ZenonT(60) DEF LockInv
<1>2. QED
  BY <1>1, Jumped

\* User mode is not a handler of the timer.
LEMMA UserNotTick == User \notin TickNames
BY NamesAssumption DEF TickNames, Stacks

\* The last switch of a task
LEMMA TimeDie ==
  ASSUME LockInv, TimeInv, Die
  PROVE  TimeInv'
<1>0. Active \in Threads /\ Op.op = "die" /\ Op = OpOf(Active) /\ stack \in Stacks
  BY Zenon, ThreadFacts DEF LockInv, TypeInv, Die, At, Op
<1>1. PICK a \in Threads : a = Active
  BY Zenon, <1>0
<1>2. OpOf(a).op = "die" /\ OpOf(a).arg \in Stacks /\ OpOf(a).tick = 0
  BY ZenonT(60), <1>0, <1>1, AtHand, TickFacts DEF LockInv, Disciplined
<1>3. path[a] \notin HandlerNames \cup DownNames \cup Loops
  BY ZenonT(60), <1>2, AtHand DEF LockInv
<1>4. stack # Idle
  BY Zenon, <1>0, <1>1, <1>3 DEF LockInv, PathInv, Active
<1>5. PICK n \in Names \ ({User} \cup TickNames) : n = Entry[stack]
  BY Zenon, <1>0, <1>4, NamesAssumption DEF Stacks
<1>6. Jump(a, n)
  BY Zenon, <1>1, <1>5 DEF Die, Jump
<1>7. OpOf(a)' = Code[n][1] /\ \A th \in Threads : th # a => OpOf(th)' = OpOf(th)
  BY Zenon, <1>6, JumpedOps
<1>8. stack' \in Stacks
  BY ZenonT(60), <1>0, <1>1, <1>2 DEF Die
<1>9. OpOf(a)'.tick = 0 /\ OpOf(a)'.op # "count"
  BY Zenon, <1>7, StartsQuiet
<1>10. QED
  BY ZenonT(60), <1>1, <1>2, <1>7, <1>8, <1>9, Elsewhere DEF LockInv, Die

\* the end of a path
LEMMA TimeReturn ==
  ASSUME LockInv, TimeInv, Return
  PROVE  TimeInv'
<1>0. Active \in Threads /\ Op.op = "end" /\ Op = OpOf(Active) /\ stack \in Stacks /\ trapped \subseteq Stacks
  BY Zenon, ThreadFacts DEF LockInv, TypeInv, Return, At, Op
<1>1. PICK a \in Threads : a = Active
  BY Zenon, <1>0
<1>2. OpOf(a).tick = 0 /\ stack' = stack /\ UNCHANGED <<timerVars, downVars>>
  BY Zenon, <1>0, <1>1, TickFacts DEF LockInv, Return
<1>3. PICK n \in Names \ TickNames : Jump(a, n)
  BY ZenonT(60), <1>1, UserFacts, UserNotTick, NamesAssumption DEF Return, Jump
<1>4. OpOf(a)' = Code[n][1] /\ \A th \in Threads : th # a => OpOf(th)' = OpOf(th)
  BY Zenon, <1>3, JumpedOps
<1>5. OpOf(a)'.tick = 0 /\ OpOf(a)'.op # "count"
  BY Zenon, <1>4, StartsQuiet
<1>6. CASE stack \notin trapped
  <2>1. UNCHANGED trapped
    BY Zenon, <1>6 DEF Return
  <2>2. QED
    BY Zenon, <1>0, <1>1, <1>2, <1>4, <1>5, <2>1, Elsewhere DEF LockInv
<1>7. CASE stack \in trapped
  <2>1. a = <<stack, "trap">> /\ trapped' = trapped \ {stack}
    BY ZenonT(30), <1>1, <1>7 DEF Active, Return
  <2>2. PICK b \in Threads : b = <<stack, "base">> /\ b # a
    BY ZenonT(60), <1>0, <2>1, ThreadFacts
  <2>3. Op' = OpOf(b)
    <3>1. Active' = b
      BY Zenon, <1>2, <2>1, <2>2 DEF Active
    <3>2. QED
      BY Zenon, <1>4, <2>2, <3>1 DEF Op
  <2>4. Op'.tick = Op.tick /\ Op'.op # "count"
    BY Zenon, <1>0, <1>1, <1>2, <1>7, <2>2, <2>3 DEF TimeInv, SuspendedInv
  <2>5. SuspendedInv'
    <3>1. \A s \in Stacks : s # stack => Top(s) \in Threads /\ Top(s) # a /\ Top(s)' = Top(s)
      BY Zenon, <1>0, <2>1 DEF Top
    <3>2. \A th \in Threads : th # a => Code[path'[th]][pos'[th]] = OpOf(th)
      BY Zenon, <1>4 DEF OpOf
    <3>3. \A s \in Stacks : s # stack => OpOf(Top(s)).tick = 0 /\ OpOf(Top(s)).op # "count"
      BY Zenon DEF TimeInv, SuspendedInv, Top
    <3>4. \A s \in Stacks : s # stack => LET o == Code[path'[Top(s)']][pos'[Top(s)']] IN o.tick = 0 /\ o.op # "count"
      BY ZenonT(60), <3>1, <3>2, <3>3
    <3>5. \A s \in trapped' : <<s, "base">> \in Threads /\ <<s, "base">> # a
      BY Zenon, <1>0, <2>1
    <3>6. \A s \in trapped' : OpOf(<<s, "base">>)' = OpOf(<<s, "base">>)
      BY ZenonT(60), <1>4, <3>5
    <3>7. \A s \in trapped' : OpOf(<<s, "base">>)'.tick = 0 /\ OpOf(<<s, "base">>)'.op # "count"
      BY ZenonT(60), <2>1, <3>6 DEF TimeInv, SuspendedInv
    <3>8. QED
      BY Zenon, <1>2, <3>4, <3>7 DEF SuspendedInv, Top, OpOf
  <2>6. QED
    BY Zenon, <1>2, <2>4, <2>5, Quiet DEF downVars
<1>8. QED
  BY ZenonT(60), <1>6, <1>7

\* A trap from user mode
LEMMA TimeUserTrap ==
  ASSUME LockInv, TimeInv, InUser, NEW n \in Names \ {User}, Jump(Active, n),
         n \in TickNames => armed <= now,
         UNCHANGED <<timerVars, stack, trapped, downVars>>
  PROVE  TimeInv'
<1>0. Active \in Threads /\ Op = OpOf(Active) /\ stack \in Stacks /\ Op.op = "user"
  BY Zenon, ThreadFacts DEF LockInv, TypeInv, InUser, Op
<1>1. PICK a \in Threads : a = Active
  BY Zenon, <1>0
<1>2. OpOf(a).tick = 0
  BY Zenon, <1>0, <1>1, TickFacts DEF LockInv
<1>3. Jump(a, n)
  BY Zenon, <1>1 DEF Jump
<1>4. OpOf(a)' = Code[n][1] /\ \A th \in Threads : th # a => OpOf(th)' = OpOf(th)
  BY Zenon, <1>3, JumpedOps
<1>5. OpOf(a)'.tick = 0 /\ (OpOf(a)'.op = "count" => armed <= now)
  BY Zenon, <1>4, StartFacts, PathsAssumption DEF Starts
<1>6. QED
  BY Zenon, <1>0, <1>1, <1>2, <1>4, <1>5, Elsewhere DEF LockInv

\* An interrupt of kernel code: it does not come inside on_tick.
LEMMA TimeKernelTrap ==
  ASSUME LockInv, TimeInv, intr, stack \notin trapped, NEW n \in Names \ {User},
         Jump(<<stack, "trap">>, n), trapped' = trapped \cup {stack},
         n \in TickNames => armed <= now,
         UNCHANGED <<timerVars, stack, downVars>>
  PROVE  TimeInv'
<1>0. stack \in Stacks /\ trapped \subseteq Stacks
  BY Zenon DEF LockInv, TypeInv
<1>1. PICK b \in Threads : b = <<stack, "base">> /\ b = Active
  BY Zenon, <1>0, ThreadFacts
<1>2. PICK a \in Threads : a = <<stack, "trap">>
  BY Zenon, <1>0, ThreadFacts
<1>3. OpOf(b).sie
  <2>1. Op = OpOf(b)
    BY Zenon, <1>1 DEF Op
  <2>2. at[b] \in {"go", "mask"}
    BY ZenonT(60), <1>1 DEF LockInv, ActiveInv, TypeInv
  <2>3. OpOf(b).held = {}
    BY Zenon, <1>1, <2>1, <2>2 DEF LockInv, ActiveInv
  <2>4. QED
    BY ZenonT(60), <1>1, <2>1, <2>2, <2>3 DEF LockInv, ActiveInv
<1>4. OpOf(b).tick = 0 /\ OpOf(b).op # "count"
  BY Zenon, <1>3, TickFacts DEF LockInv
<1>5. OpOf(a)' = Code[n][1] /\ \A th \in Threads : th # a => OpOf(th)' = OpOf(th)
  <2>1. Jump(a, n)
    BY Zenon, <1>2 DEF Jump
  <2>2. QED
    BY Zenon, <2>1, JumpedOps
<1>6. Op' = OpOf(a)' /\ Op = OpOf(b)
  BY ZenonT(60), <1>1, <1>2 DEF Active, Op, OpOf
<1>7. Op'.tick = Op.tick /\ (Op'.op = "count" => armed <= now)
  BY ZenonT(60), <1>4, <1>5, <1>6, StartFacts, PathsAssumption DEF Starts
<1>8. SuspendedInv'
  <2>1. \A s \in Stacks : s # stack => Top(s) \in Threads /\ Top(s) # a /\ Top(s)' = Top(s)
    BY Zenon, <1>0, <1>2 DEF Top
  <2>2. \A th \in Threads : th # a => Code[path'[th]][pos'[th]] = OpOf(th)
    BY ZenonT(60), <1>5 DEF OpOf
  <2>3. \A s \in Stacks : s # stack => OpOf(Top(s)).tick = 0 /\ OpOf(Top(s)).op # "count"
    BY Zenon DEF TimeInv, SuspendedInv, Top
  <2>4. \A s \in Stacks : s # stack => LET o == Code[path'[Top(s)']][pos'[Top(s)']] IN o.tick = 0 /\ o.op # "count"
    BY ZenonT(60), <2>1, <2>2, <2>3
  <2>5. \A s \in trapped' : <<s, "base">> \in Threads /\ <<s, "base">> # a
    BY Zenon, <1>0, <1>2
  <2>6. \A s \in trapped' : OpOf(<<s, "base">>)' = OpOf(<<s, "base">>)
    BY ZenonT(60), <1>5, <2>5
  <2>7. \A s \in trapped' : OpOf(<<s, "base">>).tick = 0 /\ OpOf(<<s, "base">>).op # "count"
    BY Zenon, <1>1, <1>4 DEF TimeInv, SuspendedInv
  <2>8. \A s \in trapped' : OpOf(<<s, "base">>)'.tick = 0 /\ OpOf(<<s, "base">>)'.op # "count"
    BY Zenon, <2>6, <2>7
  <2>9. QED
    BY ZenonT(60), <2>4, <2>8 DEF SuspendedInv, Top, OpOf
<1>9. QED
  BY ZenonT(60), <1>7, <1>8, Quiet DEF downVars

\* traps
LEMMA TimeTrap ==
  ASSUME LockInv, TimeInv, TimerInterrupt \/ OtherTrap
  PROVE  TimeInv'
<1>0. stack \in Stacks /\ now \in Nat /\ armed \in Nat
  BY ZenonT(60) DEF LockInv, TypeInv, TimeInv
<1>1. /\ UNCHANGED <<timerVars, stack, downVars>>
      /\ \/ /\ InUser /\ UNCHANGED trapped
            /\ \E n \in Names \ {User} : Jump(Active, n) /\ (n \in TickNames => armed <= now)
         \/ /\ intr /\ stack \notin trapped /\ trapped' = trapped \cup {stack}
            /\ \E n \in Names \ {User} : Jump(<<stack, "trap">>, n) /\ (n \in TickNames => armed <= now)
  <2>1. CASE TimerInterrupt
    <3>1. armed <= now
      BY Zenon, <1>0, <2>1 DEF TimerInterrupt, Pending
    <3>2. Ticks[stack] \subseteq Names \ {User} /\ (stack # Idle => UserTicks[stack] \subseteq Names \ {User})
      BY ZenonT(60), <1>0, NamesAssumption DEF Stacks
    <3>3. QED
      BY ZenonT(60), <2>1, <3>1, <3>2 DEF TimerInterrupt, Trap
  <2>2. CASE OtherTrap
    <3>1. /\ Devices[stack] \subseteq Names \ ({User} \cup TickNames)
          /\ stack # Idle => Calls[stack] \cup UserDevices[stack] \subseteq Names \ ({User} \cup TickNames)
      BY Zenon, <1>0, NamesAssumption DEF Stacks
    <3>2. QED
      BY ZenonT(60), <2>2, <3>1 DEF OtherTrap, Trap
  <2>3. QED
    BY Zenon, <2>1, <2>2
<1>2. QED
  BY Zenon, <1>1, TimeUserTrap, TimeKernelTrap

\* the ways down, and time
LEMMA TimeDown ==
  ASSUME LockInv, TimeInv, Panic \/ Assertion \/ Fault \/ Down \/ Time \/ UNCHANGED vars
  PROVE  TimeInv'
<1>1. ASSUME NEW n \in DownNames, GoDown(n), faults' = 0 => faults = 0 /\ Op.tick = 0
      PROVE  TimeInv'
  <2>1. n \in Names \ TickNames
    BY Zenon, NamesAssumption
  <2>2. Code[n][1].tick = 0 /\ Code[n][1].op # "count"
    BY Zenon, <2>1, StartsQuiet
  <2>3. \A th \in Threads : OpOf(th)' = Code[n][1]
    BY Zenon, <1>1 DEF GoDown, OpOf
  <2>4. stack' = Idle /\ trapped' = {}
    BY Zenon, <1>1 DEF GoDown
  <2>5. Op' = Code[n][1]
    <3>1. Active' \in Threads
      BY Zenon, <2>4 DEF Active, Stacks
    <3>2. QED
      BY Zenon, <2>3, <3>1 DEF Op, OpOf
  <2>6. SuspendedInv'
    BY Zenon, <2>2, <2>3, <2>4 DEF SuspendedInv
  <2>7. UNCHANGED timerVars
    BY Zenon, <1>1 DEF GoDown
  <2>8. CASE faults' = 0
    BY ZenonT(60), <1>1, <2>2, <2>5, <2>6, <2>7, <2>8, Quiet
  <2>9. CASE faults' # 0
    BY Zenon, <2>6, <2>7, <2>9 DEF TimeInv, timerVars
  <2>10. QED
    BY Zenon, <2>8, <2>9
<1>2. CASE Panic
  <2>1. PICK n \in DownNames : n = IF PANIC_DEPTH > 0 THEN Halting ELSE Panicking
    BY ZenonT(60) DEF DownNames
  <2>2. GoDown(n) /\ faults' = faults
    BY Zenon, <1>2, <2>1 DEF Panic, PanicHandler, GoDown
  <2>3. Op.tick = 0
    BY Zenon, <1>2, ThreadFacts, TickFacts DEF LockInv, TypeInv, Panic, At, Op
  <2>4. QED
    BY Zenon, <1>1, <2>2, <2>3
<1>3. CASE Assertion
  <2>1. PICK n \in DownNames : n = IF PANIC_DEPTH > 0 THEN Halting ELSE Panicking
    BY ZenonT(60) DEF DownNames
  <2>2. GoDown(n) /\ faults' # 0
    BY <1>3, <2>1 DEF Assertion, PanicHandler, GoDown, LockInv, TypeInv
  <2>3. QED
    BY Zenon, <1>1, <2>2
<1>4. CASE Fault
  <2>1. Fatal \in DownNames /\ GoDown(Fatal) /\ faults' # 0
    BY <1>4 DEF Fault, DownNames, LockInv, TypeInv
  <2>2. QED
    BY ZenonT(60), <1>1, <2>1
<1>5. CASE Down \/ Time \/ UNCHANGED vars
  <2>1. UNCHANGED <<path, pos, hereVars, faults>>
    BY Zenon, <1>5 DEF Down, Time, downVars, vars
  <2>2. Op' = Op /\ \A th \in Threads : OpOf(th)' = OpOf(th)
    BY Zenon, <2>1, Inside DEF LockInv
  <2>3. SuspendedInv'
    BY ZenonT(60), <2>1, <2>2, SuspendedKept DEF LockInv, TimeInv
  <2>4. CASE Time
    <3>1. now' = now + 1 /\ UNCHANGED <<armed, TICKS, NEXT_DEADLINE, looked, skipped>>
      BY Zenon, <2>4 DEF Time, Advance
    <3>2. INTERVAL \in Nat /\ (TICKS + 1) * INTERVAL \in Nat /\ TICKS * INTERVAL \in Nat
      BY TimerAssumption DEF TimeInv
    <3>3. QED
      BY <2>1, <2>2, <2>3, <3>1, <3>2 DEF TimeInv, RateInv
  <2>5. CASE Down \/ UNCHANGED vars
    <3>1. UNCHANGED timerVars
      BY Zenon, <2>5 DEF Down, vars
    <3>2. QED
      BY ZenonT(60), <2>1, <2>2, <2>3, <3>1 DEF TimeInv, RateInv, timerVars
  <2>6. QED
    BY Zenon, <1>5, <2>4, <2>5
<1>6. QED
  BY Zenon, <1>2, <1>3, <1>4, <1>5

\* timer::init
LEMMA TimeInit ==
  ASSUME Init
  PROVE  TimeInv
<1>1. PICK n \in Loops : path = [th \in Threads |-> IF th[2] = "trap" THEN User
                                           ELSE IF th[1] = Idle THEN n ELSE Entry[th[1]]]
  BY Zenon DEF Init
<1>2. stack = Idle /\ trapped = {} /\ Active = <<Idle, "base">>
  BY Zenon DEF Init, Active
<1>3. \A s \in Stacks : path[<<s, "base">>] \in Names \ TickNames
  BY ZenonT(60), <1>1, NamesAssumption DEF Stacks
<1>4. \A s \in Stacks : OpOf(<<s, "base">>) = Code[path[<<s, "base">>]][1]
  BY Zenon DEF Init, OpOf
<1>5. \A s \in Stacks : OpOf(<<s, "base">>).tick = 0 /\ OpOf(<<s, "base">>).op # "count"
  BY Zenon, <1>3, <1>4, StartsQuiet
<1>6. Op.tick = 0 /\ Op.op # "count"
  BY Zenon, <1>2, <1>5 DEF Op, Stacks
<1>7. SuspendedInv
  BY Zenon, <1>2, <1>5 DEF SuspendedInv
<1>8. INTERVAL \in Nat /\ INTERVAL > 0 /\ (0 + 1) * INTERVAL = INTERVAL
  BY TimerAssumption
<1>9. now = 0 /\ armed = INTERVAL /\ TICKS = 0 /\ NEXT_DEADLINE = INTERVAL /\ looked = 0 /\ skipped = FALSE
  BY Zenon DEF Init, TimerInit
<1>10. (TICKS + 1) * INTERVAL = INTERVAL
  BY Zenon, <1>8, <1>9
<1>11. RateInv
  BY <1>6, <1>8, <1>9, <1>10 DEF RateInv
<1>12. QED
  BY ZenonT(60), <1>7, <1>8, <1>9, <1>11 DEF TimeInv

\* The clock's invariant is inductive, given that of the locks: that on_tick is
\* neither interrupted nor preempted follows from the masking.
THEOREM TimeInductive == Spec => []TimeInv
<1>1. Init => TimeInv
  BY Zenon, TimeInit
<1>2. ASSUME LockInv, TimeInv, [Next]_vars
      PROVE  TimeInv'
  <2>1. CASE Lock \/ Drop \/ SetIntr \/ SwitchRead \/ SwitchMask \/ SwitchRestore \/ Work
    BY Zenon, <1>2, <2>1, TimeAlong
  <2>2. CASE Switch
    BY Zenon, <1>2, <2>2, TimeSwitch
  <2>3. CASE Die
    BY Zenon, <1>2, <2>3, TimeDie
  <2>4. CASE OnTick
    BY Zenon, <1>2, <2>4, TimeOnTick
  <2>5. CASE Return
    BY Zenon, <1>2, <2>5, TimeReturn
  <2>6. CASE TimerInterrupt \/ OtherTrap
    BY Zenon, <1>2, <2>6, TimeTrap
  <2>7. CASE Panic \/ Assertion \/ Fault \/ Down \/ Time \/ UNCHANGED vars
    BY Zenon, <1>2, <2>7, TimeDown
  <2>8. QED
    BY Zenon, <1>2, <2>1, <2>2, <2>3, <2>4, <2>5, <2>6, <2>7 DEF Next, KernelStep
<1>3. QED
  BY <1>1, <1>2, LockInductive, PTL DEF Spec

\* on_tick keeps its rate, for every period and however late it runs.
THEOREM Rate == Spec => []TickRate
<1>1. ASSUME LockInv, TimeInv
      PROVE  TickRate
  <2>1. SUFFICES ASSUME faults = 0
                 PROVE  /\ TICKS * INTERVAL <= now
                        /\ looked < NEXT_DEADLINE /\ NEXT_DEADLINE <= now + INTERVAL
                        /\ Op.tick = 0 => /\ armed = NEXT_DEADLINE
                                          /\ ~skipped => NEXT_DEADLINE = (TICKS + 1) * INTERVAL
    BY Zenon DEF TickRate
  <2>2. INTERVAL \in Nat /\ TICKS \in Nat /\ NEXT_DEADLINE \in Nat /\ now \in Nat
    BY Zenon, <1>1, TimerAssumption DEF TimeInv
  <2>3. TICKS * INTERVAL \in Nat /\ (TICKS + 1) * INTERVAL = TICKS * INTERVAL + INTERVAL
    BY <2>2
  <2>4. RateInv
    BY ZenonT(60), <1>1, <2>1 DEF TimeInv
  <2>5. CASE Op.tick = 1
    BY <2>2, <2>3, <2>4, <2>5 DEF RateInv
  <2>6. CASE Op.tick # 1
    BY <2>2, <2>3, <2>4, <2>6 DEF RateInv
  <2>7. QED
    BY Zenon, <2>5, <2>6
<1>2. QED
  BY <1>1, LockInductive, TimeInductive, PTL

=============================================================================
