---------------------------- MODULE ProcessProofs ----------------------------
(***************************************************************************)
(* Proofs about the process tree, for any number of processes: an exit     *)
(* status is delivered exactly once, and a task that was freed stays so.   *)
(***************************************************************************)
EXTENDS Process, SequenceTheorems, FiniteSetTheorems, TLAPS

Lives   == {"unborn", "alive", "zombie"}
Exiting == {"exit_space", "exit_parent", "exit_drain", "exit_wake", "exit_switch"}
Labels  == {"user", "scan", "reap", "push", "park", "unqueue"} \cup Exiting
Values  == Codes \cup {Killed}

Listed(p, c) == Contains(children[p], c)
Reaped(c)    == \E r \in collected : r[2] = c

------------------------------------------------------------------------------
(* The inductive invariant                                                    *)

Types ==
  /\ life \in [Tasks -> Lives]
  /\ parent \in [Tasks -> Tasks \cup {None}]
  /\ children \in [Tasks -> Seq(Tasks)]
  /\ exit_code \in [Tasks -> Values \cup {None}]
  /\ pc \in [Tasks -> Labels]
  /\ reaping \in [Tasks -> Tasks \cup {None}]
  /\ upgraded \in [Tasks -> Tasks \cup {None}]
  /\ waking \in [Tasks -> Tasks \cup {None}]
  /\ leaked \subseteq Tasks
  /\ collected \subseteq Tasks \X Tasks \X Values

\* Who has not been forked has no parent, no children, and runs no code.
Births ==
  /\ life[Root] # "unborn"
  /\ \A t \in Tasks : parent[t] = None <=> life[t] = "unborn" \/ t = Root
  /\ \A t \in Tasks : life[t] = "unborn" => pc[t] = "user" /\ children[t] = <<>>

\* The exit code is stored first, and a zombie has one.
Exits ==
  \A t \in Tasks :
    /\ pc[t] \in Exiting => exit_code[t] \in Values
    /\ life[t] = "zombie" => pc[t] = "exit_switch"

\* A child list has each child once, and only the caller's own children.
Lists ==
  \A p \in Tasks :
    /\ \A i, j \in 1 .. Len(children[p]) : children[p][i] = children[p][j] => i = j
    /\ \A c \in Tasks : Listed(p, c) => parent[c] = p

\* What waitpid has found is a zombie of its caller that nobody else can find.
Reaps ==
  \A t \in Tasks :
    /\ pc[t] = "reap" <=> reaping[t] # None
    /\ reaping[t] # None =>
         /\ life[reaping[t]] = "zombie"
         /\ parent[reaping[t]] = t
         /\ ~Listed(t, reaping[t])
         /\ ~Reaped(reaping[t])

\* What waitpid has returned, it found then; it cannot be found again.
Collects ==
  \A r \in collected :
    /\ r[1] = parent[r[2]]
    /\ life[r[2]] = "zombie"
    /\ r[3] = exit_code[r[2]]
    /\ ~Listed(r[1], r[2])

\* A child is not forgotten.
Kept ==
  \A c \in Tasks : parent[c] # None => Listed(parent[c], c) \/ reaping[parent[c]] = c \/ Reaped(c)

Tree == Births /\ Exits /\ Lists /\ Reaps /\ Collects /\ Kept
IInv == Types /\ Tree

------------------------------------------------------------------------------
(* Sequences                                                                  *)

\* What a child list contains after a push.
LEMMA AppendChild ==
  ASSUME NEW s \in Seq(Tasks), NEW c \in Tasks
  PROVE  /\ Append(s, c) \in Seq(Tasks)
         /\ \A u \in Tasks : Contains(Append(s, c), u) <=> Contains(s, u) \/ u = c
         /\ ~Contains(s, c) /\ (\A i, j \in 1 .. Len(s) : s[i] = s[j] => i = j) =>
              \A i, j \in 1 .. Len(Append(s, c)) : Append(s, c)[i] = Append(s, c)[j] => i = j
<1>1. /\ Len(s) \in Nat /\ Len(Append(s, c)) = Len(s) + 1 /\ Append(s, c)[Len(s) + 1] = c
      /\ \A i \in 1 .. Len(s) : Append(s, c)[i] = s[i]
      /\ Append(s, c) \in Seq(Tasks)
  BY AppendProperties, LenProperties
<1>2. /\ \A i \in 1 .. Len(s) + 1 : i \in 1 .. Len(s) \/ i = Len(s) + 1
      /\ \A i \in 1 .. Len(s) : i \in 1 .. Len(s) + 1
      /\ Len(s) + 1 \in 1 .. Len(s) + 1
  BY <1>1
<1>3. \A u \in Tasks : Contains(Append(s, c), u) <=> Contains(s, u) \/ u = c
  BY <1>1, <1>2, Zenon DEF Contains
<1>4. ASSUME ~Contains(s, c), \A i, j \in 1 .. Len(s) : s[i] = s[j] => i = j,
             NEW i \in 1 .. Len(Append(s, c)), NEW j \in 1 .. Len(Append(s, c)),
             Append(s, c)[i] = Append(s, c)[j]
      PROVE  i = j
  BY <1>1, <1>2, <1>4, Zenon DEF Contains
<1> QED BY <1>1, <1>3, <1>4

\* What is left of a child list when one is taken out.
LEMMA RemoveChild ==
  ASSUME NEW s \in Seq(Tasks), NEW i \in 1 .. Len(s)
  PROVE  /\ RemoveAt(s, i) \in Seq(Tasks)
         /\ ToSet(RemoveAt(s, i)) \subseteq ToSet(s)
         /\ (\A j, k \in 1 .. Len(s) : s[j] = s[k] => j = k) =>
              /\ \A j, k \in 1 .. Len(RemoveAt(s, i)) : RemoveAt(s, i)[j] = RemoveAt(s, i)[k] => j = k
              /\ \A u \in Tasks : Contains(RemoveAt(s, i), u) <=> Contains(s, u) /\ u # s[i]
<1> DEFINE r == RemoveAt(s, i)
           At(j) == IF j < i THEN j ELSE j + 1
<1>1. Len(s) \in Nat /\ \A j \in 1 .. Len(s) : s[j] \in Tasks
  BY LenProperties
<1> DEFINE a == SubSeq(s, 1, i - 1)
           b == SubSeq(s, i + 1, Len(s))
<1>2. a \in Seq(Tasks) /\ Len(a) = i - 1 /\ \A j \in 1 .. i - 1 : a[j] = s[j]
  BY <1>1, SubSeqProperties
<1>3. b \in Seq(Tasks) /\ Len(b) = Len(s) - i /\ \A j \in 1 .. Len(s) - i : b[j] = s[i + j]
  BY <1>1, SubSeqProperties
<1>4. r = a \o b
  BY DEF RemoveAt
<1> HIDE DEF r, a, b
<1>5. Len(a) + Len(b) = Len(s) - 1
  BY <1>1, <1>2, <1>3
<1>6. r \in Seq(Tasks) /\ Len(r) = Len(s) - 1
  BY <1>4, <1>2, <1>3, <1>5, ConcatProperties
<1>7. \A j \in 1 .. Len(s) - 1 : r[j] = IF j <= i - 1 THEN a[j] ELSE b[j - (i - 1)]
  BY <1>4, <1>2, <1>3, <1>5, ConcatProperties
<1>8. \A j \in 1 .. Len(s) - 1 : r[j] = s[At(j)]
  <2> TAKE j \in 1 .. Len(s) - 1
  <2>1. r[j] = IF j <= i - 1 THEN a[j] ELSE b[j - (i - 1)]
    BY <1>7
  <2>2. CASE j < i
    BY <1>1, <1>2, <2>1, <2>2
  <2>3. CASE ~(j < i)
    <3>1. j - (i - 1) \in 1 .. Len(s) - i /\ i + (j - (i - 1)) = j + 1
      BY <1>1, <2>3
    <3> QED BY <1>1, <1>3, <2>1, <2>3, <3>1
  <2> QED BY <2>2, <2>3
<1>9. \A j \in 1 .. Len(s) - 1 : At(j) \in 1 .. Len(s) /\ At(j) # i
  BY <1>1
<1>10. \A j, k \in 1 .. Len(s) - 1 : At(j) = At(k) => j = k
  BY <1>1
<1>11. \A k \in 1 .. Len(s) : k # i => \E j \in 1 .. Len(s) - 1 : At(j) = k
  <2> TAKE k \in 1 .. Len(s)
  <2> HAVE k # i
  <2>1. CASE k < i
    <3>1. k \in 1 .. Len(s) - 1 /\ At(k) = k
      BY <1>1, <2>1
    <3> QED BY <3>1
  <2>2. CASE ~(k < i)
    <3>1. k - 1 \in 1 .. Len(s) - 1 /\ At(k - 1) = k
      BY <1>1, <2>2
    <3> QED BY <3>1
  <2> QED BY <2>1, <2>2
<1> HIDE DEF At
<1>12. ToSet(r) \subseteq ToSet(s)
  BY <1>1, <1>6, <1>8, <1>9, LenProperties DEF ToSet
<1>13. ASSUME \A j, k \in 1 .. Len(s) : s[j] = s[k] => j = k
       PROVE  /\ \A j, k \in 1 .. Len(r) : r[j] = r[k] => j = k
              /\ \A u \in Tasks : Contains(r, u) <=> Contains(s, u) /\ u # s[i]
  <2>1. \A j, k \in 1 .. Len(r) : r[j] = r[k] => j = k
    <3> TAKE j, k \in 1 .. Len(r)
    <3> HAVE r[j] = r[k]
    <3>1. j \in 1 .. Len(s) - 1 /\ k \in 1 .. Len(s) - 1
      BY <1>6
    <3>2. s[At(j)] = s[At(k)] /\ At(j) \in 1 .. Len(s) /\ At(k) \in 1 .. Len(s)
      BY <1>8, <1>9, <3>1
    <3> QED BY <1>10, <1>13, <3>1, <3>2
  <2>2. \A u \in Tasks : Contains(r, u) => Contains(s, u) /\ u # s[i]
    BY <1>6, <1>8, <1>9, <1>13 DEF Contains
  <2>3. \A u \in Tasks : Contains(s, u) /\ u # s[i] => Contains(r, u)
    BY <1>6, <1>8, <1>11 DEF Contains
  <2> QED BY <2>1, <2>2, <2>3
<1> QED BY <1>6, <1>12, <1>13 DEF r

------------------------------------------------------------------------------
(* The steps                                                                  *)

\* A step moves one task, which is alive.
LEMMA Moves ==
  ASSUME Types, NEW t \in Tasks, NEW from, NEW to, Step(t, from, to)
  PROVE  /\ life[t] = "alive" /\ pc[t] = from
         /\ \A u \in Tasks : pc'[u] = IF u = t THEN to ELSE pc[u]
BY DEF Step, Types

\* A step that leaves the tree alone.
LEMMA TreeLocal ==
  ASSUME Types, Tree, NEW t \in Tasks, NEW from, NEW to, Step(t, from, to),
         from # "reap", to # "reap", to \in Exiting => exit_code[t] \in Values,
         UNCHANGED <<life, parent, children, exit_code, reaping, collected>>
  PROVE  Tree'
<1>0. /\ life[t] = "alive" /\ pc[t] # "reap"
      /\ \A u \in Tasks : pc'[u] = IF u = t THEN to ELSE pc[u]
  BY Moves
<1>1. Births'
  BY <1>0 DEF Tree, Births
<1>2. Exits'
  BY <1>0 DEF Tree, Exits
<1>3. /\ \A p, c \in Tasks : Listed(p, c)' <=> Listed(p, c)
      /\ \A c \in Tasks : Reaped(c)' <=> Reaped(c)
  BY DEF Listed, Reaped
<1>4. Lists'
  BY <1>3 DEF Tree, Lists
<1>5. Reaps'
  BY <1>0, <1>3 DEF Tree, Reaps, Types
<1>6. Collects'
  BY DEF Tree, Collects, Listed
<1>7. Kept'
  BY <1>3 DEF Tree, Kept, Types
<1> QED BY <1>1, <1>2, <1>4, <1>5, <1>6, <1>7 DEF Tree

\* Most of exit and of waitpid leaves the tree alone.
LEMMA LocalTree ==
  ASSUME Types, Tree, NEW t \in Tasks,
         \/ ExitSpace(t) \/ ExitParent(t) \/ ExitDrain(t) \/ ExitWake(t)
         \/ WaitPush(t) \/ WaitPark(t) \/ WaitUnqueue(t)
         \/ (\E w \in Tasks \cup {None} : Waitpid(t, w))
  PROVE  Tree'
<1>1. UNCHANGED <<life, parent, children, exit_code, reaping, collected>>
  BY DEF ExitSpace, ExitParent, ExitDrain, ExitWake, WaitPush, WaitPark, WaitUnqueue, Waitpid,
     inner, local
<1>2. PICK from \in Exiting \cup {"user", "push", "park", "unqueue"},
           to \in Exiting \cup {"scan", "park", "unqueue"} :
        Step(t, from, to) /\ (to \in Exiting => from \in Exiting)
  BY DEF ExitSpace, ExitParent, ExitDrain, ExitWake, WaitPush, WaitPark, WaitUnqueue, Waitpid,
     Exiting
<1>3. pc[t] = from
  BY <1>2, Moves
<1>4. to \in Exiting => exit_code[t] \in Values
  BY <1>2, <1>3 DEF Tree, Exits
<1>5. from # "reap" /\ to # "reap"
  BY DEF Exiting
<1> QED BY <1>1, <1>2, <1>4, <1>5, TreeLocal

\* fork adds a child that nobody knew.
LEMMA ForkTree ==
  ASSUME Types, Tree, NEW t \in Tasks, NEW c \in Tasks, Fork(t, c)
  PROVE  Tree'
<1>0. /\ life[t] = "alive" /\ pc[t] = "user" /\ life[c] = "unborn" /\ c # t /\ c # Root
      /\ \A u \in Tasks : pc'[u] = pc[u]
      /\ \A u \in Tasks : life'[u] = IF u = c THEN "alive" ELSE life[u]
      /\ \A u \in Tasks : parent'[u] = IF u = c THEN t ELSE parent[u]
      /\ \A u \in Tasks : children'[u] = IF u = t THEN Append(children[t], c) ELSE children[u]
      /\ UNCHANGED <<exit_code, reaping, collected>>
  <2>1. life[t] = "alive" /\ pc[t] = "user" /\ \A u \in Tasks : pc'[u] = pc[u]
    BY Moves DEF Fork
  <2> QED BY <2>1 DEF Fork, Types, Tree, Births, local
<1>1. /\ parent[c] = None /\ \A p \in Tasks : ~Listed(p, c) /\ reaping[p] # c
      /\ ~Reaped(c)
  <2>1. parent[c] = None
    BY <1>0 DEF Tree, Births
  <2>2. \A p \in Tasks : ~Listed(p, c) /\ reaping[p] # c
    BY <1>0, <2>1, ProcessAssumption DEF Tree, Lists, Reaps
  <2>3. ~Reaped(c)
    BY <1>0 DEF Tree, Collects, Reaped
  <2> QED BY <2>1, <2>2, <2>3
<1>2. children[t] \in Seq(Tasks)
  BY DEF Types
<1>3. /\ \A p, u \in Tasks : Listed(p, u)' <=> Listed(p, u) \/ (p = t /\ u = c)
      /\ \A u \in Tasks : Reaped(u)' <=> Reaped(u)
  BY <1>0, <1>2, AppendChild DEF Listed, Reaped
<1>4. Births'
  BY <1>0, ProcessAssumption DEF Tree, Births
<1>5. Exits'
  BY <1>0 DEF Tree, Exits, Exiting, Births
<1>6. Lists'
  <2>1. \A p \in Tasks, u \in Tasks : Listed(p, u)' => parent'[u] = p
    BY <1>0, <1>1, <1>3 DEF Tree, Lists
  <2>2. ~Contains(children[t], c)
    BY <1>1 DEF Listed
  <2>3. \A p \in Tasks : \A i, j \in 1 .. Len(children'[p]) :
          children'[p][i] = children'[p][j] => i = j
    <3> TAKE p \in Tasks
    <3>1. CASE p = t
      <4>1. \A i, j \in 1 .. Len(children[t]) : children[t][i] = children[t][j] => i = j
        BY DEF Tree, Lists
      <4>2. \A i, j \in 1 .. Len(Append(children[t], c)) :
              Append(children[t], c)[i] = Append(children[t], c)[j] => i = j
        BY <1>2, <2>2, <4>1, AppendChild
      <4> QED BY <1>0, <3>1, <4>2
    <3>2. CASE p # t
      BY <1>0, <3>2 DEF Tree, Lists
    <3> QED BY <3>1, <3>2
  <2> QED BY <2>1, <2>3 DEF Lists
<1>7. Reaps'
  BY <1>0, <1>1, <1>3 DEF Tree, Reaps, Types
<1>8. Collects'
  <2>1. \A r \in collected : r[1] \in Tasks /\ r[2] \in Tasks /\ r[2] # c
    BY <1>1 DEF Types, Reaped
  <2> QED BY <1>0, <1>3, <2>1 DEF Tree, Collects
<1>9. Kept'
  <2> SUFFICES ASSUME NEW u \in Tasks, parent'[u] # None
               PROVE  Contains(children'[parent'[u]], u) \/ reaping'[parent'[u]] = u \/ Reaped(u)'
    BY DEF Kept, Listed
  <2>1. CASE u = c
    <3>1. parent'[u] = t /\ Listed(t, c)'
      BY <1>0, <1>3, <2>1
    <3> QED BY <2>1, <3>1 DEF Listed
  <2>2. CASE u # c
    <3>1. parent'[u] = parent[u] /\ parent[u] \in Tasks
      BY <1>0, <2>2 DEF Types
    <3>2. PICK p \in Tasks : p = parent[u]
      BY <3>1
    <3>3. Listed(p, u)' \/ reaping[p] = u \/ Reaped(u)'
      <4>1. Listed(p, u) \/ reaping[p] = u \/ Reaped(u)
        BY <3>1, <3>2, ProcessAssumption DEF Tree, Kept, Listed
      <4> QED BY <1>3, <4>1
    <3> QED BY <1>0, <3>1, <3>2, <3>3 DEF Listed
  <2> QED BY <2>1, <2>2
<1> QED BY <1>4, <1>5, <1>6, <1>7, <1>8, <1>9 DEF Tree

\* A step of a task on its way out: its code is stored, and at the end it is a zombie.
LEMMA TreeDying ==
  ASSUME Types, Tree, NEW t \in Tasks, NEW from, NEW to \in Exiting, Step(t, from, to),
         from # "reap",
         \A u \in Tasks \ {t} : life'[u] = life[u] /\ exit_code'[u] = exit_code[u],
         life'[t] = "alive" \/ (life'[t] = "zombie" /\ to = "exit_switch"),
         exit_code'[t] \in Values,
         UNCHANGED <<parent, children, reaping, collected>>
  PROVE  Tree'
<1>0. /\ life[t] = "alive" /\ pc[t] # "reap"
      /\ \A u \in Tasks : pc'[u] = IF u = t THEN to ELSE pc[u]
  BY Moves
<1>1. Births'
  BY <1>0, ProcessAssumption DEF Tree, Births
<1>2. Exits'
  BY <1>0 DEF Tree, Exits
<1>3. /\ \A p, c \in Tasks : Listed(p, c)' <=> Listed(p, c)
      /\ \A c \in Tasks : Reaped(c)' <=> Reaped(c)
  BY DEF Listed, Reaped
<1>4. Lists'
  BY <1>3 DEF Tree, Lists
<1>5. Reaps'
  <2>1. to # "reap"
    BY DEF Exiting
  <2> QED BY <1>0, <1>3, <2>1 DEF Tree, Reaps, Types
<1>6. Collects'
  <2>1. \A r \in collected : r[1] \in Tasks /\ r[2] \in Tasks /\ r[2] # t
    BY <1>0 DEF Types, Tree, Collects
  <2> QED BY <1>3, <2>1 DEF Tree, Collects
<1>7. Kept'
  BY <1>3 DEF Tree, Kept, Listed
<1> QED BY <1>1, <1>2, <1>4, <1>5, <1>6, <1>7 DEF Tree

\* exit stores the code and, in the end, switches away for good; a kill does both.
LEMMA DyingTree ==
  ASSUME Types, Tree, NEW t \in Tasks,
         (\E code \in Codes : ExitCode(t, code)) \/ ExitSwitch(t) \/ Kill(t)
  PROVE  Tree'
<1>1. CASE \E code \in Codes : ExitCode(t, code)
  <2>1. PICK code \in Codes : ExitCode(t, code)
    BY <1>1
  <2>2. /\ Step(t, "user", "exit_space") /\ "exit_space" \in Exiting
        /\ UNCHANGED <<life, parent, children, reaping, collected>>
        /\ \A u \in Tasks \ {t} : exit_code'[u] = exit_code[u]
        /\ exit_code'[t] \in Values
    BY <2>1 DEF ExitCode, Exiting, Types, Values, local
  <2>3. life'[t] = "alive"
    BY <2>2, Moves
  <2> QED BY <2>2, <2>3, TreeDying
<1>2. CASE ExitSwitch(t)
  <2>1. /\ Step(t, "exit_switch", "exit_switch") /\ "exit_switch" \in Exiting
        /\ UNCHANGED <<exit_code, parent, children, reaping, collected>>
        /\ \A u \in Tasks \ {t} : life'[u] = life[u]
        /\ life'[t] = "zombie"
    BY <1>2 DEF ExitSwitch, Exiting, Types, local
  <2>2. exit_code'[t] \in Values
    BY <2>1, Moves DEF Tree, Exits
  <2> QED BY <2>1, <2>2, TreeDying
<1>3. CASE Kill(t)
  <2>1. /\ Step(t, "user", "exit_switch") /\ "exit_switch" \in Exiting
        /\ UNCHANGED <<parent, children, reaping, collected>>
        /\ \A u \in Tasks \ {t} : life'[u] = life[u] /\ exit_code'[u] = exit_code[u]
        /\ life'[t] = "zombie" /\ exit_code'[t] \in Values
    BY <1>3 DEF Kill, Exiting, Types, Values, local
  <2> QED BY <2>1, TreeDying
<1> QED BY <1>1, <1>2, <1>3

\* waitpid reports what it has found and forgets it.
LEMMA ReapTree ==
  ASSUME Types, Tree, NEW t \in Tasks, Reap(t)
  PROVE  Tree'
<1>0. /\ life[t] = "alive" /\ pc[t] = "reap"
      /\ \A u \in Tasks : pc'[u] = IF u = t THEN "user" ELSE pc[u]
  BY Moves DEF Reap
<1>1. PICK c \in Tasks :
        /\ c = reaping[t] /\ life[c] = "zombie" /\ parent[c] = t /\ ~Listed(t, c) /\ ~Reaped(c)
  BY <1>0 DEF Tree, Reaps, Types
<1>2. /\ collected' = collected \cup {<<t, c, exit_code[c]>>}
      /\ \A u \in Tasks : reaping'[u] = IF u = t THEN None ELSE reaping[u]
      /\ UNCHANGED <<life, parent, children, exit_code>>
  BY <1>1 DEF Reap, Types, inner
<1>3. \A p, u \in Tasks : Listed(p, u)' <=> Listed(p, u)
  BY <1>2 DEF Listed
<1>4. \A u \in Tasks : Reaped(u)' <=> Reaped(u) \/ u = c
  <2>1. <<t, c, exit_code[c]>>[2] = c
    OBVIOUS
  <2>2. \A r : r \in collected' <=> r \in collected \/ r = <<t, c, exit_code[c]>>
    BY <1>2
  <2> QED BY <2>1, <2>2, Zenon DEF Reaped
<1>5. Births'
  BY <1>0, <1>2 DEF Tree, Births
<1>6. Exits'
  BY <1>0, <1>2 DEF Tree, Exits, Exiting
<1>7. Lists'
  BY <1>2, <1>3 DEF Tree, Lists
<1>8. Reaps'
  <2> SUFFICES ASSUME NEW u \in Tasks
               PROVE  /\ pc'[u] = "reap" <=> reaping'[u] # None
                      /\ reaping'[u] # None =>
                           /\ life'[reaping'[u]] = "zombie" /\ parent'[reaping'[u]] = u
                           /\ ~Contains(children'[u], reaping'[u])
                           /\ ~(\E r \in collected' : r[2] = reaping'[u])
    BY DEF Reaps, Listed, Reaped
  <2>1. CASE u = t
    BY <1>0, <1>2, <2>1
  <2>2. CASE u # t
    <3>1. reaping'[u] = reaping[u] /\ pc'[u] = pc[u]
      BY <1>0, <1>2, <2>2
    <3>2. CASE reaping[u] = None
      BY <3>1, <3>2 DEF Tree, Reaps
    <3>3. CASE reaping[u] # None
      <4>1. PICK d \in Tasks : d = reaping[u]
        BY <3>3 DEF Types
      <4>2. life[d] = "zombie" /\ parent[d] = u /\ ~Listed(u, d) /\ ~Reaped(d)
        BY <3>3, <4>1 DEF Tree, Reaps, Listed, Reaped
      <4>3. d # c
        BY <1>1, <2>2, <4>2
      <4>4. ~(\E r \in collected' : r[2] = d)
        BY <1>4, <4>2, <4>3 DEF Reaped
      <4> QED BY <1>2, <3>1, <3>3, <4>1, <4>2, <4>4 DEF Tree, Reaps, Listed
    <3> QED BY <3>2, <3>3
  <2> QED BY <2>1, <2>2
<1>9. Collects'
  <2>1. \A r \in collected' : r \in collected \/ r = <<t, c, exit_code[c]>>
    BY <1>2
  <2> SUFFICES ASSUME NEW r \in collected'
               PROVE  /\ r[1] = parent[r[2]] /\ life[r[2]] = "zombie" /\ r[3] = exit_code[r[2]]
                      /\ ~Contains(children[r[1]], r[2])
    BY <1>2 DEF Collects, Listed
  <2>2. CASE r \in collected
    BY <2>2 DEF Tree, Collects, Listed
  <2>3. CASE r = <<t, c, exit_code[c]>>
    BY <1>1, <2>3 DEF Listed
  <2> QED BY <2>1, <2>2, <2>3
<1>10. Kept'
  <2> SUFFICES ASSUME NEW u \in Tasks, parent[u] # None
               PROVE  Contains(children[parent[u]], u) \/ reaping'[parent[u]] = u \/ Reaped(u)'
    BY <1>2 DEF Kept, Listed
  <2>1. PICK p \in Tasks : p = parent[u]
    BY DEF Types
  <2>2. Contains(children[p], u) \/ reaping[p] = u \/ Reaped(u)
    BY <2>1 DEF Tree, Kept, Listed
  <2>3. reaping[p] = u => reaping'[p] = u \/ u = c
    BY <1>1, <1>2
  <2> QED BY <1>4, <2>1, <2>2, <2>3
<1> QED BY <1>5, <1>6, <1>7, <1>8, <1>9, <1>10 DEF Tree

\* waitpid takes a zombie out of the child list; nobody else has it then.
LEMMA FoundTree ==
  ASSUME Types, Tree, NEW t \in Tasks, NEW i \in 1 .. Len(children[t]),
         Reapable(t, children[t][i]), Step(t, "scan", "reap"),
         reaping' = [reaping EXCEPT ![t] = children[t][i]],
         children' = [children EXCEPT ![t] = RemoveAt(@, i)],
         UNCHANGED <<life, parent, exit_code, collected>>
  PROVE  Tree'
<1>0. /\ life[t] = "alive" /\ pc[t] = "scan" /\ children[t] \in Seq(Tasks)
      /\ \A u \in Tasks : pc'[u] = IF u = t THEN "reap" ELSE pc[u]
  BY Moves DEF Types
<1>1. PICK c \in Tasks : c = children[t][i]
  BY <1>0, ElementOfSeq
<1>2. life[c] = "zombie" /\ Listed(t, c) /\ parent[c] = t /\ reaping[t] = None
  <2>1. Listed(t, c)
    BY <1>1 DEF Listed, Contains
  <2> QED BY <1>0, <1>1, <2>1 DEF Reapable, Tree, Lists, Reaps
<1>3. ~Reaped(c)
  <2> SUFFICES ASSUME NEW r \in collected, r[2] = c PROVE FALSE
    BY DEF Reaped
  <2>1. r[1] = t /\ ~Contains(children[r[1]], c)
    BY <1>2 DEF Tree, Collects, Listed
  <2> QED BY <1>2, <2>1 DEF Listed
<1>4. /\ \A u \in Tasks : reaping'[u] = IF u = t THEN c ELSE reaping[u]
      /\ \A u \in Tasks : children'[u] = IF u = t THEN RemoveAt(children[t], i) ELSE children[u]
  BY <1>1 DEF Types
<1>5. \A j, k \in 1 .. Len(children[t]) : children[t][j] = children[t][k] => j = k
  BY DEF Tree, Lists
<1>6. /\ \A j, k \in 1 .. Len(RemoveAt(children[t], i)) :
           RemoveAt(children[t], i)[j] = RemoveAt(children[t], i)[k] => j = k
      /\ \A u \in Tasks : Contains(RemoveAt(children[t], i), u) <=> Contains(children[t], u) /\ u # c
  BY <1>0, <1>1, <1>5, RemoveChild
<1>7. \A p, u \in Tasks : Listed(p, u)' <=> Listed(p, u) /\ ~(p = t /\ u = c)
  BY <1>4, <1>6 DEF Listed
<1>8. \A u \in Tasks : Reaped(u)' <=> Reaped(u)
  BY DEF Reaped
<1>9. Births'
  BY <1>0, <1>4 DEF Tree, Births
<1>10. Exits'
  BY <1>0 DEF Tree, Exits, Exiting
<1>11. Lists'
  <2>1. \A p, u \in Tasks : Listed(p, u)' => parent'[u] = p
    BY <1>7 DEF Tree, Lists
  <2>2. \A p \in Tasks : \A j, k \in 1 .. Len(children'[p]) :
          children'[p][j] = children'[p][k] => j = k
    <3> TAKE p \in Tasks
    <3>1. CASE p = t
      BY <1>4, <1>6, <3>1
    <3>2. CASE p # t
      BY <1>4, <3>2 DEF Tree, Lists
    <3> QED BY <3>1, <3>2
  <2> QED BY <2>1, <2>2 DEF Lists
<1>12. Reaps'
  <2> SUFFICES ASSUME NEW u \in Tasks
               PROVE  /\ pc'[u] = "reap" <=> reaping'[u] # None
                      /\ reaping'[u] # None =>
                           /\ life[reaping'[u]] = "zombie" /\ parent[reaping'[u]] = u
                           /\ ~Contains(children'[u], reaping'[u])
                           /\ ~(\E r \in collected : r[2] = reaping'[u])
    BY DEF Reaps, Listed, Reaped
  <2>1. CASE u = t
    <3>1. ~Contains(children'[t], c)
      BY <1>7 DEF Listed
    <3> QED BY <1>0, <1>2, <1>3, <1>4, <2>1, <3>1, ProcessAssumption DEF Reaped
  <2>2. CASE u # t
    BY <1>0, <1>4, <2>2 DEF Tree, Reaps, Listed, Reaped
  <2> QED BY <2>1, <2>2
<1>13. Collects'
  <2>1. \A r \in collected : r[1] \in Tasks /\ r[2] \in Tasks
    BY DEF Types
  <2> QED BY <1>7, <2>1 DEF Tree, Collects
<1>14. Kept'
  <2> SUFFICES ASSUME NEW u \in Tasks, parent[u] # None
               PROVE  Contains(children'[parent[u]], u) \/ reaping'[parent[u]] = u \/ Reaped(u)'
    BY DEF Kept, Listed
  <2>1. PICK p \in Tasks : p = parent[u]
    BY DEF Types
  <2>2. Listed(p, u) \/ reaping[p] = u \/ Reaped(u)
    BY <2>1 DEF Tree, Kept, Listed
  <2>3. Listed(p, u)' \/ reaping'[p] = u \/ Reaped(u)'
    BY <1>2, <1>4, <1>7, <1>8, <2>2, ProcessAssumption
  <2> QED BY <2>1, <2>3 DEF Listed
<1> QED BY <1>9, <1>10, <1>11, <1>12, <1>13, <1>14 DEF Tree

\* waitpid's scan takes a zombie out, or leaves the tree alone.
LEMMA ScanTree ==
  ASSUME Types, Tree, NEW t \in Tasks, Scan(t)
  PROVE  Tree'
<1>1. UNCHANGED <<life, parent, exit_code, collected>>
  BY DEF Scan
<1>2. ASSUME NEW i \in 1 .. Len(children[t]), Reapable(t, children[t][i]),
             Step(t, "scan", "reap"),
             reaping' = [reaping EXCEPT ![t] = children[t][i]],
             children' = [children EXCEPT ![t] = RemoveAt(@, i)]
      PROVE  Tree'
  BY <1>1, <1>2, FoundTree
<1>3. ASSUME NEW to \in {"push", "user"}, Step(t, "scan", to), UNCHANGED <<reaping, children>>
      PROVE  Tree'
  BY <1>1, <1>3, TreeLocal DEF Exiting
<1> QED BY <1>2, <1>3 DEF Scan

\* Every step keeps the tree.
LEMMA TreeStep == IInv /\ [Next]_vars => Tree'
<1> SUFFICES ASSUME Types, Tree, [Next]_vars PROVE Tree'
  BY DEF IInv
<1>1. ASSUME NEW t \in Tasks, UserStep(t) PROVE Tree'
  BY <1>1, ForkTree, DyingTree, LocalTree DEF UserStep
<1>2. ASSUME NEW t \in Tasks, Continue(t) PROVE Tree'
  BY <1>2, LocalTree, DyingTree, ScanTree, ReapTree DEF Continue
<1>3. CASE UNCHANGED vars
  <2>1. UNCHANGED <<life, parent, children, exit_code, pc, reaping, collected>>
    BY <1>3 DEF vars, inner, local
  <2>2. Births' /\ Exits' /\ Lists' /\ Reaps'
    BY <2>1 DEF Tree, Births, Exits, Lists, Reaps, Listed, Reaped
  <2>3. Collects' /\ Kept'
    BY <2>1 DEF Tree, Collects, Kept, Listed, Reaped
  <2> QED BY <2>2, <2>3 DEF Tree
<1> QED BY <1>1, <1>2, <1>3 DEF Next

\* Every step keeps every variable in its type.
LEMMA TypesStep == IInv /\ [Next]_vars => Types'
<1> SUFFICES ASSUME Types, Tree, [Next]_vars PROVE Types'
  BY DEF IInv
<1> USE DEF Types
<1>1. ASSUME NEW t \in Tasks, NEW c \in Tasks, Fork(t, c) PROVE Types'
  <2>1. Append(children[t], c) \in Seq(Tasks)
    BY AppendChild
  <2>2. children' \in [Tasks -> Seq(Tasks)]
    BY <1>1, <2>1 DEF Fork
  <2>3. life' \in [Tasks -> Lives] /\ parent' \in [Tasks -> Tasks \cup {None}]
    BY <1>1 DEF Fork, Lives
  <2>4. pc' \in [Tasks -> Labels]
    BY <1>1 DEF Fork, Step, Labels
  <2> QED BY <1>1, <2>2, <2>3, <2>4 DEF Fork, local
<1>2. ASSUME NEW t \in Tasks, NEW code \in Codes, ExitCode(t, code) PROVE Types'
  BY <1>2 DEF ExitCode, Step, Labels, Exiting, Values, local
<1>3. ASSUME NEW t \in Tasks, NEW w \in Tasks \cup {None}, Waitpid(t, w) PROVE Types'
  BY <1>3 DEF Waitpid, Step, Labels, inner
<1>4. ASSUME NEW t \in Tasks, Kill(t) PROVE Types'
  BY <1>4 DEF Kill, Step, Labels, Exiting, Values, Lives
<1>5. ASSUME NEW t \in Tasks, ExitSpace(t) PROVE Types'
  BY <1>5 DEF ExitSpace, Step, Labels, Exiting, local
<1>6. ASSUME NEW t \in Tasks, ExitParent(t) PROVE Types'
  <2>1. upgraded' \in [Tasks -> Tasks \cup {None}]
    BY <1>6 DEF ExitParent
  <2>2. pc' \in [Tasks -> Labels]
    BY <1>6 DEF ExitParent, Step, Labels, Exiting
  <2> QED BY <1>6, <2>1, <2>2 DEF ExitParent, inner
<1>7. ASSUME NEW t \in Tasks, ExitDrain(t) PROVE Types'
  BY <1>7 DEF ExitDrain, Step, Labels, Exiting, inner
<1>8. ASSUME NEW t \in Tasks, ExitWake(t) PROVE Types'
  BY <1>8 DEF ExitWake, Step, Labels, Exiting, inner
<1>9. ASSUME NEW t \in Tasks, ExitSwitch(t) PROVE Types'
  BY <1>9 DEF ExitSwitch, Step, Labels, Exiting, Lives, local
<1>10. ASSUME NEW t \in Tasks, Scan(t) PROVE Types'
  <2>1. UNCHANGED <<life, parent, exit_code, upgraded, waking, leaked, collected>>
    BY <1>10 DEF Scan
  <2>2. pc' \in [Tasks -> Labels]
    BY <1>10 DEF Scan, Step, Labels
  <2>3. children' \in [Tasks -> Seq(Tasks)] /\ reaping' \in [Tasks -> Tasks \cup {None}]
    <3>1. ASSUME NEW i \in 1 .. Len(children[t]),
                 reaping' = [reaping EXCEPT ![t] = children[t][i]],
                 children' = [children EXCEPT ![t] = RemoveAt(@, i)]
          PROVE  children' \in [Tasks -> Seq(Tasks)] /\ reaping' \in [Tasks -> Tasks \cup {None}]
      <4>1. children[t] \in Seq(Tasks)
        OBVIOUS
      <4>2. children[t][i] \in Tasks /\ RemoveAt(children[t], i) \in Seq(Tasks)
        BY <4>1, ElementOfSeq, RemoveChild
      <4> QED BY <3>1, <4>2
    <3> QED BY <1>10, <3>1 DEF Scan
  <2> QED BY <2>1, <2>2, <2>3
<1>11. ASSUME NEW t \in Tasks, Reap(t) PROVE Types'
  <2>1. pc[t] = "reap" /\ pc' \in [Tasks -> Labels]
    BY <1>11 DEF Reap, Step, Labels
  <2>2. reaping[t] \in Tasks /\ exit_code[reaping[t]] \in Values
    <3>1. reaping[t] \in Tasks /\ life[reaping[t]] = "zombie"
      BY <2>1 DEF Tree, Reaps
    <3> QED BY <3>1 DEF Tree, Exits, Exiting
  <2>3. collected' \subseteq Tasks \X Tasks \X Values
    BY <1>11, <2>2 DEF Reap
  <2>4. reaping' \in [Tasks -> Tasks \cup {None}]
    BY <1>11 DEF Reap
  <2> QED BY <1>11, <2>1, <2>3, <2>4 DEF Reap, inner
<1>12. ASSUME NEW t \in Tasks, WaitPush(t) \/ WaitPark(t) \/ WaitUnqueue(t) PROVE Types'
  <2>1. pc' \in [Tasks -> Labels]
    BY <1>12 DEF WaitPush, WaitPark, WaitUnqueue, Step, Labels
  <2>2. UNCHANGED <<life, parent, children, exit_code, reaping, upgraded, waking, leaked, collected>>
    BY <1>12, Zenon DEF WaitPush, WaitPark, WaitUnqueue, inner, local
  <2> QED BY <2>1, <2>2
<1>13. CASE UNCHANGED vars
  BY <1>13 DEF vars, inner, local
<1>14. ASSUME NEW t \in Tasks, UserStep(t) PROVE Types'
  BY <1>1, <1>2, <1>3, <1>4, <1>14, Zenon DEF UserStep
<1>15. ASSUME NEW t \in Tasks, Continue(t) PROVE Types'
  BY <1>5, <1>6, <1>7, <1>8, <1>9, <1>10, <1>11, <1>12, <1>15, Zenon DEF Continue
<1> QED BY <1>13, <1>14, <1>15, Zenon DEF Next

\* One process, no children, nothing collected.
LEMMA InitInv == Init => IInv
<1> SUFFICES ASSUME Init PROVE IInv
  OBVIOUS
<1>0. \A p \in Tasks : children[p] = <<>> /\ Len(children[p]) = 0
  BY EmptySeq DEF Init
<1>1. Types
  <2>1. children \in [Tasks -> Seq(Tasks)]
    BY EmptySeq, Zenon DEF Init
  <2> QED BY <2>1 DEF Init, Types, Lives, Labels
<1>2. \A p, c \in Tasks : ~Listed(p, c)
  BY <1>0 DEF Listed, Contains
<1>3. Births /\ Exits
  BY <1>0, ProcessAssumption DEF Init, Births, Exits, Exiting
<1>4. Lists
  <2>1. \A p \in Tasks : \A i \in 1 .. Len(children[p]) : FALSE
    BY <1>0
  <2> QED BY <1>2, <2>1, Zenon DEF Lists
<1>5. Reaps /\ Collects /\ Kept
  BY DEF Init, Reaps, Collects, Kept
<1> QED BY <1>1, <1>3, <1>4, <1>5 DEF IInv, Tree

\* The invariant holds in every state the process tree reaches.
THEOREM Invariance == Spec => []IInv
<1>1. IInv /\ [Next]_vars => IInv'
  BY TypesStep, TreeStep DEF IInv
<1> QED BY <1>1, InitInv, PTL DEF Spec

\* An exit status is delivered exactly once: a process is in its parent's child
\* list from fork until waitpid takes it, as a zombie, and reports its code.
THEOREM StatusOnce == Spec => []StatusDeliveredOnce
<1>1. IInv => StatusDeliveredOnce
  <2> SUFFICES ASSUME IInv PROVE StatusDeliveredOnce
    OBVIOUS
  <2> USE DEF IInv
  <2>1. ASSUME NEW c \in Tasks, life[c] # "unborn", c # Root, NEW p \in Tasks, p = parent[c]
        PROVE  /\ Cardinality({i \in 1 .. Len(children[p]) : children[p][i] = c}) =
                    IF reaping[p] = c \/ \E code \in Codes \cup {Killed} : <<p, c, code>> \in collected
                    THEN 0 ELSE 1
               /\ \A q \in Tasks \ {p} : ~Contains(children[q], c)
    <3> DEFINE listed == {i \in 1 .. Len(children[p]) : children[p][i] = c}
    <3>1. \A q \in Tasks \ {p} : ~Contains(children[q], c)
      BY <2>1 DEF Tree, Lists, Listed
    <3>2. Reaped(c) <=> \E code \in Codes \cup {Killed} : <<p, c, code>> \in collected
      <4>1. ASSUME NEW r \in collected, r[2] = c
            PROVE  r[3] \in Codes \cup {Killed} /\ <<p, c, r[3]>> \in collected
        <5>1. r \in Tasks \X Tasks \X Values /\ r[1] = p
          BY <2>1, <4>1 DEF Tree, Collects, Types
        <5>2. r = <<p, c, r[3]>> /\ r[3] \in Values
          BY <4>1, <5>1
        <5> QED BY <5>2 DEF Values
      <4> QED BY <4>1 DEF Reaped
    <3>3. CASE reaping[p] = c \/ Reaped(c)
      <4>1. ~Listed(p, c)
        <5>1. CASE reaping[p] = c
          BY <5>1, ProcessAssumption DEF Tree, Reaps
        <5>2. CASE Reaped(c)
          <6>1. PICK r \in collected : r[2] = c
            BY <5>2 DEF Reaped
          <6>2. r[1] = p /\ ~Contains(children[r[1]], r[2])
            BY <2>1, <6>1 DEF Tree, Collects, Listed
          <6> QED BY <6>1, <6>2 DEF Listed
        <5> QED BY <3>3, <5>1, <5>2
      <4>2. listed = {}
        BY <4>1 DEF Listed, Contains
      <4>3. Cardinality(listed) = 0
        BY <4>2, FS_EmptySet
      <4> QED BY <3>1, <3>2, <3>3, <4>3
    <3>4. CASE ~(reaping[p] = c \/ Reaped(c))
      <4>1. Listed(p, c)
        BY <2>1, <3>4, ProcessAssumption DEF Tree, Kept, Listed
      <4>2. PICK i \in 1 .. Len(children[p]) : children[p][i] = c
        BY <4>1 DEF Listed, Contains
      <4>3. \A j \in 1 .. Len(children[p]) : children[p][j] = c => j = i
        BY <4>2 DEF Tree, Lists
      <4>4. listed = {i}
        BY <4>2, <4>3
      <4>5. Cardinality(listed) = 1
        BY <4>4, FS_Singleton
      <4> QED BY <3>1, <3>2, <3>4, <4>5
    <3> QED BY <3>3, <3>4
  <2>2. \A c \in Tasks : life[c] # "unborn" /\ c # Root => parent[c] \in Tasks
    BY DEF Tree, Births, Types
  <2>3. \A r \in collected : r[1] = parent[r[2]] /\ life[r[2]] = "zombie" /\ r[3] = exit_code[r[2]]
    BY DEF Tree, Collects
  <2> QED BY <2>1, <2>2, <2>3, Zenon DEF StatusDeliveredOnce
<1> QED BY <1>1, Invariance, PTL

------------------------------------------------------------------------------
(* Who is in memory                                                           *)

\* Being closed, reference by reference.
Holds(X) ==
  /\ \A u \in Tasks : life[u] = "alive" => u \in X
  /\ leaked \subseteq X
  /\ \A u \in Tasks : {reaping[u], upgraded[u], waking[u]} \subseteq X \cup {None}
  /\ \A u \in X, c \in Tasks : Listed(u, c) => c \in X

\* The two say the same, before a step and after it.
LEMMA ClosedMeans ==
  ASSUME NEW X \in SUBSET Tasks
  PROVE  (Types => (Closed(X) <=> Holds(X))) /\ (Types => (Closed(X) <=> Holds(X)))'
<1>1. Types => (Closed(X) <=> Holds(X))
  <2> SUFFICES ASSUME Types PROVE Closed(X) <=> Holds(X)
    OBVIOUS
  <2>1. \A u \in Tasks : ToSet(children[u]) = {c \in Tasks : Listed(u, c)}
    <3> TAKE u \in Tasks
    <3>1. children[u] \in Seq(Tasks)
      BY DEF Types
    <3>2. /\ DOMAIN children[u] = 1 .. Len(children[u])
          /\ \A i \in 1 .. Len(children[u]) : children[u][i] \in Tasks
      BY <3>1, LenProperties, ElementOfSeq
    <3> QED BY <3>2 DEF ToSet, Listed, Contains
  <2>2. Referenced \ {None} \subseteq X <=>
          /\ \A u \in Tasks : life[u] = "alive" => u \in X
          /\ leaked \subseteq X
          /\ \A u \in Tasks : {reaping[u], upgraded[u], waking[u]} \subseteq X \cup {None}
    BY ProcessAssumption DEF Referenced, Types
  <2>3. (\A u \in X : ToSet(children[u]) \subseteq X) <=>
          \A u \in X, c \in Tasks : Listed(u, c) => c \in X
    BY <2>1
  <2> QED BY <2>2, <2>3 DEF Closed, Holds
<1> QED BY <1>1, PTL

\* The tasks in memory are themselves a closed set.
LEMMA MemoryHolds ==
  ASSUME Types, NEW M \in SUBSET Tasks, M = InMemory
  PROVE  Holds(M)
<1>1. \A u \in Tasks : u \in M <=> \A X \in SUBSET Tasks : Holds(X) => u \in X
  BY ClosedMeans DEF InMemory
<1>2. \A u \in Tasks : life[u] = "alive" => u \in M
  BY <1>1 DEF Holds
<1>3. leaked \subseteq M
  BY <1>1 DEF Holds, Types
<1>4. \A u \in Tasks : {reaping[u], upgraded[u], waking[u]} \subseteq M \cup {None}
  <2> SUFFICES ASSUME NEW u \in Tasks, NEW v \in {reaping[u], upgraded[u], waking[u]}, v # None
               PROVE  v \in M
    OBVIOUS
  <2>1. v \in Tasks
    BY DEF Types
  <2>2. \A X \in SUBSET Tasks : Holds(X) => v \in X
    BY DEF Holds
  <2> QED BY <1>1, <2>1, <2>2
<1>5. \A u \in M, c \in Tasks : Listed(u, c) => c \in M
  BY <1>1 DEF Holds
<1> QED BY <1>2, <1>3, <1>4, <1>5 DEF Holds

\* A task whose references stay among those in memory adds none.
LEMMA ReferencesKept ==
  ASSUME Types, NEW M \in SUBSET Tasks, Holds(M),
         \A u \in Tasks : life'[u] = "alive" => life[u] = "alive",
         leaked' \subseteq M,
         \A u \in Tasks : {reaping'[u], upgraded'[u], waking'[u]} \subseteq M \cup {None},
         \A u, c \in Tasks : Listed(u, c)' => Listed(u, c)
  PROVE  Holds(M)'
BY DEF Holds

\* A forked child is the only task that comes into memory.
LEMMA ForkHolds ==
  ASSUME Types, Tree, NEW M \in SUBSET Tasks, Holds(M), NEW t \in Tasks, NEW c \in Tasks, Fork(t, c)
  PROVE  Holds(M \cup {c})' /\ life[c] = "unborn"
<1>1. /\ life[c] = "unborn"
      /\ \A u \in Tasks : life'[u] = IF u = c THEN "alive" ELSE life[u]
      /\ \A u \in Tasks : children'[u] = IF u = t THEN Append(children[t], c) ELSE children[u]
      /\ UNCHANGED <<leaked, reaping, upgraded, waking>>
  BY DEF Fork, Types, local
<1>2. \A u \in Tasks : ~Listed(c, u)
  <2>1. children[c] = <<>>
    BY <1>1 DEF Tree, Births
  <2> QED BY <2>1, EmptySeq DEF Listed, Contains
<1>3. \A u, d \in Tasks : Listed(u, d)' => Listed(u, d) \/ d = c
  <2>1. children[t] \in Seq(Tasks)
    BY DEF Types
  <2> QED BY <1>1, <2>1, AppendChild DEF Listed
<1>4. \A u \in M \cup {c}, d \in Tasks : Listed(u, d)' => d \in M \cup {c}
  BY <1>2, <1>3 DEF Holds
<1>5. \A u \in Tasks : life'[u] = "alive" => u \in M \cup {c}
  BY <1>1 DEF Holds
<1>6. leaked' \subseteq M \cup {c}
  BY <1>1 DEF Holds
<1>7. \A u \in Tasks : {reaping'[u], upgraded'[u], waking'[u]} \subseteq (M \cup {c}) \cup {None}
  BY <1>1 DEF Holds
<1> QED BY <1>1, <1>4, <1>5, <1>6, <1>7 DEF Holds

\* The steps of exit hold on to nothing that was freed: the weak reference to the
\* parent is upgraded only while the parent is in memory.
LEMMA ExitHolds ==
  ASSUME Types, Tree, NEW M \in SUBSET Tasks, M = InMemory, Holds(M), NEW t \in Tasks,
         \/ (\E code \in Codes : ExitCode(t, code)) \/ Kill(t)
         \/ ExitSpace(t) \/ ExitParent(t) \/ ExitDrain(t) \/ ExitWake(t) \/ ExitSwitch(t)
  PROVE  Holds(M)'
<1>1. life[t] = "alive" /\ t \in M
  BY DEF ExitCode, Kill, ExitSpace, ExitParent, ExitDrain, ExitWake, ExitSwitch, Step, Holds
<1>2. UNCHANGED <<children, reaping>>
  BY DEF ExitCode, Kill, ExitSpace, ExitParent, ExitDrain, ExitWake, ExitSwitch, inner, local
<1>3. \A u \in Tasks : life'[u] = "alive" => life[u] = "alive"
  BY DEF ExitCode, Kill, ExitSpace, ExitParent, ExitDrain, ExitWake, ExitSwitch, inner, Types
<1>4. leaked' \subseteq M
  BY <1>1 DEF ExitCode, Kill, ExitSpace, ExitParent, ExitDrain, ExitWake, ExitSwitch, local, Holds
<1>5. \A u \in Tasks : upgraded'[u] \in M \cup {None}
  <2>1. CASE ExitParent(t)
    BY <2>1 DEF ExitParent, HasParent, Holds, Types
  <2>2. CASE ExitWake(t)
    BY <2>2 DEF ExitWake, Holds, Types
  <2>3. CASE UNCHANGED upgraded
    BY <2>3 DEF Holds
  <2> QED BY <2>1, <2>2, <2>3 DEF ExitCode, Kill, ExitSpace, ExitDrain, ExitSwitch, local
<1>6. \A u \in Tasks : waking'[u] \in M \cup {None}
  <2>1. CASE ExitDrain(t)
    BY <2>1 DEF ExitDrain, Holds, Types
  <2>2. CASE ExitWake(t)
    BY <2>2 DEF ExitWake, Holds, Types
  <2>3. CASE UNCHANGED waking
    BY <2>3 DEF Holds
  <2> QED BY <2>1, <2>2, <2>3 DEF ExitCode, Kill, ExitSpace, ExitParent, ExitSwitch, local
<1>7. \A u \in Tasks : {reaping'[u], upgraded'[u], waking'[u]} \subseteq M \cup {None}
  BY <1>2, <1>5, <1>6 DEF Holds
<1>8. \A u, c \in Tasks : Listed(u, c)' => Listed(u, c)
  BY <1>2 DEF Listed
<1> QED BY <1>3, <1>4, <1>7, <1>8, ReferencesKept

\* Nor do the steps of waitpid: what it finds, the caller's child list held.
LEMMA WaitHolds ==
  ASSUME Types, Tree, NEW M \in SUBSET Tasks, Holds(M), NEW t \in Tasks,
         \/ (\E w \in Tasks \cup {None} : Waitpid(t, w)) \/ Scan(t) \/ Reap(t)
         \/ WaitPush(t) \/ WaitPark(t) \/ WaitUnqueue(t)
  PROVE  Holds(M)'
<1>1. life[t] = "alive" /\ t \in M
  BY DEF Waitpid, Scan, Reap, WaitPush, WaitPark, WaitUnqueue, Step, Holds
<1>2. UNCHANGED <<life, leaked, upgraded, waking>>
  BY DEF Waitpid, Scan, Reap, WaitPush, WaitPark, WaitUnqueue, inner, local
<1>3. ASSUME NEW i \in 1 .. Len(children[t]),
             reaping' = [reaping EXCEPT ![t] = children[t][i]],
             children' = [children EXCEPT ![t] = RemoveAt(@, i)]
      PROVE  Holds(M)'
  <2>1. children[t] \in Seq(Tasks)
    BY DEF Types
  <2>2. PICK c \in Tasks : c = children[t][i]
    BY <2>1, ElementOfSeq
  <2>3. c \in M
    BY <1>1, <2>2 DEF Holds, Listed, Contains
  <2>4. \A u \in Tasks : reaping'[u] \in M \cup {None}
    BY <1>3, <2>2, <2>3 DEF Holds, Types
  <2>5. \A j, k \in 1 .. Len(children[t]) : children[t][j] = children[t][k] => j = k
    BY DEF Tree, Lists
  <2>6. \A u \in Tasks : Contains(RemoveAt(children[t], i), u) => Contains(children[t], u)
    BY <2>1, <2>5, RemoveChild, Zenon
  <2>7. \A u, d \in Tasks : Listed(u, d)' => Listed(u, d)
    BY <1>3, <2>6 DEF Listed, Types
  <2>8. \A u \in Tasks : {reaping'[u], upgraded'[u], waking'[u]} \subseteq M \cup {None}
    BY <1>2, <2>4 DEF Holds
  <2>9. leaked' \subseteq M
    BY <1>2 DEF Holds
  <2> QED BY <1>2, <2>7, <2>8, <2>9, ReferencesKept
<1>4. ASSUME UNCHANGED children, \A u \in Tasks : reaping'[u] \in {reaping[u], None}
      PROVE  Holds(M)'
  <2>1. \A u \in Tasks : {reaping'[u], upgraded'[u], waking'[u]} \subseteq M \cup {None}
    BY <1>2, <1>4 DEF Holds
  <2>2. \A u, d \in Tasks : Listed(u, d)' => Listed(u, d)
    BY <1>4 DEF Listed
  <2>3. leaked' \subseteq M
    BY <1>2 DEF Holds
  <2> QED BY <1>2, <2>1, <2>2, <2>3, ReferencesKept
<1>5. CASE Scan(t)
  BY <1>3, <1>4, <1>5 DEF Scan
<1>6. CASE Reap(t)
  BY <1>4, <1>6 DEF Reap, inner, Types
<1>7. CASE UNCHANGED <<children, reaping>>
  BY <1>4, <1>7
<1> QED BY <1>5, <1>6, <1>7 DEF Waitpid, WaitPush, WaitPark, WaitUnqueue, inner, local

\* A task that was freed stays freed: no step reaches it again, in particular not
\* an orphan's exit through the weak reference to its parent.
THEOREM FreedForGood == Spec => FreedStaysFreed
<1>1. ASSUME IInv, IInv', Next, NEW t \in Tasks, life[t] # "unborn", t \notin InMemory
      PROVE  t \notin InMemory'
  <2>0. Types /\ Tree /\ Types'
    BY <1>1 DEF IInv
  <2>1. PICK M \in SUBSET Tasks : M = InMemory
    BY DEF InMemory
  <2>2. Holds(M)
    BY <2>0, <2>1, MemoryHolds
  <2>3. \E X \in SUBSET Tasks : Holds(X)' /\ t \notin X
    <3>1. ASSUME NEW u \in Tasks, NEW c \in Tasks, Fork(u, c)
          PROVE  \E X \in SUBSET Tasks : Holds(X)' /\ t \notin X
      <4>1. Holds(M \cup {c})' /\ life[c] = "unborn"
        BY <2>0, <2>2, <3>1, ForkHolds
      <4>2. PICK X \in SUBSET Tasks : X = M \cup {c}
        BY <3>1
      <4>3. Holds(X)' /\ t \notin X
        BY <1>1, <2>1, <4>1, <4>2
      <4> QED BY <4>3
    <3>2. ASSUME NEW u \in Tasks,
                 \/ (\E code \in Codes : ExitCode(u, code)) \/ Kill(u)
                 \/ ExitSpace(u) \/ ExitParent(u) \/ ExitDrain(u) \/ ExitWake(u) \/ ExitSwitch(u)
          PROVE  \E X \in SUBSET Tasks : Holds(X)' /\ t \notin X
      <4>1. Holds(M)'
        BY <2>0, <2>1, <2>2, <3>2, ExitHolds
      <4> QED BY <1>1, <2>1, <4>1
    <3>3. ASSUME NEW u \in Tasks,
                 \/ (\E w \in Tasks \cup {None} : Waitpid(u, w)) \/ Scan(u) \/ Reap(u)
                 \/ WaitPush(u) \/ WaitPark(u) \/ WaitUnqueue(u)
          PROVE  \E X \in SUBSET Tasks : Holds(X)' /\ t \notin X
      <4>1. Holds(M)'
        BY <2>0, <2>2, <3>3, WaitHolds
      <4> QED BY <1>1, <2>1, <4>1
    <3> QED BY <1>1, <3>1, <3>2, <3>3, Zenon DEF Next, UserStep, Continue
  <2>4. PICK X \in SUBSET Tasks : Holds(X)' /\ t \notin X
    BY <2>3
  <2>5. Closed(X)'
    BY <2>0, <2>4, ClosedMeans
  <2> QED BY <2>4, <2>5 DEF InMemory
<1>2. IInv /\ IInv' /\ [Next]_vars =>
        [\A t \in Tasks : life[t] # "unborn" /\ t \notin InMemory => t \notin InMemory']_vars
  BY <1>1
<1> QED BY <1>2, Invariance, PTL DEF Spec, FreedStaysFreed

=============================================================================
