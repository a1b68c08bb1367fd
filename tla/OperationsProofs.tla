-------------------------- MODULE OperationsProofs --------------------------
(***************************************************************************)
(* What the operations of a CuratorFramework return, that they wait for    *)
(* the namespace, which nodes they touch, and that the lock of EnsurePath  *)
(* is never left behind, for any goroutines, namespace and paths and any   *)
(* number of operations and failures.                                      *)
(***************************************************************************)
EXTENDS Operations, SequenceTheorems, TLAPS

\* Path is below the node of process p, or is that node.
Below(p, path) == Path(p) \in Above(path)

\* The nodes there are, and those that process p has seen deleted.
Known(p) == DOMAIN tree \cup removed[p]

-----------------------------------------------------------------------------
(* The inductive invariant, one part per piece of the argument.             *)

Frames == [path : Seq(STRING), todo : SUBSET Seq(STRING)]
Place == [label : Labels, dir : Nat, stack : Seq(Frames)]

Types ==
  /\ DOMAIN tree \subseteq Seq(STRING)
  /\ helper \in BOOLEAN /\ started \in BOOLEAN /\ ensureFailed \in BOOLEAN
  /\ lock \in Procs \cup {NoProc}
  /\ op \in [Procs -> Operation] /\ at \in [Procs -> Place]
  /\ result \in [Procs -> Results]
  /\ absent \in [Procs -> BOOLEAN] /\ removed \in [Procs -> SUBSET Seq(STRING)]

\* The namespace is there when EnsurePath has run, or its run failed.
EnsureInv ==
  /\ <<>> \in DOMAIN tree
  /\ ~helper => started
  /\ started => ensureFailed \/ Exists(Namespace)

\* Who holds the lock makes the namespace's directories; who is past the lock
\* has found them made.
LockInv(p) ==
  /\ at[p].label \in {"ensure", "helper", "lock"} => Namespace # <<>>
  /\ lock = p => at[p].label \in {"exists", "mkdir"} /\ at[p].dir \in 1 .. Len(Namespace)
  /\ at[p].label \in Conn \cup {"panicked"} /\ lock # p => ensureFailed \/ Exists(Namespace)

\* A node on the path of an operation was there when it began, or is known to
\* have been deleted since.
AbsentInv(p) == Busy(p) /\ ~absent[p] => Above(Path(p)) \subseteq Known(p)

\* So are the parents that MakeDirs has got past, ...
DirsInv(p) ==
  /\ at[p].label \in {"exists", "mkdir"} /\ lock # p =>
       /\ op[p].kind = "Create" /\ op[p].deep
       /\ at[p].dir \in 1 .. Len(Parent(Path(p)))
       /\ \A n \in 0 .. at[p].dir - 1 : SubSeq(Path(p), 1, n) \in Known(p)
  /\ at[p].label = "again" =>
       /\ op[p].kind = "Create" /\ op[p].deep
       /\ \A n \in 0 .. Len(Parent(Path(p))) : SubSeq(Path(p), 1, n) \in Known(p)

\* ... and the nodes that DeleteChildren has still to delete.
StackInv(p) ==
  at[p].label \in {"children", "deleteSelf"} =>
    /\ op[p].kind = "Delete" /\ op[p].deep
    /\ at[p].stack # <<>> /\ at[p].stack[Len(at[p].stack)].path = Path(p)
    /\ \A i \in 1 .. Len(at[p].stack) :
         \A path \in {at[p].stack[i].path} \cup at[p].stack[i].todo :
           Below(p, path) /\ path \in Known(p)

\* DeleteRemoves and NoNodeHasCause, of one process.
ResultInv(p) ==
  /\ op[p].kind = "Delete" =>
       /\ result[p] = "ok" => Path(p) \in removed[p]
       /\ op[p].deep => result[p] # "NotEmpty"
  /\ result[p] = "NoNode" =>
       \/ removed[p] \cap Above(Path(p)) # {}
       \/ absent[p] /\ ~(op[p].kind = "Create" /\ op[p].deep)
       \/ removed[p] # {} /\ op[p].kind = "Delete" /\ op[p].deep

ProcInv(p) ==
  LockInv(p) /\ AbsentInv(p) /\ DirsInv(p) /\ StackInv(p) /\ ResultInv(p)

IInv == Types /\ EnsureInv /\ \A p \in Procs : ProcInv(p)

-----------------------------------------------------------------------------
(* Paths                                                                    *)

\* The first n names of a path
LEMMA FirstNames ==
  ASSUME NEW S, NEW s \in Seq(S), NEW n \in 0 .. Len(s)
  PROVE  /\ SubSeq(s, 1, n) \in Seq(S) /\ Len(SubSeq(s, 1, n)) = n
         /\ \A i \in 1 .. n : SubSeq(s, 1, n)[i] = s[i]
<1>1. Len(s) \in Nat /\ \A i \in 1 .. Len(s) : s[i] \in S
  BY LenProperties, ElementOfSeq
<1>2. \A i \in 1 .. n : s[i] \in S
  BY <1>1
<1> QED BY <1>1, <1>2, SubSeqProperties

\* The first names of the first names
LEMMA FirstOfFirst ==
  ASSUME NEW S, NEW s \in Seq(S), NEW n \in 0 .. Len(s), NEW m \in 0 .. n
  PROVE  SubSeq(SubSeq(s, 1, n), 1, m) = SubSeq(s, 1, m)
<1>1. Len(s) \in Nat /\ m \in 0 .. Len(s)
  BY LenProperties
<1>2. /\ SubSeq(s, 1, n) \in Seq(S) /\ Len(SubSeq(s, 1, n)) = n
      /\ \A i \in 1 .. n : SubSeq(s, 1, n)[i] = s[i]
  BY FirstNames
<1>3. /\ SubSeq(s, 1, m) \in Seq(S) /\ Len(SubSeq(s, 1, m)) = m
      /\ \A i \in 1 .. m : SubSeq(s, 1, m)[i] = s[i]
  BY <1>1, FirstNames
<1> DEFINE t == SubSeq(s, 1, n)
<1>4. /\ SubSeq(t, 1, m) \in Seq(S) /\ Len(SubSeq(t, 1, m)) = m
      /\ \A i \in 1 .. m : SubSeq(t, 1, m)[i] = t[i]
  <2>1. t \in Seq(S) /\ m \in 0 .. Len(t)
    BY <1>2
  <2> HIDE DEF t
  <2> QED BY <2>1, FirstNames
<1>5. \A i \in 1 .. m : SubSeq(t, 1, m)[i] = SubSeq(s, 1, m)[i]
  BY <1>2, <1>3, <1>4
<1> QED BY <1>3, <1>4, <1>5, SeqEqual

\* A path without its last name
LEMMA ParentOf ==
  ASSUME NEW S, NEW s \in Seq(S), s # <<>>
  PROVE  /\ Parent(s) \in Seq(S) /\ Len(Parent(s)) = Len(s) - 1 /\ Len(s) \in Nat \ {0}
         /\ \A n \in 0 .. Len(s) - 1 : SubSeq(Parent(s), 1, n) = SubSeq(s, 1, n)
<1>1. Len(s) \in Nat \ {0}
  BY EmptySeq
<1>2. Len(s) - 1 \in 0 .. Len(s)
  BY <1>1
<1> QED BY Zenon, <1>1, <1>2, FirstNames, FirstOfFirst DEF Parent

\* A node above another is one of its first names.
LEMMA AboveIs ==
  ASSUME NEW S, NEW s \in Seq(S), NEW q \in Above(s)
  PROVE  q \in Seq(S) /\ Len(q) \in Nat /\ Len(q) <= Len(s)
<1>1. PICK n \in 0 .. Len(s) : q = SubSeq(s, 1, n)
  BY DEF Above
<1>2. q \in Seq(S) /\ Len(q) = n
  BY <1>1, FirstNames
<1>3. Len(s) \in Nat
  BY LenProperties
<1> QED BY <1>2, <1>3

\* A path is above itself.
LEMMA AboveItself ==
  ASSUME NEW S, NEW s \in Seq(S)
  PROVE  s \in Above(s)
<1>1. Len(s) \in Nat /\ SubSeq(s, 1, Len(s)) = s
  BY LenProperties, SubSeqFull
<1>2. Len(s) \in 0 .. Len(s)
  BY <1>1
<1> QED BY Zenon, <1>1, <1>2 DEF Above

\* What is above the parent is above the child.
LEMMA AboveChild ==
  ASSUME NEW S, NEW child \in Seq(S), child # <<>>, NEW s \in Above(Parent(child))
  PROVE  s \in Above(child)
<1>1. /\ Len(Parent(child)) = Len(child) - 1 /\ Len(child) \in Nat \ {0}
      /\ \A n \in 0 .. Len(child) - 1 : SubSeq(Parent(child), 1, n) = SubSeq(child, 1, n)
  BY ParentOf
<1>2. PICK n \in 0 .. Len(Parent(child)) : s = SubSeq(Parent(child), 1, n)
  BY DEF Above
<1>3. n \in 0 .. Len(child) /\ s = SubSeq(child, 1, n)
  BY <1>1, <1>2
<1> QED BY <1>3 DEF Above

\* Paths in the namespace: fixForNamespace adds its names in front.
LEMMA Fixed ==
  ASSUME NEW path \in Given
  PROVE  /\ fixForNamespace(path) \in Seq(STRING)
         /\ Len(fixForNamespace(path)) > Len(Namespace) /\ Len(Namespace) \in Nat
         /\ SubSeq(fixForNamespace(path), 1, Len(Namespace)) = Namespace
<1> DEFINE N == Len(Namespace)
           s == Namespace \o path
<1>1. Namespace \in Seq(STRING) /\ path \in Seq(STRING) /\ path # <<>>
  BY OperationsAssumption
<1>2. N \in Nat /\ Len(path) \in Nat \ {0}
  BY <1>1, LenProperties, EmptySeq
<1>3. /\ s \in Seq(STRING) /\ Len(s) = N + Len(path)
      /\ \A i \in 1 .. N + Len(path) :
           s[i] = IF i <= N THEN Namespace[i] ELSE path[i - N]
  BY <1>1, ConcatProperties
<1> HIDE DEF s
<1>4. SubSeq(s, 1, N) = Namespace
  <2>1. /\ SubSeq(s, 1, N) \in Seq(STRING) /\ Len(SubSeq(s, 1, N)) = N
        /\ \A i \in 1 .. N : SubSeq(s, 1, N)[i] = s[i]
    BY <1>2, <1>3, FirstNames
  <2>2. \A i \in 1 .. N : SubSeq(s, 1, N)[i] = Namespace[i]
    BY <1>2, <1>3, <2>1
  <2> QED BY <1>1, <2>1, <2>2, SeqEqual
<1>5. s = fixForNamespace(path)
  BY DEF fixForNamespace, s
<1>6. Len(s) > N
  BY <1>2, <1>3
<1> QED BY <1>2, <1>3, <1>4, <1>5, <1>6

-----------------------------------------------------------------------------
(* What a step of process p may do to the tree and to the other processes   *)

\* A step adds nodes, or deletes one that is not above p's own.
TreeChange(p) ==
  \/ /\ DOMAIN tree \subseteq DOMAIN tree' /\ DOMAIN tree' \subseteq Seq(STRING)
     /\ removed' = removed
  \/ \E path \in Seq(STRING) : Below(p, path) /\ DoDelete(path, "ok")

OthersStay(p) ==
  \A q \in Procs \ {p} :
    /\ at'[q] = at[q] /\ op'[q] = op[q] /\ result'[q] = result[q] /\ absent'[q] = absent[q]
    /\ lock' = q <=> lock = q

\* An operation is for one of the given paths.
LEMMA OperationType ==
  ASSUME NEW o \in Operation
  PROVE  o.path \in Given /\ o.kind \in Kinds /\ o.deep \in BOOLEAN
BY DEF Operation

\* The path of a process, in the namespace
LEMMA PathType ==
  ASSUME Types, NEW p \in Procs
  PROVE  /\ Path(p) \in Seq(STRING) /\ Path(p) # <<>> /\ Namespace \in Seq(STRING)
         /\ Len(Path(p)) \in Nat /\ Len(Namespace) \in Nat /\ Len(Path(p)) > Len(Namespace)
<1>1. op[p].path \in Given
  BY OperationType DEF Types
<1>2. /\ Path(p) \in Seq(STRING) /\ Len(Path(p)) > Len(Namespace)
      /\ Len(Namespace) \in Nat
  BY <1>1, Fixed DEF Path
<1>3. Len(Path(p)) \in Nat
  BY <1>2, LenProperties
<1>4. Path(p) # <<>>
  BY <1>2, <1>3, EmptySeq
<1> QED BY <1>2, <1>3, <1>4, OperationsAssumption

\* Nothing below a process's own node is the root or the namespace.
LEMMA BelowIsNeither ==
  ASSUME Types, NEW p \in Procs, NEW path \in Seq(STRING), Below(p, path)
  PROVE  path # <<>> /\ path # Namespace
<1>1. Len(Path(p)) <= Len(path)
  BY AboveIs DEF Below
<1>2. Len(<<>>) = 0
  BY EmptySeq
<1> QED BY <1>1, <1>2, PathType

\* The calls that change the tree, whatever their outcome
LEMMA CreateChanges ==
  ASSUME Types, NEW p \in Procs, NEW path \in Seq(STRING), NEW r, DoCreate(path, r)
  PROVE  /\ TreeChange(p) /\ DOMAIN tree \subseteq DOMAIN tree'
         /\ r = "ok" => path \in DOMAIN tree'
<1>1. CASE r = "ok"
  <2>1. DOMAIN tree' = DOMAIN tree \cup {path}
    BY <1>1 DEF DoCreate
  <2> QED BY <2>1 DEF DoCreate, TreeChange, Types
<1>2. CASE r # "ok"
  <2>1. tree' = tree
    BY <1>2 DEF DoCreate
  <2> QED BY <1>2, <2>1 DEF DoCreate, TreeChange, Types
<1> QED BY <1>1, <1>2

LEMMA StayChanges ==
  ASSUME Types, NEW p \in Procs, NoChange
  PROVE  TreeChange(p) /\ DOMAIN tree' = DOMAIN tree
BY DEF NoChange, TreeChange, Types

LEMMA DeleteChanges ==
  ASSUME Types, NEW p \in Procs, NEW path \in Seq(STRING), Below(p, path), NEW r,
         DoDelete(path, r)
  PROVE  TreeChange(p)
<1>1. CASE r = "ok"
  BY <1>1 DEF TreeChange
<1>2. CASE r # "ok"
  BY <1>2, StayChanges DEF DoDelete
<1> QED BY <1>1, <1>2

LEMMA VersionChanges ==
  ASSUME Types, NEW p \in Procs, NEW path, NEW field, NEW r, DoChange(path, field, r)
  PROVE  TreeChange(p)
<1>1. DOMAIN tree' = DOMAIN tree
  BY DEF DoChange
<1> QED BY <1>1 DEF DoChange, TreeChange, Types

\* The types of the tree; the root and the namespace stay once they are there.
LEMMA TreeKeeps ==
  ASSUME Types, NEW p \in Procs, TreeChange(p)
  PROVE  /\ DOMAIN tree' \subseteq Seq(STRING)
         /\ removed' \in [Procs -> SUBSET Seq(STRING)]
         /\ <<>> \in DOMAIN tree => <<>> \in DOMAIN tree'
         /\ Namespace \in DOMAIN tree => Namespace \in DOMAIN tree'
         /\ \A q \in Procs : removed[q] \subseteq removed'[q]
<1>1. CASE DOMAIN tree \subseteq DOMAIN tree' /\ DOMAIN tree' \subseteq Seq(STRING)
             /\ removed' = removed
  BY <1>1 DEF Types
<1>2. ASSUME NEW path \in Seq(STRING), Below(p, path), DoDelete(path, "ok")
      PROVE  /\ DOMAIN tree' \subseteq Seq(STRING)
             /\ removed' \in [Procs -> SUBSET Seq(STRING)]
             /\ <<>> \in DOMAIN tree => <<>> \in DOMAIN tree'
             /\ Namespace \in DOMAIN tree => Namespace \in DOMAIN tree'
             /\ \A q \in Procs : removed[q] \subseteq removed'[q]
  <2>1. path # <<>> /\ path # Namespace
    BY <1>2, BelowIsNeither
  <2>2. DOMAIN tree' = DOMAIN tree \ {path}
    BY <1>2 DEF DoDelete
  <2>3. removed' = [q \in Procs |->
                      IF Busy(q) /\ (path \in Above(Path(q)) \/ Path(q) \in Above(path))
                      THEN removed[q] \cup {path} ELSE removed[q]]
    BY <1>2 DEF DoDelete
  <2>4. \A q \in Procs : /\ removed[q] \subseteq removed'[q]
                         /\ removed'[q] \in SUBSET Seq(STRING)
    BY <2>3 DEF Types
  <2> QED BY <2>1, <2>2, <2>3, <2>4 DEF Types
<1> QED BY <1>1, <1>2 DEF TreeChange

\* A node above or below that of a running operation is not lost sight of.
LEMMA KnownKeeps ==
  ASSUME Types, NEW p \in Procs, TreeChange(p), NEW q \in Procs, Busy(q),
         NEW path, path \in Known(q), path \in Above(Path(q)) \/ Path(q) \in Above(path)
  PROVE  path \in DOMAIN tree' \cup removed'[q]
<1>1. CASE DOMAIN tree \subseteq DOMAIN tree' /\ removed' = removed
  BY <1>1 DEF Known
<1>2. ASSUME NEW gone \in Seq(STRING), Below(p, gone), DoDelete(gone, "ok")
      PROVE  path \in DOMAIN tree' \cup removed'[q]
  <2>1. DOMAIN tree' = DOMAIN tree \ {gone}
    BY <1>2 DEF DoDelete
  <2>2. removed'[q] = IF Busy(q) /\ (gone \in Above(Path(q)) \/ Path(q) \in Above(gone))
                      THEN removed[q] \cup {gone} ELSE removed[q]
    BY <1>2 DEF DoDelete
  <2> QED BY <2>1, <2>2 DEF Known
<1> QED BY <1>1, <1>2 DEF TreeChange

LEMMA DirKnownKeeps ==
  ASSUME Types, NEW p \in Procs, TreeChange(p), NEW q \in Procs, Busy(q),
         NEW n \in 0 .. Len(Path(q)), SubSeq(Path(q), 1, n) \in Known(q)
  PROVE  SubSeq(Path(q), 1, n) \in DOMAIN tree' \cup removed'[q]
<1>1. SubSeq(Path(q), 1, n) \in Above(Path(q))
  BY DEF Above
<1> QED BY <1>1, KnownKeeps

\* What holds of an operation goes on to hold while others run.
LEMMA OthersKeep ==
  ASSUME IInv, NEW p \in Procs, TreeChange(p), OthersStay(p),
         ensureFailed => ensureFailed', NEW q \in Procs \ {p}
  PROVE  ProcInv(q)'
<1>1. /\ Types /\ ProcInv(q) /\ q \in Procs
      /\ at'[q] = at[q] /\ op'[q] = op[q] /\ result'[q] = result[q] /\ absent'[q] = absent[q]
      /\ lock' = q <=> lock = q
  BY DEF IInv, OthersStay
<1>2. Path(q)' = Path(q) /\ Busy(q)' = Busy(q) /\ removed[q] \subseteq removed'[q]
  BY <1>1, TreeKeeps DEF Path, Busy
<1>3. LockInv(q)'
  BY <1>1, TreeKeeps DEF ProcInv, LockInv, Exists
<1>4. AbsentInv(q)'
  <2> SUFFICES ASSUME Busy(q), ~absent[q], NEW path \in Above(Path(q))
               PROVE  path \in DOMAIN tree' \cup removed'[q]
    BY <1>1, <1>2 DEF AbsentInv, Known
  <2>1. path \in Known(q)
    BY <1>1 DEF ProcInv, AbsentInv
  <2> QED BY <1>1, <2>1, KnownKeeps
<1>5. ASSUME Busy(q), NEW n \in 0 .. Len(Path(q)), SubSeq(Path(q), 1, n) \in Known(q)
      PROVE  SubSeq(Path(q), 1, n) \in DOMAIN tree' \cup removed'[q]
  BY <1>1, <1>5, DirKnownKeeps
<1>6. DirsInv(q)'
  <2>1. Len(Parent(Path(q))) = Len(Path(q)) - 1 /\ Len(Path(q)) \in Nat
    BY <1>1, PathType, ParentOf
  <2>2. CASE at[q].label \in {"exists", "mkdir"} /\ lock # q
    <3>1. /\ op[q].kind = "Create" /\ op[q].deep
          /\ at[q].dir \in 1 .. Len(Parent(Path(q)))
          /\ \A n \in 0 .. at[q].dir - 1 : SubSeq(Path(q), 1, n) \in Known(q)
      BY Zenon, <1>1, <2>2 DEF ProcInv, DirsInv
    <3>2. Busy(q) /\ \A n \in 0 .. at[q].dir - 1 : n \in 0 .. Len(Path(q))
      BY <2>1, <2>2, <3>1 DEF Busy
    <3>3. \A n \in 0 .. at[q].dir - 1 :
            SubSeq(Path(q), 1, n) \in DOMAIN tree' \cup removed'[q]
      BY <1>5, <3>1, <3>2
    <3> QED BY <1>1, <1>2, <2>2, <3>1, <3>3 DEF DirsInv, Known
  <2>3. CASE at[q].label = "again"
    <3>1. /\ op[q].kind = "Create" /\ op[q].deep
          /\ \A n \in 0 .. Len(Parent(Path(q))) : SubSeq(Path(q), 1, n) \in Known(q)
      BY <1>1, <2>3 DEF ProcInv, DirsInv
    <3>2. Busy(q) /\ \A n \in 0 .. Len(Parent(Path(q))) : n \in 0 .. Len(Path(q))
      BY <2>1, <2>3 DEF Busy
    <3>3. \A n \in 0 .. Len(Parent(Path(q))) :
            SubSeq(Path(q), 1, n) \in DOMAIN tree' \cup removed'[q]
      BY <1>5, <3>1, <3>2
    <3> QED BY <1>1, <1>2, <2>3, <3>1, <3>3 DEF DirsInv, Known
  <2> QED BY <1>1, <2>2, <2>3 DEF DirsInv
<1>7. StackInv(q)'
  <2> SUFFICES ASSUME at[q].label \in {"children", "deleteSelf"}
               PROVE  StackInv(q)'
    BY Zenon, <1>1 DEF StackInv
  <2>1. Busy(q)
    BY DEF Busy
  <2>2. /\ op[q].kind = "Delete" /\ op[q].deep
        /\ at[q].stack # <<>> /\ at[q].stack[Len(at[q].stack)].path = Path(q)
        /\ \A i \in 1 .. Len(at[q].stack) :
             \A path \in {at[q].stack[i].path} \cup at[q].stack[i].todo :
               Below(q, path) /\ path \in Known(q)
    BY <1>1 DEF ProcInv, StackInv
  <2>3. \A i \in 1 .. Len(at[q].stack) :
          \A path \in {at[q].stack[i].path} \cup at[q].stack[i].todo :
            path \in DOMAIN tree' \cup removed'[q]
    BY Zenon, <1>1, <2>1, <2>2, KnownKeeps DEF Below
  <2> QED BY <1>1, <1>2, <2>2, <2>3 DEF StackInv, Below, Known
<1>8. ResultInv(q)'
  BY Zenon, <1>1, <1>2 DEF ProcInv, ResultInv
<1> QED BY <1>3, <1>4, <1>6, <1>7, <1>8 DEF ProcInv

-----------------------------------------------------------------------------
(* Where a step takes its process                                           *)

LEMMA AtType ==
  ASSUME NEW label \in Labels
  PROVE  /\ At(label) \in Place /\ At(label).label = label
         /\ At(label).stack = <<>>
<1>1. <<>> \in Seq(Frames)
  BY EmptySeq
<1> QED BY <1>1 DEF At, Place

LEMMA AtDirType ==
  ASSUME NEW n \in Nat
  PROVE  AtDir(n) \in Place /\ AtDir(n).label = "exists" /\ AtDir(n).dir = n
<1>1. At("exists") \in Place /\ At("exists").label = "exists"
  BY AtType DEF Labels, Conn
<1> QED BY <1>1 DEF AtDir, Place

LEMMA AtStackType ==
  ASSUME NEW label \in Labels, NEW stack \in Seq(Frames)
  PROVE  /\ AtStack(label, stack) \in Place /\ AtStack(label, stack).label = label
         /\ AtStack(label, stack).stack = stack
BY AtType DEF AtStack, Place

LEMMA GotoType ==
  ASSUME Types, NEW p \in Procs, NEW place \in Place, Goto(p, place)
  PROVE  /\ at' \in [Procs -> Place] /\ at'[p] = place /\ result' = result
         /\ \A q \in Procs \ {p} : at'[q] = at[q]
BY DEF Goto, Types

LEMMA FinishType ==
  ASSUME Types, NEW p \in Procs, NEW r \in Results, Finish(p, r)
  PROVE  /\ at' \in [Procs -> Place] /\ at'[p] = At("idle")
         /\ result' \in [Procs -> Results] /\ result'[p] = r
         /\ \A q \in Procs \ {p} : at'[q] = at[q] /\ result'[q] = result[q]
<1>1. At("idle") \in Place
  BY AtType DEF Labels
<1> QED BY <1>1 DEF Finish, Types

LEMMA GotoAt ==
  ASSUME Types, NEW p \in Procs, NEW label \in Labels, Goto(p, At(label))
  PROVE  At(label) \in Place /\ at'[p].label = label
<1>1. At(label) \in Place /\ At(label).label = label
  BY AtType
<1> QED BY <1>1, GotoType

LEMMA GotoDir ==
  ASSUME Types, NEW p \in Procs, NEW n \in Nat, Goto(p, AtDir(n))
  PROVE  AtDir(n) \in Place /\ at'[p].label = "exists" /\ at'[p].dir = n
<1>1. AtDir(n) \in Place /\ AtDir(n).label = "exists" /\ AtDir(n).dir = n
  BY AtDirType
<1> QED BY <1>1, GotoType

LEMMA GotoStack ==
  ASSUME Types, NEW p \in Procs, NEW label \in Labels, NEW stack \in Seq(Frames),
         Goto(p, AtStack(label, stack))
  PROVE  AtStack(label, stack) \in Place /\ at'[p].label = label /\ at'[p].stack = stack
<1>1. /\ AtStack(label, stack) \in Place /\ AtStack(label, stack).label = label
      /\ AtStack(label, stack).stack = stack
  BY AtStackType
<1> QED BY <1>1, GotoType

\* Arithmetic, for the directories that MakeDirs goes through
LEMMA FirstDir == ASSUME NEW n \in Nat, NEW i \in 1 .. n PROVE 1 \in 1 .. n
OBVIOUS

LEMMA DirNumbers ==
  ASSUME NEW n \in Nat, NEW d \in 1 .. n
  PROVE  /\ d \in Nat /\ d + 1 \in Nat /\ (d + 1) - 1 = d
         /\ d - 1 \in 0 .. d - 1 /\ d - 1 \in 0 .. d
         /\ d < n => d + 1 \in 1 .. n
         /\ ~(d < n) => d = n
         /\ \A i \in 0 .. d : i \in 0 .. d - 1 \/ i = d
         /\ \A i \in 0 .. d - 1 : i \in 0 .. n + 1
         /\ d \in 0 .. n /\ d \in 0 .. n + 1
OBVIOUS

\* What a step of process p keeps
Post(p) ==
  /\ Types' /\ EnsureInv' /\ ProcInv(p)'
  /\ TreeChange(p) /\ OthersStay(p) /\ (ensureFailed => ensureFailed')

\* That is enough for the invariant.
LEMMA PostKeeps ==
  ASSUME IInv, NEW p \in Procs, Post(p)
  PROVE  IInv'
<1>1. \A q \in Procs \ {p} : ProcInv(q)'
  BY OthersKeep DEF Post
<1>2. \A q \in Procs : ProcInv(q)'
  BY <1>1 DEF Post
<1> QED BY <1>2 DEF Post, IInv

\* A step that leaves EnsurePath alone
LEMMA EnsureStays ==
  ASSUME IInv, NEW p \in Procs, TreeChange(p), UNCHANGED <<helper, started, ensureFailed>>
  PROVE  /\ EnsureInv' /\ helper' \in BOOLEAN /\ started' \in BOOLEAN
         /\ ensureFailed' \in BOOLEAN /\ (ensureFailed => ensureFailed')
<1>1. Types /\ EnsureInv
  BY DEF IInv
<1>2. EnsureInv'
  BY <1>1, TreeKeeps DEF EnsureInv, Exists
<1> QED BY <1>1, <1>2 DEF Types

\* The step goes on to a place of which the invariant holds.
LEMMA GotoPost ==
  ASSUME IInv, NEW p \in Procs, Busy(p), TreeChange(p), UNCHANGED <<op, absent>>,
         NEW place \in Place, Goto(p, place),
         EnsureInv', helper' \in BOOLEAN, started' \in BOOLEAN, ensureFailed' \in BOOLEAN,
         ensureFailed => ensureFailed',
         lock' \in Procs \cup {NoProc}, \A q \in Procs \ {p} : lock' = q <=> lock = q,
         LockInv(p)', DirsInv(p)', StackInv(p)'
  PROVE  Post(p)
<1>1. Types /\ EnsureInv /\ ProcInv(p)
  BY DEF IInv
<1>2. /\ at' \in [Procs -> Place] /\ result' = result
      /\ \A q \in Procs \ {p} : at'[q] = at[q]
  BY <1>1, GotoType
<1>3. Types'
  BY Zenon, <1>1, <1>2, TreeKeeps DEF Types
<1>5. Path(p)' = Path(p) /\ absent'[p] = absent[p] /\ op'[p] = op[p] /\ result'[p] = result[p]
  BY Zenon, <1>2 DEF Path
<1>6. AbsentInv(p)'
  <2> SUFFICES ASSUME ~absent[p], NEW path \in Above(Path(p))
               PROVE  path \in DOMAIN tree' \cup removed'[p]
    BY <1>5 DEF AbsentInv, Known
  <2>1. path \in Known(p)
    BY <1>1 DEF ProcInv, AbsentInv
  <2> QED BY Zenon, <1>1, <2>1, KnownKeeps
<1>7. ResultInv(p)'
  <2>1. removed[p] \subseteq removed'[p]
    BY Zenon, <1>1, TreeKeeps
  <2> QED BY Zenon, <1>1, <1>5, <2>1 DEF ProcInv, ResultInv
<1>8. OthersStay(p)
  BY <1>2 DEF OthersStay
<1> QED BY <1>3, <1>6, <1>7, <1>8 DEF Post, ProcInv

\* The operation ends with a result that has its cause.
LEMMA FinishPost ==
  ASSUME IInv, NEW p \in Procs, TreeChange(p), UNCHANGED <<op, absent, ensureVars>>,
         NEW r \in Results, Finish(p, r), lock # p,
         op[p].kind = "Delete" =>
           /\ r = "ok" => Path(p) \in removed'[p]
           /\ op[p].deep => r # "NotEmpty",
         r = "NoNode" =>
           \/ removed'[p] \cap Above(Path(p)) # {}
           \/ absent[p] /\ ~(op[p].kind = "Create" /\ op[p].deep)
           \/ removed'[p] # {} /\ op[p].kind = "Delete" /\ op[p].deep
  PROVE  Post(p)
<1>1. Types /\ EnsureInv /\ UNCHANGED <<helper, started, lock, ensureFailed>>
  BY DEF IInv, ensureVars
<1>2. /\ at' \in [Procs -> Place] /\ at'[p] = At("idle")
      /\ result' \in [Procs -> Results] /\ result'[p] = r
      /\ \A q \in Procs \ {p} : at'[q] = at[q] /\ result'[q] = result[q]
  BY <1>1, FinishType
<1>3. Types'
  BY Zenon, <1>1, <1>2, TreeKeeps DEF Types
<1>4. EnsureInv'
  BY <1>1, TreeKeeps DEF EnsureInv, Exists
<1>5. at'[p].label = "idle" /\ lock' # p
  BY <1>1, <1>2, AtType DEF Labels
<1>6. LockInv(p)' /\ AbsentInv(p)' /\ DirsInv(p)' /\ StackInv(p)'
  BY Zenon, <1>5 DEF LockInv, AbsentInv, DirsInv, StackInv, Busy, Conn
<1>7. ResultInv(p)'
  <2>1. Path(p)' = Path(p) /\ absent'[p] = absent[p] /\ op'[p] = op[p]
    BY DEF Path
  <2> QED BY Zenon, <1>2, <2>1 DEF ResultInv
<1>8. OthersStay(p)
  BY Zenon, <1>1, <1>2 DEF OthersStay
<1> QED BY Zenon, <1>1, <1>3, <1>4, <1>6, <1>7, <1>8 DEF Post, ProcInv

\* A step to a place where nothing is asked of MakeDirs or DeleteChildren; the
\* lock is not the process's.
LEMMA PlainPost ==
  ASSUME IInv, NEW p \in Procs, Busy(p), TreeChange(p), UNCHANGED <<op, absent>>,
         UNCHANGED <<helper, started, lock, ensureFailed>>, lock # p,
         NEW label \in {"helper", "lock", "request", "panicked"}, Goto(p, At(label)),
         label \in {"helper", "lock"} => Namespace # <<>>,
         label \in {"request", "panicked"} => ensureFailed \/ Exists(Namespace)
  PROVE  Post(p)
<1>1. Types /\ label \in Labels
  BY DEF IInv, Labels, Conn
<1>2. At(label) \in Place /\ at'[p].label = label
  BY Zenon, <1>1, GotoAt
<1>3. LockInv(p)'
  BY <1>1, <1>2, TreeKeeps DEF LockInv, Conn, Exists
<1>4. DirsInv(p)' /\ StackInv(p)'
  BY Zenon, <1>2 DEF DirsInv, StackInv
<1>5. lock' \in Procs \cup {NoProc} /\ \A q \in Procs \ {p} : lock' = q <=> lock = q
  BY <1>1 DEF Types
<1> QED BY Zenon, <1>2, <1>3, <1>4, <1>5, EnsureStays, GotoPost

\* The helper's Ensure returns, with the namespace made or with an error.
LEMMA EnsuredPost ==
  ASSUME IInv, NEW p \in Procs, lock = p, TreeChange(p), UNCHANGED <<op, absent>>,
         NEW ok \in BOOLEAN, Ensured(p, ok), ok => Namespace \in DOMAIN tree'
  PROVE  Post(p)
<1>1. Types /\ EnsureInv /\ Busy(p)
  BY Zenon DEF IInv, ProcInv, LockInv, Busy
<1>2. /\ helper' = FALSE /\ started' = TRUE /\ lock' = NoProc
      /\ ensureFailed' = (ensureFailed \/ ~ok) /\ Goto(p, At("request"))
  BY DEF Ensured
<1>3. At("request") \in Place /\ at'[p].label = "request"
  <2>1. "request" \in Labels
    BY DEF Labels, Conn
  <2> QED BY <1>1, <1>2, <2>1, GotoAt
<1>4. ensureFailed' \in BOOLEAN /\ (ensureFailed => ensureFailed') /\ (ok \/ ensureFailed')
  BY Zenon, <1>1, <1>2 DEF Types
<1>5. EnsureInv'
  BY <1>1, <1>2, <1>4, TreeKeeps DEF EnsureInv, Exists
<1>6. lock' # p /\ \A q \in Procs \ {p} : lock' = q <=> lock = q
  BY <1>2, OperationsAssumption
<1>7. LockInv(p)'
  BY <1>3, <1>4, <1>6 DEF LockInv, Exists
<1>8. DirsInv(p)' /\ StackInv(p)'
  BY Zenon, <1>3 DEF DirsInv, StackInv
<1> QED BY Zenon, <1>1, <1>2, <1>3, <1>4, <1>5, <1>6, <1>7, <1>8, GotoPost

\* The operation, or its Ensure, gives up.
LEMMA FailsPost ==
  ASSUME IInv, NEW p \in Procs, TreeChange(p), UNCHANGED <<op, absent>>,
         NEW err \in {"NoNode", "error"}, Fails(p, err),
         lock # p /\ err = "NoNode" => removed'[p] \cap Above(Path(p)) # {}
  PROVE  Post(p)
<1>1. CASE lock = p
  <2>1. Ensured(p, FALSE)
    BY Zenon, <1>1 DEF Fails
  <2> QED BY Zenon, <1>1, <2>1, EnsuredPost
<1>2. CASE lock # p
  <2>1. Finish(p, err) /\ UNCHANGED ensureVars
    BY <1>2 DEF Fails
  <2>2. err \in Results /\ err # "ok" /\ err # "NotEmpty"
    BY DEF Results
  <2> QED BY <1>2, <2>1, <2>2, FinishPost
<1> QED BY Zenon, <1>1, <1>2

-----------------------------------------------------------------------------
(* EnsurePath and MakeDirs keep the invariant                               *)

\* Ensure, as far as the helper's lock
LEMMA EnsureKeeps ==
  ASSUME IInv, NEW p \in Procs, Ensure(p)
  PROVE  Post(p)
<1>1. /\ Types /\ EnsureInv /\ LockInv(p) /\ UNCHANGED <<op, absent>>
      /\ UNCHANGED <<helper, started, lock, ensureFailed>> /\ NoChange
  BY DEF IInv, ProcInv, Ensure, ensureVars, NoChange
<1>2. at[p].label \in {"ensure", "helper"}
  BY DEF Ensure
<1>3. Busy(p) /\ lock # p /\ Namespace # <<>> /\ TreeChange(p)
  BY <1>1, <1>2, StayChanges DEF Busy, LockInv
<1>4. ~helper => ensureFailed \/ Exists(Namespace)
  BY <1>1 DEF EnsureInv
<1>5. CASE at[p].label = "ensure" /\ helper /\ Goto(p, At("helper"))
  BY <1>1, <1>3, <1>5, PlainPost
<1>6. CASE at[p].label = "ensure" /\ ~helper /\ Goto(p, At("request"))
  BY <1>1, <1>3, <1>4, <1>6, PlainPost
<1>7. CASE at[p].label = "helper" /\ Goto(p, At("lock"))
  BY <1>1, <1>3, <1>7, PlainPost
<1>8. CASE at[p].label = "helper" /\ ~helper /\ Goto(p, At("panicked"))
  BY <1>1, <1>3, <1>4, <1>8, PlainPost
<1> QED BY <1>5, <1>6, <1>7, <1>8 DEF Ensure

\* The helper's Ensure, as far as MakeDirs
LEMMA LockKeeps ==
  ASSUME IInv, NEW p \in Procs, Lock(p)
  PROVE  Post(p)
<1>1. /\ Types /\ EnsureInv /\ LockInv(p) /\ UNCHANGED <<op, absent>>
      /\ UNCHANGED <<helper, started, ensureFailed>> /\ NoChange
      /\ at[p].label = "lock" /\ lock = NoProc
  BY DEF IInv, ProcInv, Lock, NoChange
<1>2. /\ Busy(p) /\ lock # p /\ Namespace # <<>> /\ TreeChange(p)
      /\ \A q \in Procs : lock # q
  BY <1>1, StayChanges, OperationsAssumption DEF Busy, LockInv
<1>3. CASE started /\ Goto(p, At("request")) /\ UNCHANGED lock
  <2>1. ensureFailed \/ Exists(Namespace)
    BY Zenon, <1>1, <1>3 DEF EnsureInv
  <2> QED BY Zenon, <1>1, <1>2, <1>3, <2>1, PlainPost
<1>4. CASE ~started /\ Goto(p, AtDir(1)) /\ lock' = p
  <2>1. AtDir(1) \in Place /\ at'[p].label = "exists" /\ at'[p].dir = 1
    BY Zenon, <1>1, <1>4, GotoDir
  <2>2. 1 \in 1 .. Len(Namespace)
    <3>1. Len(Namespace) \in Nat \ {0}
      BY <1>2, EmptySeq, OperationsAssumption
    <3> QED BY <3>1
  <2>3. LockInv(p)'
    BY <1>4, <2>1, <2>2 DEF LockInv
  <2>4. DirsInv(p)' /\ StackInv(p)'
    BY Zenon, <1>4, <2>1 DEF DirsInv, StackInv
  <2>5. lock' \in Procs \cup {NoProc} /\ \A q \in Procs \ {p} : lock' = q <=> lock = q
    BY <1>2, <1>4
  <2> QED BY Zenon, <1>1, <1>2, <1>4, <2>1, <2>3, <2>4, <2>5, EnsureStays, GotoPost
<1> QED BY <1>3, <1>4 DEF Lock

\* The directory that MakeDirs has got to
LEMMA SubPathIs ==
  ASSUME IInv, NEW p \in Procs, at[p].label \in {"exists", "mkdir"}
  PROVE  /\ at[p].dir \in 1 .. Len(LastDir(p)) /\ Len(LastDir(p)) \in Nat
         /\ at[p].dir \in Nat /\ SubPath(p) \in Seq(STRING)
         /\ lock = p /\ at[p].dir = Len(LastDir(p)) => SubPath(p) = Namespace
         /\ lock # p => /\ SubPath(p) = SubSeq(Path(p), 1, at[p].dir)
                        /\ Parent(SubPath(p)) = SubSeq(Path(p), 1, at[p].dir - 1)
                        /\ LastDir(p) = Parent(Path(p))
                        /\ Len(Path(p)) = Len(LastDir(p)) + 1
<1>1. Types /\ ProcInv(p)
  BY DEF IInv
<1>2. /\ Path(p) \in Seq(STRING) /\ Path(p) # <<>> /\ Namespace \in Seq(STRING)
      /\ Len(Path(p)) \in Nat /\ Len(Namespace) \in Nat
  BY <1>1, PathType
<1>3. \A n \in 0 .. Len(Path(p)) - 1 : SubSeq(Parent(Path(p)), 1, n) = SubSeq(Path(p), 1, n)
  BY <1>2, ParentOf
<1>4. CASE lock = p
  <2>1. LastDir(p) = Namespace /\ at[p].dir \in 1 .. Len(Namespace)
    BY <1>1, <1>4 DEF LastDir, ProcInv, LockInv
  <2>2. SubPath(p) = SubSeq(Namespace, 1, at[p].dir) /\ at[p].dir \in 0 .. Len(Namespace)
    BY <1>2, <2>1 DEF SubPath
  <2>3. SubPath(p) \in Seq(STRING) /\ SubSeq(Namespace, 1, Len(Namespace)) = Namespace
    BY <1>2, <2>2, FirstNames, SubSeqFull
  <2>4. at[p].dir \in Nat
    BY <1>2, <2>1, DirNumbers
  <2> QED BY <1>2, <1>4, <2>1, <2>2, <2>3, <2>4
<1>5. CASE lock # p
  <2>1. LastDir(p) = Parent(Path(p)) /\ at[p].dir \in 1 .. Len(Parent(Path(p)))
    BY Zenon, <1>1, <1>5 DEF LastDir, ProcInv, DirsInv
  <2>2. /\ Len(Parent(Path(p))) = Len(Path(p)) - 1 /\ Len(Parent(Path(p))) \in Nat
        /\ Len(Path(p)) = Len(Parent(Path(p))) + 1
    <3>1. Len(Parent(Path(p))) = Len(Path(p)) - 1 /\ Len(Path(p)) \in Nat \ {0}
      BY <1>2, ParentOf
    <3> QED BY <3>1
  <2>3. /\ at[p].dir \in 0 .. Len(Path(p)) - 1 /\ at[p].dir \in 0 .. Len(Path(p))
        /\ at[p].dir - 1 \in 0 .. at[p].dir /\ at[p].dir \in Nat
    BY Zenon, <2>1, <2>2, DirNumbers
  <2>4. SubPath(p) = SubSeq(Path(p), 1, at[p].dir)
    BY Zenon, <1>3, <2>1, <2>3 DEF SubPath
  <2>5. SubPath(p) \in Seq(STRING) /\ Len(SubPath(p)) = at[p].dir
    BY <1>2, <2>3, <2>4, FirstNames
  <2>6. Parent(SubPath(p)) = SubSeq(Path(p), 1, at[p].dir - 1)
    BY Zenon, <1>2, <2>3, <2>4, <2>5, FirstOfFirst DEF Parent
  <2> QED BY Zenon, <1>5, <2>1, <2>3, <2>4, <2>5, <2>6, <2>2
<1> QED BY Zenon, <1>4, <1>5

\* MakeDirs goes on when the directory it has got to is there.
LEMMA NextDirKeeps ==
  ASSUME IInv, NEW p \in Procs, at[p].label \in {"exists", "mkdir"}, TreeChange(p),
         SubPath(p) \in DOMAIN tree', NextDir(p), UNCHANGED <<op, absent>>
  PROVE  Post(p)
<1> DEFINE dir == at[p].dir
<1>1. Types /\ LockInv(p) /\ DirsInv(p) /\ Busy(p)
  BY DEF IInv, ProcInv, Busy
<1>2. /\ dir \in 1 .. Len(LastDir(p)) /\ Len(LastDir(p)) \in Nat /\ dir \in Nat
      /\ lock = p /\ dir = Len(LastDir(p)) => SubPath(p) = Namespace
      /\ lock # p => /\ SubPath(p) = SubSeq(Path(p), 1, dir)
                     /\ LastDir(p) = Parent(Path(p))
                     /\ Len(Path(p)) = Len(LastDir(p)) + 1
  BY Zenon, SubPathIs
<1>3. Path(p)' = Path(p)
  BY DEF Path
<1>4. /\ (dir + 1) - 1 = dir /\ dir + 1 \in Nat
      /\ dir < Len(LastDir(p)) => dir + 1 \in 1 .. Len(LastDir(p))
      /\ ~(dir < Len(LastDir(p))) => dir = Len(LastDir(p))
      /\ \A n \in 0 .. dir : n \in 0 .. dir - 1 \/ n = dir
      /\ \A n \in 0 .. dir - 1 : n \in 0 .. Len(LastDir(p)) + 1
  <2>1. dir \in 1 .. Len(LastDir(p)) /\ Len(LastDir(p)) \in Nat
    BY Zenon, <1>2
  <2> HIDE DEF dir
  <2> QED BY <2>1, DirNumbers
<1>5. ASSUME lock # p
      PROVE  /\ op[p].kind = "Create" /\ op[p].deep /\ op'[p] = op[p]
             /\ \A n \in 0 .. dir : SubSeq(Path(p), 1, n) \in DOMAIN tree' \cup removed'[p]
  <2>1. /\ op[p].kind = "Create" /\ op[p].deep
        /\ \A n \in 0 .. dir - 1 : SubSeq(Path(p), 1, n) \in Known(p)
    BY Zenon, <1>1, <1>5 DEF DirsInv
  <2>2. \A n \in 0 .. dir - 1 : n \in 0 .. Len(Path(p))
    BY Zenon, <1>2, <1>5, <1>4
  <2>3. \A n \in 0 .. dir - 1 : SubSeq(Path(p), 1, n) \in DOMAIN tree' \cup removed'[p]
    BY Zenon, <1>1, <2>1, <2>2, DirKnownKeeps
  <2>4. op'[p] = op[p] /\ SubSeq(Path(p), 1, dir) \in DOMAIN tree'
    BY Zenon, <1>2, <1>5
  <2> QED BY Zenon, <1>4, <2>1, <2>3, <2>4
<1>6. CASE dir < Len(LastDir(p))
  <2>1. Goto(p, AtDir(dir + 1)) /\ UNCHANGED <<helper, started, lock, ensureFailed>>
    BY Zenon, <1>6 DEF NextDir, ensureVars
  <2>2. AtDir(dir + 1) \in Place /\ at'[p].label = "exists" /\ at'[p].dir = dir + 1
    <3>1. dir + 1 \in Nat
      BY <1>4
    <3> HIDE DEF dir
    <3> QED BY Zenon, <1>1, <2>1, <3>1, GotoDir
  <2>3. LockInv(p)'
    <3>1. lock = p => dir + 1 \in 1 .. Len(Namespace)
      BY Zenon, <1>6, <1>4 DEF LastDir
    <3>2. lock # p => ensureFailed' \/ Namespace \in DOMAIN tree'
      BY Zenon, <1>1, <2>1, TreeKeeps DEF LockInv, Conn, Exists
    <3> QED BY Zenon, <2>1, <2>2, <3>1, <3>2 DEF LockInv, Exists
  <2>4. DirsInv(p)'
    <3>1. lock # p => dir + 1 \in 1 .. Len(Parent(Path(p)))
      BY Zenon, <1>2, <1>6, <1>4
    <3>2. lock # p => \A n \in 0 .. at'[p].dir - 1 :
                        SubSeq(Path(p), 1, n) \in DOMAIN tree' \cup removed'[p]
      <4>1. at'[p].dir - 1 = dir
        BY Zenon, <1>4, <2>2
      <4> QED BY <1>5, <4>1
    <3>3. lock # p => at'[p].dir \in 1 .. Len(Parent(Path(p)))
      BY Zenon, <2>2, <3>1
    <3>4. lock' = lock /\ at'[p].label = "exists"
      BY Zenon, <2>1, <2>2
    <3> HIDE DEF dir
    <3> QED BY Zenon, <1>3, <1>5, <3>2, <3>3, <3>4 DEF DirsInv, Known
  <2>5. StackInv(p)' /\ lock' \in Procs \cup {NoProc}
    BY Zenon, <1>1, <2>1, <2>2 DEF StackInv, Types
  <2> QED BY Zenon, <1>1, <2>1, <2>2, <2>3, <2>4, <2>5, EnsureStays, GotoPost
<1>7. CASE ~(dir < Len(LastDir(p))) /\ lock = p
  <2>1. Ensured(p, TRUE)
    BY Zenon, <1>7 DEF NextDir
  <2>2. Namespace \in DOMAIN tree'
    BY Zenon, <1>2, <1>7, <1>4
  <2> QED BY Zenon, <1>7, <2>1, <2>2, EnsuredPost
<1>8. CASE ~(dir < Len(LastDir(p))) /\ lock # p
  <2>1. Goto(p, At("again")) /\ UNCHANGED <<helper, started, lock, ensureFailed>>
    BY Zenon, <1>8 DEF NextDir, ensureVars
  <2>2. At("again") \in Place /\ at'[p].label = "again"
    <3>1. "again" \in Labels
      BY DEF Labels, Conn
    <3> QED BY Zenon, <1>1, <2>1, <3>1, GotoAt
  <2>3. LockInv(p)'
    BY Zenon, <1>1, <1>8, <2>1, <2>2, TreeKeeps DEF LockInv, Conn, Exists
  <2>4. dir = Len(Parent(Path(p)))
    BY Zenon, <1>2, <1>8, <1>4
  <2>5. DirsInv(p)'
    BY Zenon, <1>3, <1>5, <1>8, <2>2, <2>4 DEF DirsInv, Known
  <2>6. StackInv(p)' /\ lock' \in Procs \cup {NoProc}
    BY Zenon, <1>1, <2>1, <2>2 DEF StackInv, Types
  <2> QED BY Zenon, <1>1, <2>1, <2>2, <2>3, <2>5, <2>6, EnsureStays, GotoPost
<1> QED BY <1>6, <1>7, <1>8

\* The directory is there, or has to be made.
LEMMA MakeDirsExistsKeeps ==
  ASSUME IInv, NEW p \in Procs, MakeDirsExists(p)
  PROVE  Post(p)
<1>1. /\ Types /\ LockInv(p) /\ DirsInv(p) /\ at[p].label = "exists" /\ Busy(p)
      /\ NoChange /\ UNCHANGED <<op, absent, tree, removed>>
  BY DEF IInv, ProcInv, MakeDirsExists, NoChange, Busy
<1>2. TreeChange(p) /\ DOMAIN tree' = DOMAIN tree
  BY <1>1, StayChanges
<1>3. CASE Exists(SubPath(p)) /\ NextDir(p)
  BY Zenon, <1>1, <1>2, <1>3, NextDirKeeps DEF Exists
<1>4. CASE Goto(p, [at[p] EXCEPT !.label = "mkdir"]) /\ UNCHANGED ensureVars
  <2>1. UNCHANGED <<helper, started, lock, ensureFailed>> /\ Path(p)' = Path(p)
    BY <1>1, <1>4 DEF ensureVars, Path
  <2>2. /\ [at[p] EXCEPT !.label = "mkdir"] \in Place
        /\ [at[p] EXCEPT !.label = "mkdir"].label = "mkdir"
        /\ [at[p] EXCEPT !.label = "mkdir"].dir = at[p].dir
    BY Zenon, <1>1 DEF Types, Place, Labels, Conn
  <2>3. at'[p].label = "mkdir" /\ at'[p].dir = at[p].dir
    BY Zenon, <1>1, <1>4, <2>2, GotoType
  <2>4. LockInv(p)'
    BY Zenon, <1>1, <1>2, <2>1, <2>3 DEF LockInv, Conn, Exists
  <2>5. DirsInv(p)'
    BY Zenon, <1>1, <1>2, <2>1, <2>3 DEF DirsInv, Known
  <2>6. StackInv(p)' /\ lock' \in Procs \cup {NoProc}
    BY Zenon, <1>1, <2>1, <2>3 DEF StackInv, Types
  <2> QED BY <1>1, <1>2, <1>4, <2>1, <2>2, <2>4, <2>5, <2>6, EnsureStays, GotoPost
<1> QED BY <1>3, <1>4 DEF MakeDirsExists

\* The directory is made, or its parent has been deleted under MakeDirs.
LEMMA MakeDirsCreateKeeps ==
  ASSUME IInv, NEW p \in Procs, MakeDirsCreate(p)
  PROVE  Post(p)
<1>1. /\ Types /\ DirsInv(p) /\ at[p].label = "mkdir" /\ UNCHANGED <<op, absent>>
      /\ DoCreate(SubPath(p), Created(SubPath(p)))
  BY Zenon DEF IInv, ProcInv, MakeDirsCreate
<1>2. SubPath(p) \in Seq(STRING)
  BY Zenon, <1>1, SubPathIs
<1>3. /\ TreeChange(p) /\ DOMAIN tree \subseteq DOMAIN tree'
      /\ Created(SubPath(p)) = "ok" => SubPath(p) \in DOMAIN tree'
  BY Zenon, <1>1, <1>2, CreateChanges
<1>4. CASE Created(SubPath(p)) \in {"ok", "NodeExists"} /\ NextDir(p)
  <2>1. SubPath(p) \in DOMAIN tree'
    BY <1>3, <1>4 DEF Created, Exists
  <2> QED BY <1>1, <1>3, <1>4, <2>1, NextDirKeeps
<1>5. CASE Created(SubPath(p)) = "NoNode" /\ Fails(p, "NoNode")
  <2>1. ASSUME lock # p PROVE removed'[p] \cap Above(Path(p)) # {}
    <3>1. /\ Parent(SubPath(p)) = SubSeq(Path(p), 1, at[p].dir - 1)
          /\ at[p].dir \in 1 .. Len(LastDir(p)) /\ Len(LastDir(p)) \in Nat
          /\ Len(Path(p)) = Len(LastDir(p)) + 1
      BY Zenon, <1>1, <2>1, SubPathIs
    <3>2. at[p].dir - 1 \in 0 .. at[p].dir - 1 /\ at[p].dir - 1 \in 0 .. Len(Path(p))
      BY <3>1, DirNumbers
    <3>3. Parent(SubPath(p)) \notin DOMAIN tree
      BY <1>5 DEF Created, Exists
    <3>4. Parent(SubPath(p)) \in removed[p]
      BY Zenon, <1>1, <2>1, <3>1, <3>2, <3>3 DEF DirsInv, Known
    <3>5. Parent(SubPath(p)) \in Above(Path(p))
      BY Zenon, <3>1, <3>2 DEF Above
    <3> QED BY Zenon, <1>1, <1>3, <3>4, <3>5, TreeKeeps
  <2> QED BY Zenon, <1>1, <1>3, <1>5, <2>1, FailsPost
<1> QED BY Zenon, <1>4, <1>5 DEF MakeDirsCreate

-----------------------------------------------------------------------------
(* The builders keep the invariant                                          *)

\* A process that calls the server for its own path has not the lock.
LEMMA RequestHas ==
  ASSUME IInv, NEW p \in Procs, at[p].label \in Conn \ {"exists", "mkdir"}
  PROVE  /\ Types /\ EnsureInv /\ ProcInv(p) /\ Busy(p) /\ lock # p
         /\ ensureFailed \/ Exists(Namespace)
<1>1. Types /\ EnsureInv /\ ProcInv(p)
  BY DEF IInv
<1> QED BY Zenon, <1>1 DEF ProcInv, LockInv, Busy, Conn

\* A missing node on the path was missing from the start, or has been deleted.
LEMMA MissingHasCause ==
  ASSUME IInv, NEW p \in Procs, at[p].label \in Conn \ {"exists", "mkdir"}, TreeChange(p),
         NEW path \in Above(Path(p)), path \notin DOMAIN tree
  PROVE  removed'[p] \cap Above(Path(p)) # {} \/ absent[p]
<1>1. /\ Types /\ Busy(p) /\ AbsentInv(p)
  BY Zenon, RequestHas DEF ProcInv
<1>2. absent[p] \/ path \in removed[p]
  BY Zenon, <1>1 DEF AbsentInv, Known
<1>3. removed[p] \subseteq removed'[p]
  BY Zenon, <1>1, TreeKeeps
<1> QED BY <1>2, <1>3

\* An operation that is neither a Create nor a Delete ends with what it got.
LEMMA GotKeeps ==
  ASSUME IInv, NEW p \in Procs, at[p].label = "request", op[p].kind \notin {"Create", "Delete"},
         TreeChange(p), NEW r \in Results, r = "NoNode" => ~Exists(Path(p)), Finish(p, r), Rest
  PROVE  Post(p)
<1>1. Types /\ lock # p /\ UNCHANGED <<op, absent, ensureVars>>
  BY Zenon, RequestHas DEF Rest, Conn
<1>2. Path(p) \in Above(Path(p))
  BY Zenon, <1>1, PathType, AboveItself
<1>3. r = "NoNode" => removed'[p] \cap Above(Path(p)) # {} \/ absent[p]
  BY Zenon, <1>2, MissingHasCause DEF Exists, Conn
<1> QED BY Zenon, <1>1, <1>3, FinishPost

\* CheckExists, GetData, GetChildren, GetACL and Sync
LEMMA ReadKeeps ==
  ASSUME IInv, NEW p \in Procs,
         CheckExists(p) \/ GetData(p) \/ GetChildren(p) \/ GetACL(p) \/ Sync(p)
  PROVE  Post(p)
<1>1. /\ at[p].label = "request" /\ op[p].kind \notin {"Create", "Delete"} /\ NoChange /\ Rest
      /\ \E r \in {"ok", "error", Got(Path(p))} : Finish(p, r)
  BY Zenon DEF CheckExists, GetData, GetChildren, GetACL, Sync, Requests
<1>2. TreeChange(p)
  BY <1>1, StayChanges DEF IInv
<1>3. Got(Path(p)) \in Results /\ (Got(Path(p)) = "NoNode" => ~Exists(Path(p)))
  BY DEF Got, Results
<1>4. \A r \in {"ok", "error", Got(Path(p))} :
        r \in Results /\ (r = "NoNode" => ~Exists(Path(p)))
  BY <1>3 DEF Results
<1> QED BY Zenon, <1>1, <1>2, <1>4, GotKeeps

\* SetData and SetACL
LEMMA ChangeKeeps ==
  ASSUME IInv, NEW p \in Procs, SetData(p) \/ SetACL(p)
  PROVE  Post(p)
<1>1. ASSUME NEW field, NEW r, r = Changed(Path(p), field, op[p].version),
             at[p].label = "request", op[p].kind \notin {"Create", "Delete"},
             DoChange(Path(p), field, r), Finish(p, r), Rest
      PROVE  Post(p)
  <2>1. TreeChange(p)
    BY Zenon, <1>1, VersionChanges DEF IInv
  <2>2. r \in Results /\ (r = "NoNode" => ~Exists(Path(p)))
    BY Zenon, <1>1 DEF Changed, Got, Results
  <2> QED BY Zenon, <1>1, <2>1, <2>2, GotKeeps
<1>2. CASE SetData(p)
  BY Zenon, <1>1, <1>2 DEF SetData, Requests
<1>3. CASE SetACL(p)
  BY Zenon, <1>1, <1>3 DEF SetACL, Requests
<1> QED BY <1>2, <1>3

\* Create, and its second call after MakeDirs
LEMMA CreateKeeps ==
  ASSUME IInv, NEW p \in Procs, Create(p)
  PROVE  Post(p)
<1> DEFINE r == Created(Path(p))
<1>1. /\ at[p].label \in {"request", "again"} /\ at[p].label \in Conn \ {"exists", "mkdir"}
      /\ at[p].label = "request" => op[p].kind = "Create"
      /\ DoCreate(Path(p), r) /\ UNCHANGED <<op, absent, ensureVars>>
  BY Zenon DEF Create, Creates, Requests, Conn, Rest
<1>2. Types /\ EnsureInv /\ ProcInv(p) /\ Busy(p) /\ lock # p /\ (ensureFailed \/ Exists(Namespace))
  BY Zenon, <1>1, RequestHas
<1>3. /\ Path(p) \in Seq(STRING) /\ Path(p) # <<>> /\ Len(Path(p)) \in Nat \ {0}
      /\ Len(Parent(Path(p))) = Len(Path(p)) - 1 /\ Path(p)' = Path(p)
      /\ SubSeq(Path(p), 1, 0) = <<>>
  <2>1. Path(p) \in Seq(STRING) /\ Path(p) # <<>>
    BY <1>2, PathType
  <2>2. Len(Path(p)) \in Nat \ {0} /\ Len(Parent(Path(p))) = Len(Path(p)) - 1
    BY <2>1, ParentOf
  <2>3. Path(p)' = Path(p)
    BY <1>1 DEF Path
  <2>4. SubSeq(Path(p), 1, 0) = <<>>
    BY SubSeqEmpty
  <2> QED BY <2>1, <2>2, <2>3, <2>4
<1>4. TreeChange(p)
  BY Zenon, <1>1, <1>2, <1>3, CreateChanges
<1>5. op[p].kind = "Create"
  BY Zenon, <1>1, <1>2 DEF ProcInv, DirsInv
<1>6. r \in Results /\ (r = "NoNode" => ~Exists(Parent(Path(p))))
  BY DEF Created, Results
<1>7. Parent(Path(p)) = SubSeq(Path(p), 1, Len(Path(p)) - 1) /\ Len(Path(p)) - 1 \in 0 .. Len(Path(p))
  BY <1>3 DEF Parent
<1>8. Parent(Path(p)) \in Above(Path(p))
  BY <1>7 DEF Above
<1> HIDE DEF r
<1>9. CASE r = "NoNode" /\ op[p].deep /\ at[p].label = "request"
  <2>1. Goto(p, AtDir(1)) /\ UNCHANGED <<helper, started, lock, ensureFailed>>
    BY Zenon, <1>1, <1>9 DEF Create, ensureVars, r
  <2>2. AtDir(1) \in Place /\ at'[p].label = "exists" /\ at'[p].dir = 1
    BY Zenon, <1>2, <2>1, GotoDir
  <2>3. 1 \in 1 .. Len(Parent(Path(p)))
    <3>1. Parent(Path(p)) # <<>>
      BY Zenon, <1>2, <1>6, <1>9 DEF EnsureInv, Exists
    <3>2. Len(Path(p)) # 1
      BY <1>3, <1>7, <3>1
    <3> QED BY <1>3, <3>2
  <2>4. LockInv(p)'
    BY Zenon, <1>2, <1>4, <2>1, <2>2, TreeKeeps DEF LockInv, Exists
  <2>5. \A n \in 0 .. at'[p].dir - 1 : SubSeq(Path(p), 1, n) \in DOMAIN tree'
    <3>1. \A n \in 0 .. at'[p].dir - 1 : n = 0
      BY <2>2
    <3>2. <<>> \in DOMAIN tree'
      BY Zenon, <1>2, <1>4, TreeKeeps DEF EnsureInv
    <3> QED BY Zenon, <1>3, <3>1, <3>2
  <2>6. op'[p] = op[p] /\ at'[p].dir \in 1 .. Len(Parent(Path(p)))
    BY Zenon, <1>1, <2>2, <2>3
  <2>7. DirsInv(p)'
    BY Zenon, <1>3, <1>5, <1>9, <2>2, <2>5, <2>6 DEF DirsInv, Known
  <2>8. StackInv(p)' /\ lock' \in Procs \cup {NoProc}
    BY Zenon, <1>2, <2>1, <2>2 DEF StackInv, Types
  <2> QED BY Zenon, <1>1, <1>2, <1>4, <2>1, <2>2, <2>4, <2>7, <2>8, EnsureStays, GotoPost
<1>10. CASE ~(r = "NoNode" /\ op[p].deep /\ at[p].label = "request")
  <2>1. Finish(p, r)
    BY Zenon, <1>10 DEF Create, r
  <2>2. ASSUME r = "NoNode", op[p].deep
        PROVE  removed'[p] \cap Above(Path(p)) # {}
    <3>1. Len(Path(p)) - 1 \in 0 .. Len(Parent(Path(p)))
      BY <1>3
    <3>2. Parent(Path(p)) \in Known(p)
      BY Zenon, <1>1, <1>2, <1>7, <1>10, <2>2, <3>1 DEF ProcInv, DirsInv
    <3>3. Parent(Path(p)) \in removed[p]
      BY Zenon, <1>6, <2>2, <3>2 DEF Known, Exists
    <3> QED BY Zenon, <1>2, <1>4, <1>8, <3>3, TreeKeeps
  <2>3. ASSUME r = "NoNode"
        PROVE  removed'[p] \cap Above(Path(p)) # {} \/ absent[p]
    BY Zenon, <1>1, <1>4, <1>6, <1>8, <2>3, MissingHasCause DEF Exists
  <2> QED BY Zenon, <1>1, <1>2, <1>4, <1>5, <1>6, <2>1, <2>2, <2>3, FinishPost
<1> QED BY <1>9, <1>10

\* Delete, whose first call may find children
LEMMA DeleteKeeps ==
  ASSUME IInv, NEW p \in Procs, Delete(p)
  PROVE  Post(p)
<1> DEFINE r == Deleted(Path(p), op[p].version)
<1>1. /\ at[p].label = "request" /\ at[p].label \in Conn \ {"exists", "mkdir"}
      /\ op[p].kind = "Delete" /\ DoDelete(Path(p), r) /\ UNCHANGED <<op, absent, ensureVars>>
  BY Zenon DEF Delete, Requests, Conn, Rest
<1>2. Types /\ EnsureInv /\ ProcInv(p) /\ Busy(p) /\ lock # p /\ (ensureFailed \/ Exists(Namespace))
  BY Zenon, <1>1, RequestHas
<1>3. Path(p) \in Seq(STRING) /\ Path(p) \in Above(Path(p)) /\ Path(p)' = Path(p)
  BY Zenon, <1>1, <1>2, PathType, AboveItself DEF Path
<1>4. TreeChange(p)
  BY Zenon, <1>1, <1>2, <1>3, DeleteChanges DEF Below
<1>5. /\ r \in Results /\ (r = "NoNode" => ~Exists(Path(p)))
      /\ r = "NotEmpty" => Exists(Path(p))
  BY Zenon DEF Deleted, Changed, Got, Results
<1> HIDE DEF r
<1>6. CASE r = "NotEmpty" /\ op[p].deep
  <2> DEFINE stack == <<Frame(Path(p), {})>>
  <2>1. Goto(p, AtStack("children", stack)) /\ UNCHANGED <<helper, started, lock, ensureFailed>>
    BY Zenon, <1>1, <1>6 DEF Delete, ensureVars, r
  <2>2. /\ stack \in Seq(Frames) /\ Len(stack) = 1 /\ stack[1].path = Path(p)
        /\ stack[1].todo = {} /\ stack # <<>>
    BY <1>3 DEF Frame, Frames
  <2> HIDE DEF stack
  <2>3. /\ AtStack("children", stack) \in Place /\ at'[p].label = "children"
        /\ at'[p].stack = stack
    <3>1. "children" \in Labels
      BY DEF Labels, Conn
    <3> QED BY Zenon, <1>2, <2>1, <2>2, <3>1, GotoStack
  <2>4. Path(p) \in DOMAIN tree'
    BY Zenon, <1>1, <1>5, <1>6 DEF DoDelete, NoChange, Exists
  <2>5. StackInv(p)'
    <3>1. \A i \in 1 .. Len(stack) :
            \A path \in {stack[i].path} \cup stack[i].todo : path = Path(p)
      BY <2>2
    <3>2. \A i \in 1 .. Len(stack) :
            \A path \in {stack[i].path} \cup stack[i].todo :
              Below(p, path)' /\ path \in Known(p)'
      BY Zenon, <1>1, <1>3, <2>4, <3>1 DEF Below, Known
    <3>3. stack # <<>> /\ stack[Len(stack)].path = Path(p)'
      BY <1>3, <2>2
    <3>4. op'[p].kind = "Delete" /\ op'[p].deep
      BY Zenon, <1>1, <1>6
    <3> QED BY Zenon, <2>3, <3>2, <3>3, <3>4 DEF StackInv
  <2>6. LockInv(p)'
    BY Zenon, <1>2, <1>4, <2>1, <2>3, TreeKeeps DEF LockInv, Exists
  <2>7. DirsInv(p)' /\ lock' \in Procs \cup {NoProc}
    BY Zenon, <1>2, <2>1, <2>3 DEF DirsInv, Types
  <2> QED BY Zenon, <1>1, <1>2, <1>4, <2>1, <2>3, <2>5, <2>6, <2>7, EnsureStays, GotoPost
<1>7. CASE ~(r = "NotEmpty" /\ op[p].deep)
  <2>1. Finish(p, r)
    BY <1>7 DEF Delete, r
  <2>2. r = "ok" => Path(p) \in removed'[p]
    BY Zenon, <1>1, <1>2, <1>3 DEF DoDelete
  <2>3. r = "NoNode" => removed'[p] \cap Above(Path(p)) # {} \/ absent[p]
    BY Zenon, <1>1, <1>3, <1>4, <1>5, MissingHasCause DEF Exists
  <2> QED BY Zenon, <1>1, <1>2, <1>4, <1>5, <1>7, <2>1, <2>2, <2>3, FinishPost
<1> QED BY <1>6, <1>7

\* What DeleteChildren has to do is known to its process.
LEMMA StackHas ==
  ASSUME IInv, NEW p \in Procs, at[p].label \in {"children", "deleteSelf"}
  PROVE  /\ Types /\ EnsureInv /\ ProcInv(p) /\ Busy(p) /\ lock # p
         /\ ensureFailed \/ Exists(Namespace)
         /\ op[p].kind = "Delete" /\ op[p].deep
         /\ at[p].stack \in Seq(Frames) /\ at[p].stack # <<>> /\ Len(at[p].stack) \in Nat \ {0}
         /\ at[p].stack[Len(at[p].stack)].path = Path(p)
         /\ \A i \in 1 .. Len(at[p].stack) :
              \A path \in {at[p].stack[i].path} \cup at[p].stack[i].todo :
                Below(p, path) /\ path \in Known(p)
<1>1. at[p].label \in Conn \ {"exists", "mkdir"}
  BY DEF Conn
<1>2. /\ Types /\ EnsureInv /\ ProcInv(p) /\ Busy(p) /\ lock # p
      /\ ensureFailed \/ Exists(Namespace)
  BY Zenon, <1>1, RequestHas
<1>3. /\ op[p].kind = "Delete" /\ op[p].deep
      /\ at[p].stack # <<>> /\ at[p].stack[Len(at[p].stack)].path = Path(p)
      /\ \A i \in 1 .. Len(at[p].stack) :
           \A path \in {at[p].stack[i].path} \cup at[p].stack[i].todo :
             Below(p, path) /\ path \in Known(p)
  BY Zenon, <1>2 DEF ProcInv, StackInv
<1>4. at[p].stack \in Seq(Frames)
  BY <1>2 DEF Types, Place
<1>5. Len(at[p].stack) \in Nat \ {0}
  BY Zenon, <1>3, <1>4, EmptySeq
<1> QED BY Zenon, <1>2, <1>3, <1>4, <1>5

\* Every node of the calls in a stack is below p's own, and one of the nodes given.
Tracked(p, stack, nodes) ==
  \A i \in 1 .. Len(stack) :
    \A path \in {stack[i].path} \cup stack[i].todo : Below(p, path) /\ path \in nodes

\* One or two new calls
LEMMA FrameType ==
  ASSUME NEW path \in Seq(STRING), NEW todo \in SUBSET Seq(STRING)
  PROVE  /\ Frame(path, todo) \in Frames
         /\ Frame(path, todo).path = path /\ Frame(path, todo).todo = todo
BY DEF Frame, Frames

LEMMA TrackedOne ==
  ASSUME NEW p, NEW nodes, NEW a \in Frames,
         \A q \in {a.path} \cup a.todo : Below(p, q) /\ q \in nodes
  PROVE  /\ <<a>> \in Seq(Frames) /\ <<a>> # <<>> /\ <<a>>[Len(<<a>>)] = a
         /\ Tracked(p, <<a>>, nodes)
BY DEF Tracked

LEMMA TrackedTwo ==
  ASSUME NEW p, NEW nodes, NEW a \in Frames, NEW b \in Frames,
         \A q \in {a.path, b.path} \cup a.todo \cup b.todo : Below(p, q) /\ q \in nodes
  PROVE  /\ <<a, b>> \in Seq(Frames) /\ <<a, b>> # <<>> /\ <<a, b>>[Len(<<a, b>>)] = b
         /\ Tracked(p, <<a, b>>, nodes)
<1>1. /\ <<a, b>> \in Seq(Frames) /\ <<a, b>> # <<>> /\ Len(<<a, b>>) = 2
      /\ <<a, b>>[1] = a /\ <<a, b>>[2] = b
  OBVIOUS
<1>2. \A i \in 1 .. 2 : i = 1 \/ i = 2
  OBVIOUS
<1> QED BY <1>1, <1>2 DEF Tracked

\* DeleteChildren goes on with a stack of calls like that.
LEMMA StackPost ==
  ASSUME IInv, NEW p \in Procs, at[p].label \in {"children", "deleteSelf"}, TreeChange(p),
         UNCHANGED <<op, absent, ensureVars>>,
         NEW label \in {"children", "deleteSelf"}, NEW stack \in Seq(Frames),
         Goto(p, AtStack(label, stack)),
         stack # <<>>, stack[Len(stack)].path = Path(p),
         Tracked(p, stack, DOMAIN tree' \cup removed'[p])
  PROVE  Post(p)
<1>1. /\ Types /\ Busy(p) /\ lock # p /\ (ensureFailed \/ Exists(Namespace))
      /\ op[p].kind = "Delete" /\ op[p].deep
  BY Zenon, StackHas
<1>2. UNCHANGED <<helper, started, lock, ensureFailed>> /\ Path(p)' = Path(p) /\ op'[p] = op[p]
  BY Zenon DEF ensureVars, Path
<1>3. label \in Labels
  BY Zenon DEF Labels, Conn
<1>4. AtStack(label, stack) \in Place /\ at'[p].label = label /\ at'[p].stack = stack
  BY Zenon, <1>1, <1>3, GotoStack
<1>5. LockInv(p)'
  BY Zenon, <1>1, <1>2, <1>4, TreeKeeps DEF LockInv, Exists
<1>6. DirsInv(p)' /\ lock' \in Procs \cup {NoProc}
  BY Zenon, <1>1, <1>2, <1>4 DEF DirsInv, Types
<1>7. StackInv(p)'
  BY Zenon, <1>1, <1>2, <1>4 DEF StackInv, Tracked, Below, Known
<1> QED BY Zenon, <1>1, <1>2, <1>4, <1>5, <1>6, <1>7, EnsureStays, GotoPost

\* Calls put in front of others
LEMMA Pushed ==
  ASSUME NEW p \in Procs, NEW nodes, NEW front \in Seq(Frames), NEW outer \in Seq(Frames),
         front # <<>>, Tracked(p, front, nodes), Tracked(p, outer, nodes),
         IF outer = <<>> THEN front[Len(front)].path = Path(p)
         ELSE outer[Len(outer)].path = Path(p)
  PROVE  /\ front \o outer \in Seq(Frames) /\ front \o outer # <<>>
         /\ (front \o outer)[Len(front \o outer)].path = Path(p)
         /\ Tracked(p, front \o outer, nodes)
<1> DEFINE s == front \o outer
<1>1. Len(front) \in Nat \ {0} /\ Len(outer) \in Nat /\ (outer # <<>> => Len(outer) # 0)
  BY EmptySeq, LenProperties
<1>2. /\ s \in Seq(Frames) /\ Len(s) = Len(front) + Len(outer)
      /\ \A i \in 1 .. Len(front) + Len(outer) :
           s[i] = IF i <= Len(front) THEN front[i] ELSE outer[i - Len(front)]
  BY ConcatProperties
<1> HIDE DEF s
<1>3. s # <<>>
  BY <1>1, <1>2, EmptySeq
<1>4. s[Len(s)].path = Path(p)
  <2>1. CASE outer = <<>>
    <3>1. Len(s) = Len(front)
      BY <1>1, <1>2, <2>1
    <3> QED BY <1>1, <1>2, <2>1, <3>1
  <2>2. CASE outer # <<>>
    <3>1. s[Len(s)] = outer[Len(outer)]
      BY <1>1, <1>2, <2>2
    <3> QED BY <2>2, <3>1
  <2> QED BY <2>1, <2>2
<1>5. \A i \in 1 .. Len(s) : \/ i \in 1 .. Len(front) /\ s[i] = front[i]
                             \/ \E j \in 1 .. Len(outer) : s[i] = outer[j]
  <2> TAKE i \in 1 .. Len(s)
  <2>1. CASE i <= Len(front)
    BY <1>1, <1>2, <2>1
  <2>2. CASE i > Len(front)
    <3>1. i - Len(front) \in 1 .. Len(outer) /\ s[i] = outer[i - Len(front)]
      BY <1>1, <1>2, <2>2
    <3> QED BY <3>1
  <2> QED BY <1>1, <1>2, <2>1, <2>2
<1>6. Tracked(p, s, nodes)
  BY Zenon, <1>5 DEF Tracked
<1> QED BY <1>2, <1>3, <1>4, <1>6 DEF s

\* The stack without its innermost call
LEMMA Popped ==
  ASSUME NEW p \in Procs, NEW nodes, NEW stack \in Seq(Frames), stack # <<>>,
         Tracked(p, stack, nodes), stack[Len(stack)].path = Path(p)
  PROVE  /\ Tail(stack) \in Seq(Frames) /\ Head(stack) \in Frames
         /\ \A path \in {Head(stack).path} \cup Head(stack).todo :
              path \in Seq(STRING) /\ Below(p, path) /\ path \in nodes
         /\ Tracked(p, Tail(stack), nodes)
         /\ IF Tail(stack) = <<>> THEN Head(stack).path = Path(p)
            ELSE Tail(stack)[Len(Tail(stack))].path = Path(p)
<1>1. Len(stack) \in Nat \ {0}
  BY EmptySeq
<1>2. /\ Tail(stack) \in Seq(Frames) /\ Head(stack) \in Frames
      /\ Len(Tail(stack)) = Len(stack) - 1
      /\ \A i \in 1 .. Len(Tail(stack)) : Tail(stack)[i] = stack[i + 1]
      /\ Head(stack) = stack[1]
  BY HeadTailProperties
<1>3. \A path \in {Head(stack).path} \cup Head(stack).todo :
        path \in Seq(STRING) /\ Below(p, path) /\ path \in nodes
  <2>1. 1 \in 1 .. Len(stack)
    BY <1>1
  <2> QED BY <1>2, <2>1 DEF Tracked, Frames
<1>4. Tracked(p, Tail(stack), nodes)
  <2>1. \A i \in 1 .. Len(Tail(stack)) : i + 1 \in 1 .. Len(stack)
    BY <1>1, <1>2
  <2> QED BY <1>2, <2>1 DEF Tracked
<1>5. CASE Tail(stack) = <<>>
  <2>1. Len(stack) = 1
    BY <1>1, <1>2, <1>5, EmptySeq
  <2> QED BY Zenon, <1>2, <1>3, <1>4, <1>5, <2>1
<1>6. CASE Tail(stack) # <<>>
  <2>1. Len(Tail(stack)) \in Nat \ {0}
    BY <1>2, <1>6, EmptySeq
  <2>2. Len(Tail(stack)) + 1 = Len(stack) /\ Len(Tail(stack)) \in 1 .. Len(Tail(stack))
    BY <1>1, <1>2, <2>1
  <2> QED BY Zenon, <1>2, <1>3, <1>4, <1>6, <2>2
<1> QED BY Zenon, <1>5, <1>6

\* A call of DeleteChildren calls itself for a child, or goes to its own node.
LEMMA DescendKeeps ==
  ASSUME IInv, NEW p \in Procs, at[p].label \in {"children", "deleteSelf"}, TreeChange(p),
         UNCHANGED <<op, absent, ensureVars>>,
         NEW outer \in Seq(Frames), NEW path, NEW todo, Descend(p, outer, path, todo),
         \A q \in {path} \cup todo :
           q \in Seq(STRING) /\ Below(p, q) /\ q \in DOMAIN tree' \cup removed'[p],
         Tracked(p, outer, DOMAIN tree' \cup removed'[p]),
         IF outer = <<>> THEN path = Path(p) ELSE outer[Len(outer)].path = Path(p)
  PROVE  Post(p)
<1> DEFINE nodes == DOMAIN tree' \cup removed'[p]
<1>1. CASE todo = {} /\ Goto(p, AtStack("deleteSelf", <<Frame(path, {})>> \o outer))
  <2> DEFINE a == Frame(path, {})
             front == <<a>>
  <2>1. a \in Frames /\ a.path = path /\ a.todo = {}
    BY Zenon, FrameType
  <2>2. \A q \in {a.path} \cup a.todo : Below(p, q) /\ q \in nodes
    BY Zenon, <2>1
  <2> HIDE DEF a
  <2>3. /\ front \in Seq(Frames) /\ front # <<>> /\ front[Len(front)].path = path
        /\ Tracked(p, front, nodes)
    BY Zenon, <2>1, <2>2, TrackedOne
  <2> HIDE DEF front, nodes
  <2>4. Tracked(p, outer, nodes)
    BY Zenon DEF nodes
  <2>5. /\ front \o outer \in Seq(Frames) /\ front \o outer # <<>>
        /\ (front \o outer)[Len(front \o outer)].path = Path(p)
        /\ Tracked(p, front \o outer, nodes)
    BY Zenon, <2>3, <2>4, Pushed
  <2>6. Goto(p, AtStack("deleteSelf", front \o outer))
    BY Zenon, <1>1 DEF a, front
  <2> QED BY Zenon, <2>5, <2>6, StackPost DEF nodes
<1>2. ASSUME NEW child \in todo,
             Goto(p, AtStack("children",
                    <<Frame(child, {}), Frame(path, todo \ {child})>> \o outer))
      PROVE  Post(p)
  <2> DEFINE a == Frame(child, {})
             b == Frame(path, todo \ {child})
             front == <<a, b>>
  <2>1. /\ a \in Frames /\ a.path = child /\ a.todo = {}
        /\ b \in Frames /\ b.path = path /\ b.todo = todo \ {child}
    BY Zenon, FrameType
  <2>2. \A q \in {a.path, b.path} \cup a.todo \cup b.todo : Below(p, q) /\ q \in nodes
    BY Zenon, <2>1
  <2> HIDE DEF a, b
  <2>3. /\ front \in Seq(Frames) /\ front # <<>> /\ front[Len(front)].path = path
        /\ Tracked(p, front, nodes)
    BY Zenon, <2>1, <2>2, TrackedTwo
  <2> HIDE DEF front, nodes
  <2>4. Tracked(p, outer, nodes)
    BY Zenon DEF nodes
  <2>5. /\ front \o outer \in Seq(Frames) /\ front \o outer # <<>>
        /\ (front \o outer)[Len(front \o outer)].path = Path(p)
        /\ Tracked(p, front \o outer, nodes)
    BY Zenon, <2>3, <2>4, Pushed
  <2>6. Goto(p, AtStack("children", front \o outer))
    BY Zenon, <1>2 DEF a, b, front
  <2> QED BY Zenon, <2>5, <2>6, StackPost DEF nodes
<1> QED BY Zenon, <1>1, <1>2 DEF Descend

\* DeleteChildren asks for the children of its node.
LEMMA ListKeeps ==
  ASSUME IInv, NEW p \in Procs, DeleteChildrenList(p)
  PROVE  Post(p)
<1> DEFINE stack == at[p].stack
           path == Head(stack).path
           nodes == DOMAIN tree' \cup removed'[p]
<1>1. /\ at[p].label = "children" /\ NoChange /\ UNCHANGED <<op, absent, ensureVars>>
      /\ IF Exists(path) THEN Descend(p, Tail(stack), path, Children(path))
         ELSE Finish(p, "NoNode")
  BY Zenon DEF DeleteChildrenList, Rest
<1>2. /\ Types /\ lock # p /\ op[p].kind = "Delete" /\ op[p].deep
      /\ stack \in Seq(Frames) /\ stack # <<>> /\ stack[Len(stack)].path = Path(p)
      /\ \A i \in 1 .. Len(stack) :
           \A q \in {stack[i].path} \cup stack[i].todo : Below(p, q) /\ q \in Known(p)
  BY Zenon, <1>1, StackHas
<1>3. /\ TreeChange(p) /\ DOMAIN tree' = DOMAIN tree /\ nodes = Known(p)
  BY Zenon, <1>1, <1>2, StayChanges DEF NoChange, Known
<1>4. Tracked(p, stack, nodes)
  BY Zenon, <1>2, <1>3 DEF Tracked
<1> HIDE DEF stack, nodes
<1>5. /\ Tail(stack) \in Seq(Frames) /\ Head(stack) \in Frames
      /\ \A q \in {Head(stack).path} \cup Head(stack).todo :
           q \in Seq(STRING) /\ Below(p, q) /\ q \in nodes
      /\ Tracked(p, Tail(stack), nodes)
      /\ IF Tail(stack) = <<>> THEN Head(stack).path = Path(p)
         ELSE Tail(stack)[Len(Tail(stack))].path = Path(p)
  BY Zenon, <1>2, <1>4, Popped
<1>6. path \in Seq(STRING) /\ Below(p, path) /\ path \in nodes
  BY Zenon, <1>5
<1>7. CASE Exists(path)
  <2>1. ASSUME NEW q \in Children(path)
        PROVE  q \in Seq(STRING) /\ Below(p, q) /\ q \in nodes
    <3>1. q \in DOMAIN tree /\ q # <<>> /\ Parent(q) = path
      BY DEF Children
    <3>2. q \in Seq(STRING)
      BY Zenon, <1>2, <3>1 DEF Types
    <3>3. Path(p) \in Above(q)
      BY Zenon, <1>6, <3>1, <3>2, AboveChild DEF Below
    <3> QED BY Zenon, <1>3, <3>1, <3>2, <3>3 DEF Below, nodes
  <2>2. Descend(p, Tail(stack), path, Children(path))
    BY Zenon, <1>1, <1>7
  <2> HIDE DEF path
  <2> QED BY Zenon, <1>1, <1>3, <1>5, <1>6, <2>1, <2>2, DescendKeeps DEF nodes, path
<1>8. CASE ~Exists(path)
  <2>1. path \in removed[p] /\ removed' = removed
    BY Zenon, <1>1, <1>3, <1>6, <1>8 DEF Known, Exists, NoChange
  <2>2. "NoNode" \in Results /\ Finish(p, "NoNode") /\ removed'[p] # {}
    BY Zenon, <1>1, <1>8, <2>1 DEF Results
  <2> QED BY Zenon, <1>1, <1>2, <1>3, <2>2, FinishPost
<1> QED BY Zenon, <1>7, <1>8

\* DeleteChildren deletes its node, and goes on with the call that called it.
LEMMA SelfKeeps ==
  ASSUME IInv, NEW p \in Procs, DeleteChildrenSelf(p)
  PROVE  Post(p)
<1> DEFINE stack == at[p].stack
           path == Head(stack).path
           outer == Tail(stack)
           r == Deleted(path, AnyVersion)
           nodes == DOMAIN tree' \cup removed'[p]
<1>1. /\ at[p].label = "deleteSelf" /\ UNCHANGED <<op, absent, ensureVars>> /\ DoDelete(path, r)
      /\ IF r = "NotEmpty" THEN Goto(p, AtStack("children", stack))
         ELSE IF outer = <<>> THEN Finish(p, "ok")
         ELSE Descend(p, Tail(outer), Head(outer).path, Head(outer).todo)
  BY Zenon DEF DeleteChildrenSelf, Rest
<1>2. /\ Types /\ Busy(p) /\ lock # p /\ op[p].kind = "Delete" /\ op[p].deep
      /\ stack \in Seq(Frames) /\ stack # <<>> /\ stack[Len(stack)].path = Path(p)
      /\ \A i \in 1 .. Len(stack) :
           \A q \in {stack[i].path} \cup stack[i].todo : Below(p, q) /\ q \in Known(p)
  BY Zenon, <1>1, StackHas
<1>3. Tracked(p, stack, Known(p))
  BY Zenon, <1>2 DEF Tracked
<1>4. r \in {"ok", "NoNode", "NotEmpty"} /\ (r = "NoNode" => path \notin DOMAIN tree)
  BY Zenon DEF Deleted, Changed, Got, Exists
<1> HIDE DEF stack, nodes, r
<1>5. path \in Seq(STRING) /\ Below(p, path) /\ path \in Known(p)
  BY Zenon, <1>2, <1>3, Popped
<1>6. TreeChange(p)
  BY Zenon, <1>1, <1>2, <1>5, DeleteChanges
<1>7. Tracked(p, stack, nodes)
  <2>1. ASSUME NEW q, Below(p, q), q \in Known(p) PROVE q \in nodes
    BY Zenon, <1>2, <1>6, <2>1, KnownKeeps DEF Below, nodes
  <2> QED BY Zenon, <1>2, <2>1 DEF Tracked
<1>8. /\ outer \in Seq(Frames) /\ Tracked(p, outer, nodes)
      /\ IF outer = <<>> THEN path = Path(p) ELSE outer[Len(outer)].path = Path(p)
  BY Zenon, <1>2, <1>7, Popped
<1>9. CASE r = "NotEmpty"
  BY Zenon, <1>1, <1>2, <1>6, <1>7, <1>9, StackPost DEF nodes
<1>10. CASE r # "NotEmpty" /\ outer = <<>>
  <2>1. path = Path(p) /\ Finish(p, "ok") /\ "ok" \in Results
    BY Zenon, <1>1, <1>8, <1>10 DEF Results
  <2>2. Path(p) \in removed'[p]
    <3>1. CASE r = "ok"
      BY Zenon, <1>1, <1>2, <1>5, <2>1, <3>1 DEF DoDelete, Below
    <3>2. CASE r = "NoNode"
      BY Zenon, <1>2, <1>4, <1>5, <1>6, <2>1, <3>2, TreeKeeps DEF Known
    <3> QED BY <1>4, <1>10, <3>1, <3>2
  <2> QED BY Zenon, <1>1, <1>2, <1>6, <2>1, <2>2, FinishPost
<1>11. CASE r # "NotEmpty" /\ outer # <<>>
  <2>1. outer[Len(outer)].path = Path(p)
    BY <1>8, <1>11
  <2>2. Descend(p, Tail(outer), Head(outer).path, Head(outer).todo)
    BY Zenon, <1>1, <1>11
  <2> HIDE DEF outer
  <2>3. /\ Tail(outer) \in Seq(Frames)
        /\ \A q \in {Head(outer).path} \cup Head(outer).todo :
             q \in Seq(STRING) /\ Below(p, q) /\ q \in nodes
        /\ Tracked(p, Tail(outer), nodes)
        /\ IF Tail(outer) = <<>> THEN Head(outer).path = Path(p)
           ELSE Tail(outer)[Len(Tail(outer))].path = Path(p)
    BY Zenon, <1>8, <1>11, <2>1, Popped
  <2> QED BY Zenon, <1>1, <1>6, <2>2, <2>3, DescendKeeps DEF nodes
<1> QED BY <1>9, <1>10, <1>11

-----------------------------------------------------------------------------
(* Failures, and the start of an operation, keep the invariant              *)

\* What the call of a process may have done before it failed
LEMMA EffectChanges ==
  ASSUME IInv, NEW p \in Procs, at[p].label \in Conn, Effect(p) \/ NoChange
  PROVE  TreeChange(p)
<1>1. Types
  BY DEF IInv
<1>2. Path(p) \in Seq(STRING) /\ Below(p, Path(p))
  BY <1>1, PathType, AboveItself DEF Below
<1>3. CASE NoChange
  BY <1>1, <1>3, StayChanges
<1>4. CASE at[p].label = "mkdir" /\ DoCreate(SubPath(p), Created(SubPath(p)))
  BY Zenon, <1>1, <1>4, SubPathIs, CreateChanges
<1>5. CASE Creates(p) /\ DoCreate(Path(p), Created(Path(p)))
  BY Zenon, <1>1, <1>2, <1>5, CreateChanges
<1>6. CASE Requests(p, "Delete") /\ DoDelete(Path(p), Deleted(Path(p), op[p].version))
  BY Zenon, <1>1, <1>2, <1>6, DeleteChanges
<1>7. CASE /\ at[p].label = "deleteSelf"
           /\ LET path == Head(at[p].stack).path IN DoDelete(path, Deleted(path, AnyVersion))
  <2> DEFINE path == Head(at[p].stack).path
  <2>1. Tracked(p, at[p].stack, Known(p))
    BY Zenon, <1>7, StackHas DEF Tracked
  <2>2. path \in Seq(STRING) /\ Below(p, path)
    <3>1. /\ at[p].stack \in Seq(Frames) /\ at[p].stack # <<>>
          /\ at[p].stack[Len(at[p].stack)].path = Path(p)
      BY Zenon, <1>7, StackHas
    <3> QED BY Zenon, <2>1, <3>1, Popped
  <2> QED BY Zenon, <1>1, <1>7, <2>2, DeleteChanges
<1>8. ASSUME NEW field, DoChange(Path(p), field, Changed(Path(p), field, op[p].version))
      PROVE  TreeChange(p)
  BY Zenon, <1>1, <1>8, VersionChanges
<1> QED BY Zenon, <1>3, <1>4, <1>5, <1>6, <1>7, <1>8 DEF Effect

\* A call that fails for good
LEMMA CallFailsKeeps ==
  ASSUME IInv, NEW p \in Procs, CallFails(p)
  PROVE  Post(p)
<1>1. /\ at[p].label \in Conn /\ (Effect(p) \/ NoChange) /\ Fails(p, "error")
      /\ UNCHANGED <<op, absent>>
  BY DEF CallFails
<1> QED BY Zenon, <1>1, EffectChanges, FailsPost

\* A call that is tried again from the start
LEMMA RetryKeeps ==
  ASSUME IInv, NEW p \in Procs, Retry(p)
  PROVE  Post(p)
<1>1. /\ at[p].label \in Conn /\ (Effect(p) \/ NoChange)
      /\ Goto(p, IF lock = p THEN AtDir(1) ELSE At("request"))
      /\ UNCHANGED <<op, absent, helper, started, lock, ensureFailed>>
  BY DEF Retry, ensureVars
<1>2. TreeChange(p) /\ Types /\ LockInv(p) /\ Busy(p)
  BY Zenon, <1>1, EffectChanges DEF IInv, ProcInv, Busy, Conn
<1>3. CASE lock = p
  <2>1. /\ Goto(p, AtDir(1)) /\ AtDir(1) \in Place
        /\ at'[p].label = "exists" /\ at'[p].dir = 1
    BY Zenon, <1>1, <1>2, <1>3, GotoDir
  <2>2. 1 \in 1 .. Len(Namespace)
    <3>1. at[p].dir \in 1 .. Len(Namespace) /\ Len(Namespace) \in Nat
      BY Zenon, <1>2, <1>3, PathType DEF LockInv
    <3> QED BY <3>1, FirstDir
  <2>3. LockInv(p)'
    BY Zenon, <1>1, <1>3, <2>1, <2>2 DEF LockInv
  <2>4. DirsInv(p)' /\ StackInv(p)' /\ lock' \in Procs \cup {NoProc}
    BY Zenon, <1>1, <1>2, <1>3, <2>1 DEF DirsInv, StackInv, Types
  <2> QED BY Zenon, <1>1, <1>2, <2>1, <2>3, <2>4, EnsureStays, GotoPost
<1>4. CASE lock # p
  <2>1. ensureFailed \/ Exists(Namespace)
    BY Zenon, <1>1, <1>2, <1>4 DEF LockInv
  <2> QED BY <1>1, <1>2, <1>4, <2>1, PlainPost
<1> QED BY <1>3, <1>4

\* A process of which nothing changes, nor of the tree
LEMMA SameKeeps ==
  ASSUME NEW q \in Procs, ProcInv(q), UNCHANGED <<tree, lock, ensureFailed>>,
         at'[q] = at[q], op'[q] = op[q], result'[q] = result[q],
         absent'[q] = absent[q], removed'[q] = removed[q]
  PROVE  ProcInv(q)'
<1>1. Path(q)' = Path(q) /\ Busy(q)' = Busy(q) /\ Known(q)' = Known(q)
  BY Zenon DEF Path, Busy, Known
<1>2. LockInv(q)' /\ AbsentInv(q)'
  BY Zenon, <1>1 DEF ProcInv, LockInv, AbsentInv, Exists
<1>3. DirsInv(q)'
  BY Zenon, <1>1 DEF ProcInv, DirsInv
<1>4. StackInv(q)'
  BY Zenon, <1>1 DEF ProcInv, StackInv, Below
<1>5. ResultInv(q)'
  BY Zenon, <1>1 DEF ProcInv, ResultInv
<1> QED BY Zenon, <1>2, <1>3, <1>4, <1>5 DEF ProcInv

\* A new operation, of which only the namespace is known
LEMMA CallKeeps ==
  ASSUME IInv, NEW p \in Procs, Call(p)
  PROVE  IInv'
<1> DEFINE label == IF Namespace = <<>> THEN "request" ELSE "ensure"
<1>1. PICK o \in Operation :
        /\ op' = [op EXCEPT ![p] = o]
        /\ absent' = [absent EXCEPT ![p] = ~(Above(fixForNamespace(o.path)) \subseteq DOMAIN tree)]
  BY Zenon DEF Call
<1>2. /\ at[p].label = "idle" /\ at' = [at EXCEPT ![p] = At(label)]
      /\ result' = [result EXCEPT ![p] = "none"] /\ removed' = [removed EXCEPT ![p] = {}]
      /\ UNCHANGED <<tree, helper, started, lock, ensureFailed>>
  BY Zenon DEF Call, ensureVars
<1>3. Types /\ EnsureInv /\ \A q \in Procs : ProcInv(q)
  BY DEF IInv
<1>4. At(label) \in Place /\ At(label).label = label /\ "none" \in Results
  BY AtType DEF Labels, Conn, Results
<1>5. Types'
  <2>1. op' \in [Procs -> Operation] /\ at' \in [Procs -> Place]
    BY Zenon, <1>1, <1>2, <1>3, <1>4 DEF Types
  <2>2. result' \in [Procs -> Results] /\ removed' \in [Procs -> SUBSET Seq(STRING)]
    BY Zenon, <1>2, <1>3, <1>4 DEF Types
  <2>3. absent' \in [Procs -> BOOLEAN]
    BY <1>1, <1>3 DEF Types
  <2> QED BY Zenon, <1>2, <1>3, <2>1, <2>2, <2>3 DEF Types
<1>6. EnsureInv'
  BY Zenon, <1>2, <1>3 DEF EnsureInv, Exists
<1>7. ASSUME NEW q \in Procs, q # p PROVE ProcInv(q)'
  <2>1. /\ at'[q] = at[q] /\ op'[q] = op[q] /\ result'[q] = result[q]
        /\ absent'[q] = absent[q] /\ removed'[q] = removed[q]
    BY Zenon, <1>1, <1>2, <1>3, <1>7 DEF Types
  <2> QED BY Zenon, <1>2, <1>3, <2>1, SameKeeps
<1>8. ProcInv(p)'
  <2>1. /\ at'[p].label = label /\ op'[p] = o /\ result'[p] = "none" /\ removed'[p] = {}
        /\ absent'[p] = ~(Above(fixForNamespace(o.path)) \subseteq DOMAIN tree)
    BY Zenon, <1>1, <1>2, <1>3, <1>4 DEF Types
  <2>2. Path(p)' = fixForNamespace(o.path) /\ Known(p)' = DOMAIN tree
    BY Zenon, <1>2, <2>1 DEF Path, Known
  <2>3. lock # p
    BY Zenon, <1>2, <1>3 DEF ProcInv, LockInv
  <2>4. LockInv(p)'
    <3>1. label = "request" => Exists(Namespace)
      BY <1>3 DEF EnsureInv, Exists
    <3>2. label \in {"ensure", "request"} /\ (label = "ensure" => Namespace # <<>>)
      OBVIOUS
    <3>3. Exists(Namespace)' = Exists(Namespace)
      BY Zenon, <1>2 DEF Exists
    <3>4. lock' # p
      BY <1>2, <2>3
    <3> HIDE DEF label
    <3> QED BY Zenon, <2>1, <3>1, <3>2, <3>4, <3>3 DEF LockInv, Conn
  <2>5. AbsentInv(p)'
    BY Zenon, <2>1, <2>2 DEF AbsentInv
  <2>6. DirsInv(p)' /\ StackInv(p)' /\ ResultInv(p)'
    BY Zenon, <2>1 DEF DirsInv, StackInv, ResultInv
  <2> QED BY <2>4, <2>5, <2>6 DEF ProcInv
<1> QED BY <1>3, <1>5, <1>6, <1>7, <1>8 DEF IInv

-----------------------------------------------------------------------------
(* The theorems                                                             *)

\* There is an operation for every path.
LEMMA SomeOperation == (CHOOSE o \in Operation : TRUE) \in Operation
<1>1. PICK path \in Given : TRUE
  BY OperationsAssumption
<1>2. [kind |-> "Create", path |-> path, deep |-> FALSE, version |-> AnyVersion] \in Operation
  BY DEF Operation, Kinds
<1> QED BY <1>2

\* The initial state, with an empty tree or a full one
LEMMA Initially == Init => IInv
<1> SUFFICES ASSUME Init PROVE IInv
  OBVIOUS
<1>1. PICK nodes \in Trees : tree = [path \in nodes |-> NewNode]
  BY DEF Init
<1>2. nodes \subseteq Seq(STRING) /\ <<>> \in nodes
  BY OperationsAssumption
<1>3. DOMAIN tree \subseteq Seq(STRING) /\ <<>> \in DOMAIN tree
  BY <1>1, <1>2
<1>4. At("idle") \in Place /\ At("idle").label = "idle" /\ "none" \in Results
  BY AtType DEF Labels, Results
<1>5. Types
  <2>1. op \in [Procs -> Operation] /\ at \in [Procs -> Place]
    BY <1>4, SomeOperation DEF Init
  <2>2. result \in [Procs -> Results] /\ removed \in [Procs -> SUBSET Seq(STRING)]
    BY <1>4 DEF Init
  <2> QED BY Zenon, <1>3, <2>1, <2>2 DEF Init, Types
<1>6. EnsureInv
  BY <1>3 DEF Init, EnsureInv
<1>7. ASSUME NEW p \in Procs PROVE ProcInv(p)
  <2>1. at[p].label = "idle" /\ lock # p /\ result[p] = "none"
    BY <1>4, OperationsAssumption DEF Init
  <2>2. LockInv(p) /\ AbsentInv(p) /\ DirsInv(p) /\ StackInv(p) /\ ResultInv(p)
    BY Zenon, <2>1 DEF LockInv, AbsentInv, DirsInv, StackInv, ResultInv, Busy, Conn
  <2> QED BY <2>2 DEF ProcInv
<1> QED BY <1>5, <1>6, <1>7 DEF IInv

\* The invariant is inductive.
LEMMA Preserved == IInv /\ [Next]_vars => IInv'
<1> SUFFICES ASSUME IInv, [Next]_vars PROVE IInv'
  OBVIOUS
<1>1. CASE UNCHANGED vars
  <2>1. /\ UNCHANGED <<tree, helper, started, lock, ensureFailed>>
        /\ UNCHANGED <<op, at, result, absent, removed>>
    BY <1>1 DEF vars, ensureVars
  <2>2. Types' /\ EnsureInv'
    BY Zenon, <2>1 DEF IInv, Types, EnsureInv, Exists
  <2>3. ASSUME NEW p \in Procs PROVE ProcInv(p)'
    <3>1. ProcInv(p)
      BY DEF IInv
    <3> QED BY Zenon, <2>1, <3>1, SameKeeps
  <2> QED BY <2>2, <2>3 DEF IInv
<1>2. ASSUME NEW p \in Procs, Step(p) PROVE IInv'
  <2>1. Post(p)
    BY Zenon, <1>2, EnsureKeeps, LockKeeps, MakeDirsExistsKeeps, MakeDirsCreateKeeps,
       CreateKeeps, DeleteKeeps, ListKeeps, SelfKeeps, ReadKeeps, ChangeKeeps DEF Step
  <2> QED BY <2>1, PostKeeps
<1>3. ASSUME NEW p \in Procs, Call(p) \/ CallFails(p) \/ Retry(p) PROVE IInv'
  BY <1>3, CallKeeps, CallFailsKeeps, RetryKeeps, PostKeeps
<1> QED BY <1>1, <1>2, <1>3 DEF Next

\* No goroutine calls the server for its path before the namespace is there, unless
\* the one Ensure that is made for all of them has failed (namespace.go,
\* fixForNamespace; paths.go, ensurePathHelper.Ensure).
THEOREM NamespaceFirst == Spec => []NamespaceEnsured
<1>1. IInv => NamespaceEnsured
  BY Zenon DEF IInv, ProcInv, LockInv, NamespaceEnsured
<1> QED BY <1>1, Initially, Preserved, PTL DEF Spec

\* A Delete that returns no error has seen its node go while it ran, and one that
\* deletes the children never reports that there are some (delete.go; paths.go,
\* DeleteChildren).
THEOREM DeletedForSure == Spec => []DeleteRemoves
<1>1. IInv => DeleteRemoves
  BY Zenon DEF IInv, ProcInv, ResultInv, DeleteRemoves
<1> QED BY <1>1, Initially, Preserved, PTL DEF Spec

\* ErrNoNode has its cause: a node above that was missing or was deleted, for a
\* Create with its parents only one that was deleted (paths.go, MakeDirs and
\* DeleteChildren).
THEOREM NoNodeForAReason == Spec => []NoNodeHasCause
<1>1. IInv => NoNodeHasCause
  BY Zenon DEF IInv, ProcInv, ResultInv, NoNodeHasCause
<1> QED BY <1>1, Initially, Preserved, PTL DEF Spec

-----------------------------------------------------------------------------
(* What an operation does to the tree, and who holds the lock               *)

\* The nodes that the operation of process p may delete, create and change: its own,
\* with DeletingChildrenIfNeeded those below, with CreatingParentsIfNeeded those
\* above, and the namespace while p makes it for all.
MayDelete(p, path) ==
  /\ Busy(p) /\ op[p].kind = "Delete"
  /\ path = Path(p) \/ (op[p].deep /\ Below(p, path))

MayCreate(p, path) ==
  /\ Busy(p)
  /\ IF lock = p THEN path \in Above(Namespace)
     ELSE /\ op[p].kind = "Create"
          /\ path = Path(p) \/ (op[p].deep /\ path \in Above(Path(p)))

MayChange(p, path) == Busy(p) /\ op[p].kind \in {"SetData", "SetACL"} /\ path = Path(p)

Own(p) ==
  /\ \A path \in DOMAIN tree \ DOMAIN tree' : MayDelete(p, path)
  /\ \A path \in DOMAIN tree' \ DOMAIN tree : MayCreate(p, path)
  /\ \A path \in DOMAIN tree \cap DOMAIN tree' :
       tree'[path] # tree[path] => MayChange(p, path)

\* No step changes nodes that are not the operation's own.
OwnNodes == [][\E p \in Procs : Own(p)]_vars

\* A call of the server touches one node.
LEMMA CreateIsOwn ==
  ASSUME NEW p, NEW path, MayCreate(p, path), DoCreate(path, Created(path))
  PROVE  Own(p)
<1>1. CASE Created(path) = "ok"
  <2>1. path \notin DOMAIN tree
    BY <1>1 DEF Created, Exists
  <2>2. /\ DOMAIN tree' = DOMAIN tree \cup {path}
        /\ \A q \in DOMAIN tree \cup {path} : q # path => tree'[q] = tree[q]
    BY <1>1 DEF DoCreate
  <2> QED BY <2>1, <2>2 DEF Own
<1>2. CASE Created(path) # "ok"
  BY <1>2 DEF DoCreate, Own
<1> QED BY <1>1, <1>2

LEMMA DeleteIsOwn ==
  ASSUME NEW p, NEW path, NEW r, MayDelete(p, path), DoDelete(path, r)
  PROVE  Own(p)
<1>1. CASE r = "ok"
  <2>1. /\ DOMAIN tree' = DOMAIN tree \ {path}
        /\ \A q \in DOMAIN tree \ {path} : tree'[q] = tree[q]
    BY <1>1 DEF DoDelete
  <2> QED BY <2>1 DEF Own
<1>2. CASE r # "ok"
  BY <1>2 DEF DoDelete, NoChange, Own
<1> QED BY <1>1, <1>2

LEMMA ChangeIsOwn ==
  ASSUME NEW p, NEW path, NEW field, NEW r, MayChange(p, path), DoChange(path, field, r)
  PROVE  Own(p)
<1>1. DOMAIN tree' = DOMAIN tree /\ \A q \in DOMAIN tree : q # path => tree'[q] = tree[q]
  BY DEF DoChange
<1> QED BY <1>1 DEF Own

\* The directory that MakeDirs makes is above the operation's node, or the namespace's.
LEMMA DirIsOwn ==
  ASSUME IInv, NEW p \in Procs, at[p].label = "mkdir"
  PROVE  MayCreate(p, SubPath(p))
<1>1. Types /\ ProcInv(p) /\ Busy(p)
  BY DEF IInv, Busy
<1>2. /\ at[p].dir \in 1 .. Len(LastDir(p)) /\ Len(LastDir(p)) \in Nat
      /\ lock # p => /\ SubPath(p) = SubSeq(Path(p), 1, at[p].dir)
                     /\ Len(Path(p)) = Len(LastDir(p)) + 1
  BY SubPathIs
<1>3. CASE lock = p
  <2>1. SubPath(p) = SubSeq(Namespace, 1, at[p].dir) /\ at[p].dir \in 0 .. Len(Namespace)
    BY <1>2, <1>3 DEF SubPath, LastDir
  <2> QED BY <1>1, <1>3, <2>1 DEF MayCreate, Above
<1>4. CASE lock # p
  <2>1. at[p].dir \in 0 .. Len(Path(p))
    BY <1>2, <1>4
  <2>2. op[p].kind = "Create" /\ op[p].deep
    BY <1>1, <1>4 DEF ProcInv, DirsInv
  <2> QED BY <1>1, <1>2, <1>4, <2>1, <2>2 DEF MayCreate, Above
<1> QED BY <1>3, <1>4

\* The node that DeleteChildren deletes is below the operation's.
LEMMA StackIsOwn ==
  ASSUME IInv, NEW p \in Procs, at[p].label = "deleteSelf"
  PROVE  MayDelete(p, Head(at[p].stack).path)
<1>1. /\ Busy(p) /\ op[p].kind = "Delete" /\ op[p].deep
      /\ at[p].stack \in Seq(Frames) /\ at[p].stack # <<>>
      /\ at[p].stack[Len(at[p].stack)].path = Path(p)
  BY Zenon, StackHas
<1>2. Tracked(p, at[p].stack, Known(p))
  BY Zenon, StackHas DEF Tracked
<1> DEFINE path == Head(at[p].stack).path
<1>3. \A q \in {path} \cup Head(at[p].stack).todo : Below(p, q)
  BY Zenon, <1>1, <1>2, Popped
<1>4. Below(p, path)
  BY <1>3
<1> QED BY <1>1, <1>4 DEF MayDelete

\* So every call of the server is for the operation's own nodes.
LEMMA EffectIsOwn ==
  ASSUME IInv, NEW p \in Procs, Effect(p)
  PROVE  Own(p)
<1>1. CASE at[p].label = "mkdir" /\ DoCreate(SubPath(p), Created(SubPath(p)))
  BY Zenon, <1>1, DirIsOwn, CreateIsOwn
<1>2. CASE Creates(p) /\ DoCreate(Path(p), Created(Path(p)))
  <2>1. at[p].label \in Conn \ {"exists", "mkdir"}
    BY <1>2 DEF Creates, Requests, Conn
  <2>2. op[p].kind = "Create" /\ Busy(p) /\ lock # p
    BY Zenon, <1>2, <2>1, RequestHas DEF Creates, Requests, ProcInv, DirsInv
  <2> QED BY Zenon, <1>2, <2>2, CreateIsOwn DEF MayCreate
<1>3. CASE Requests(p, "Delete") /\ DoDelete(Path(p), Deleted(Path(p), op[p].version))
  <2>1. MayDelete(p, Path(p))
    BY <1>3 DEF Requests, MayDelete, Busy
  <2> QED BY Zenon, <1>3, <2>1, DeleteIsOwn
<1>4. CASE /\ at[p].label = "deleteSelf"
           /\ LET path == Head(at[p].stack).path IN DoDelete(path, Deleted(path, AnyVersion))
  BY Zenon, <1>4, StackIsOwn, DeleteIsOwn
<1>5. ASSUME NEW kind \in {"SetData", "SetACL"}, Requests(p, kind), NEW field,
             DoChange(Path(p), field, Changed(Path(p), field, op[p].version))
      PROVE  Own(p)
  <2>1. MayChange(p, Path(p))
    BY <1>5 DEF Requests, MayChange, Busy
  <2> QED BY Zenon, <1>5, <2>1, ChangeIsOwn
<1> QED BY Zenon, <1>1, <1>2, <1>3, <1>4, <1>5 DEF Effect

\* A step that changes the tree is a call of the server.
LEMMA StepHasEffect ==
  ASSUME NEW p \in Procs, Step(p) \/ Call(p) \/ CallFails(p) \/ Retry(p)
  PROVE  Effect(p) \/ UNCHANGED tree
<1>1. CASE \/ Ensure(p) \/ Lock(p) \/ MakeDirsExists(p) \/ DeleteChildrenList(p)
           \/ CheckExists(p) \/ GetData(p) \/ GetChildren(p) \/ GetACL(p) \/ Sync(p)
  BY Zenon, <1>1 DEF Ensure, Lock, MakeDirsExists, DeleteChildrenList, CheckExists, GetData,
                     GetChildren, GetACL, Sync, NoChange
<1>2. CASE MakeDirsCreate(p) \/ Create(p) \/ Delete(p) \/ DeleteChildrenSelf(p)
  BY Zenon, <1>2 DEF MakeDirsCreate, Create, Delete, DeleteChildrenSelf, Effect
<1>3. CASE SetData(p) \/ SetACL(p)
  BY Zenon, <1>3 DEF SetData, SetACL, Effect
<1>4. CASE Call(p) \/ CallFails(p) \/ Retry(p)
  BY Zenon, <1>4 DEF Call, CallFails, Retry, NoChange
<1> QED BY Zenon, <1>1, <1>2, <1>3, <1>4 DEF Step

\* An operation deletes, creates and changes no node but its own: a Delete with the
\* children nothing that is not below its path, however the children come and go
\* under it, a Create with the parents nothing that is not above, and a retry or a
\* failure nothing else either (paths.go, DeleteChildren and MakeDirs; delete.go,
\* create.go, data.go, acl.go).
THEOREM StaysWithinItsPath == Spec => OwnNodes
<1>1. IInv /\ [Next]_vars => [\E p \in Procs : Own(p)]_vars
  <2> SUFFICES ASSUME IInv, Next PROVE \E p \in Procs : Own(p)
    OBVIOUS
  <2>1. PICK p \in Procs : Step(p) \/ Call(p) \/ CallFails(p) \/ Retry(p)
    BY DEF Next
  <2>2. CASE UNCHANGED tree
    BY <2>2 DEF Own
  <2>3. CASE Effect(p)
    BY Zenon, <2>3, EffectIsOwn
  <2> QED BY Zenon, <2>1, <2>2, <2>3, StepHasEffect
<1> QED BY <1>1, Initially, Preserved, PTL DEF Spec, OwnNodes

\* The lock of the shared EnsurePath is held only by a goroutine that makes the
\* namespace's directories, which waits for nobody.
LockIsInUse ==
  lock # NoProc =>
    /\ lock \in Procs /\ at[lock].label \in {"exists", "mkdir"}
    /\ at[lock].dir \in 1 .. Len(Namespace)

\* The lock is never left behind: who holds it is on its way through MakeDirs, also
\* after errors and retries (paths.go, ensurePathHelper.Ensure).  This is what
\* OperationsEnd needs of the one step of an operation that can wait.
THEOREM LockNeverLeft == Spec => []LockIsInUse
<1>1. IInv => LockIsInUse
  BY Zenon DEF IInv, Types, ProcInv, LockInv, LockIsInUse
<1> QED BY <1>1, Initially, Preserved, PTL DEF Spec

-----------------------------------------------------------------------------
(* The types, and how DeleteChildren goes down the tree                     *)

\* Each call in a stack is for a child of the next one's node, and so are the
\* children that a call has left.
Descends(stack) ==
  /\ \A i \in 1 .. Len(stack) :
       \A child \in stack[i].todo : child \in Paths /\ Parent(child) = stack[i].path
  /\ \A i \in 1 .. Len(stack) - 1 : Parent(stack[i].path) = stack[i + 1].path

\* Only MakeDirs is at a directory, and only DeleteChildren has a stack.
GoodPlace(place) ==
  /\ Descends(place.stack)
  /\ place.label \notin {"children", "deleteSelf"} => place.stack = <<>>
  /\ place.label \notin {"exists", "mkdir"} => place.dir = 0

Placed(p) == \E place : GoodPlace(place) /\ at' = [at EXCEPT ![p] = place]

\* The server and the counters
WorldTypes ==
  /\ tree \in [DOMAIN tree -> [data : Nat, acl : Nat]] /\ DOMAIN tree \subseteq Paths
  /\ removed \in [Procs -> SUBSET Paths]
  /\ calls \in 0 .. MaxCalls /\ faults \in 0 .. MaxFaults

TypeInv == WorldTypes /\ \A p \in Procs : GoodPlace(at[p])

\* Places without a stack
LEMMA NoneDescends == Descends(<<>>)
BY DEF Descends

LEMMA GoodAt ==
  ASSUME NEW label \in Labels \ {"exists", "mkdir"}
  PROVE  GoodPlace(At(label))
<1>1. At(label).stack = <<>> /\ At(label).dir = 0
  BY DEF At
<1> QED BY Zenon, <1>1, NoneDescends DEF GoodPlace

LEMMA GoodDir ==
  ASSUME NEW n
  PROVE  GoodPlace(AtDir(n))
<1>1. AtDir(n).stack = <<>> /\ AtDir(n).label = "exists"
  BY DEF AtDir, At
<1> QED BY Zenon, <1>1, NoneDescends DEF GoodPlace

LEMMA GoodStack ==
  ASSUME NEW stack, NEW label \in {"children", "deleteSelf"}, Descends(stack)
  PROVE  GoodPlace(AtStack(label, stack))
<1>1. /\ AtStack(label, stack).stack = stack /\ AtStack(label, stack).dir = 0
      /\ AtStack(label, stack).label = label
  BY DEF AtStack, At
<1> QED BY Zenon, <1>1 DEF GoodPlace

\* A call put in front of others
LEMMA DescendsPush ==
  ASSUME NEW a \in Frames, NEW s \in Seq(Frames), Descends(s),
         s # <<>> => Parent(a.path) = s[1].path,
         \A child \in a.todo : child \in Paths /\ Parent(child) = a.path
  PROVE  /\ <<a>> \o s \in Seq(Frames) /\ <<a>> \o s # <<>> /\ (<<a>> \o s)[1] = a
         /\ Descends(<<a>> \o s)
<1> DEFINE t == <<a>> \o s
<1>1. <<a>> \in Seq(Frames) /\ Len(<<a>>) = 1 /\ <<a>>[1] = a
  OBVIOUS
<1>2. Len(s) \in Nat /\ (s # <<>> => Len(s) # 0) /\ (s = <<>> => Len(s) = 0)
  BY EmptySeq, LenProperties
<1>3. /\ t \in Seq(Frames) /\ Len(t) = 1 + Len(s)
      /\ \A i \in 1 .. 1 + Len(s) : t[i] = IF i <= 1 THEN <<a>>[i] ELSE s[i - 1]
  BY <1>1, ConcatProperties
<1> HIDE DEF t
<1>4. t[1] = a /\ t # <<>>
  BY <1>1, <1>2, <1>3, EmptySeq
<1>5. \A i \in 2 .. Len(t) : t[i] = s[i - 1] /\ i - 1 \in 1 .. Len(s)
  BY <1>2, <1>3
<1>6. ASSUME NEW i \in 1 .. Len(t), NEW child \in t[i].todo
      PROVE  child \in Paths /\ Parent(child) = t[i].path
  <2>1. CASE i = 1
    BY <1>4, <1>6, <2>1
  <2>2. CASE i # 1
    <3>1. i \in 2 .. Len(t)
      BY <1>2, <1>3, <2>2
    <3>2. t[i] = s[i - 1] /\ i - 1 \in 1 .. Len(s)
      BY <1>5, <3>1
    <3> QED BY Zenon, <1>6, <3>2 DEF Descends
  <2> QED BY <2>1, <2>2
<1>7. ASSUME NEW i \in 1 .. Len(t) - 1 PROVE Parent(t[i].path) = t[i + 1].path
  <2>1. i + 1 \in 2 .. Len(t) /\ i + 1 - 1 = i
    BY <1>2, <1>3
  <2>2. t[i + 1] = s[i] /\ i \in 1 .. Len(s)
    BY <1>5, <2>1
  <2>3. CASE i = 1
    BY <1>2, <1>4, <2>2, <2>3
  <2>4. CASE i # 1
    <3>1. i \in 2 .. Len(t) /\ i - 1 \in 1 .. Len(s) - 1 /\ i - 1 + 1 = i
      BY <1>2, <1>3, <2>2, <2>4
    <3>2. t[i] = s[i - 1]
      BY <1>5, <3>1
    <3>3. Parent(s[i - 1].path) = s[i - 1 + 1].path
      BY <3>1 DEF Descends
    <3> QED BY <2>2, <3>1, <3>2, <3>3
  <2> QED BY <2>3, <2>4
<1> QED BY <1>3, <1>4, <1>6, <1>7 DEF Descends, t

\* The stack without its innermost call, and that call
LEMMA DescendsTail ==
  ASSUME NEW s \in Seq(Frames), s # <<>>, Descends(s)
  PROVE  /\ Tail(s) \in Seq(Frames) /\ Head(s) \in Frames /\ Descends(Tail(s))
         /\ Tail(s) # <<>> => Parent(Head(s).path) = Tail(s)[1].path
         /\ \A child \in Head(s).todo : child \in Paths /\ Parent(child) = Head(s).path
<1>1. Len(s) \in Nat \ {0}
  BY EmptySeq
<1>2. /\ Tail(s) \in Seq(Frames) /\ Head(s) \in Frames /\ Len(Tail(s)) = Len(s) - 1
      /\ \A i \in 1 .. Len(Tail(s)) : Tail(s)[i] = s[i + 1]
      /\ Head(s) = s[1]
  BY HeadTailProperties
<1>3. /\ 1 \in 1 .. Len(s)
      /\ \A i \in 1 .. Len(Tail(s)) : i + 1 \in 1 .. Len(s)
      /\ \A i \in 1 .. Len(Tail(s)) - 1 :
           i \in 1 .. Len(Tail(s)) /\ i + 1 \in 1 .. Len(Tail(s)) /\ i + 1 \in 1 .. Len(s) - 1
  BY <1>1, <1>2
<1>4. Descends(Tail(s))
  BY <1>2, <1>3 DEF Descends
<1>5. Tail(s) # <<>> => Parent(Head(s).path) = Tail(s)[1].path
  <2>1. Tail(s) # <<>> => 1 \in 1 .. Len(Tail(s)) /\ 1 \in 1 .. Len(s) - 1
    BY <1>1, <1>2, EmptySeq
  <2> QED BY <1>2, <2>1 DEF Descends
<1>6. \A child \in Head(s).todo : child \in Paths /\ Parent(child) = Head(s).path
  BY <1>2, <1>3 DEF Descends
<1> QED BY <1>2, <1>4, <1>5, <1>6

\* Two calls in front of others, one after the other
LEMMA TwoInFront ==
  ASSUME NEW a \in Frames, NEW b \in Frames, NEW s \in Seq(Frames)
  PROVE  <<a, b>> \o s = <<a>> \o (<<b>> \o s)
<1>1. /\ <<a, b>> \in Seq(Frames) /\ Len(<<a, b>>) = 2 /\ <<a, b>>[1] = a /\ <<a, b>>[2] = b
      /\ <<a>> \in Seq(Frames) /\ Len(<<a>>) = 1 /\ <<a>>[1] = a
      /\ <<b>> \in Seq(Frames) /\ Len(<<b>>) = 1 /\ <<b>>[1] = b
  OBVIOUS
<1> DEFINE t == <<b>> \o s
           u == <<a>> \o t
           v == <<a, b>> \o s
<1>2. /\ t \in Seq(Frames) /\ Len(t) = 1 + Len(s) /\ Len(s) \in Nat
      /\ \A i \in 1 .. 1 + Len(s) : t[i] = IF i <= 1 THEN <<b>>[i] ELSE s[i - 1]
  BY <1>1, ConcatProperties, LenProperties
<1>3. /\ v \in Seq(Frames) /\ Len(v) = 2 + Len(s)
      /\ \A i \in 1 .. 2 + Len(s) : v[i] = IF i <= 2 THEN <<a, b>>[i] ELSE s[i - 2]
  BY <1>1, ConcatProperties
<1> HIDE DEF t, v
<1>4. /\ u \in Seq(Frames) /\ Len(u) = 1 + Len(t)
      /\ \A i \in 1 .. 1 + Len(t) : u[i] = IF i <= 1 THEN <<a>>[i] ELSE t[i - 1]
  BY <1>1, <1>2, ConcatProperties
<1> HIDE DEF u
<1>5. ASSUME NEW i \in 1 .. Len(v) PROVE v[i] = u[i]
  <2>1. CASE i = 1
    BY <1>1, <1>2, <1>3, <1>4, <2>1
  <2>2. CASE i = 2
    BY <1>1, <1>2, <1>3, <1>4, <2>2
  <2>3. CASE i > 2
    <3>1. i - 1 \in 1 .. 1 + Len(s) /\ i - 1 > 1 /\ i - 1 - 1 = i - 2
      BY <1>2, <1>3, <2>3
    <3>2. t[i - 1] = s[i - 2]
      BY <1>2, <3>1
    <3>3. v[i] = s[i - 2]
      BY <1>2, <1>3, <2>3
    <3>4. i \in 1 .. 1 + Len(t) /\ ~(i <= 1)
      BY <1>2, <1>3, <2>3
    <3>5. u[i] = t[i - 1]
      BY <1>4, <3>4
    <3> QED BY <3>2, <3>3, <3>5
  <2> QED BY <1>2, <1>3, <2>1, <2>2, <2>3
<1>6. Len(v) = Len(u)
  BY <1>2, <1>3, <1>4
<1> QED BY <1>3, <1>4, <1>5, <1>6, SeqEqual DEF t, u, v

\* Where a process goes
LEMMA GotoPlaced ==
  ASSUME NEW p, NEW place, GoodPlace(place), Goto(p, place)
  PROVE  Placed(p)
BY DEF Goto, Placed

LEMMA GotoAtPlaced ==
  ASSUME NEW p, NEW label \in Labels \ {"exists", "mkdir"}, Goto(p, At(label))
  PROVE  Placed(p)
BY Zenon, GoodAt, GotoPlaced

LEMMA FinishPlaced ==
  ASSUME NEW p, NEW r, Finish(p, r)
  PROVE  Placed(p)
<1>1. GoodPlace(At("idle"))
  BY GoodAt DEF Labels
<1> QED BY <1>1 DEF Finish, Placed

LEMMA EnsuredPlaced ==
  ASSUME NEW p, NEW ok, Ensured(p, ok)
  PROVE  Placed(p)
<1>1. "request" \in Labels \ {"exists", "mkdir"}
  BY DEF Labels, Conn
<1> QED BY Zenon, <1>1, GotoAtPlaced DEF Ensured

LEMMA FailsPlaced ==
  ASSUME NEW p, NEW err, Fails(p, err)
  PROVE  Placed(p)
BY Zenon, EnsuredPlaced, FinishPlaced DEF Fails

LEMMA NextDirPlaced ==
  ASSUME NEW p, NextDir(p)
  PROVE  Placed(p)
<1>1. "again" \in Labels \ {"exists", "mkdir"}
  BY DEF Labels, Conn
<1> QED BY Zenon, <1>1, GoodDir, GotoPlaced, GotoAtPlaced, EnsuredPlaced DEF NextDir

\* DeleteChildren calls itself for a child of its node, or goes to its own node.
LEMMA DescendPlaced ==
  ASSUME NEW p, NEW outer \in Seq(Frames), NEW path \in Seq(STRING),
         NEW todo \in SUBSET Seq(STRING), Descend(p, outer, path, todo), Descends(outer),
         outer # <<>> => Parent(path) = outer[1].path,
         \A child \in todo : child \in Paths /\ Parent(child) = path
  PROVE  Placed(p)
<1>1. CASE todo = {} /\ Goto(p, AtStack("deleteSelf", <<Frame(path, {})>> \o outer))
  <2> DEFINE a == Frame(path, {})
  <2>1. a \in Frames /\ a.path = path /\ a.todo = {}
    BY Zenon, FrameType
  <2> HIDE DEF a
  <2>2. Descends(<<a>> \o outer)
    BY Zenon, <2>1, DescendsPush
  <2> QED BY Zenon, <1>1, <2>2, GoodStack, GotoPlaced DEF a
<1>2. ASSUME NEW child \in todo,
             Goto(p, AtStack("children",
                    <<Frame(child, {}), Frame(path, todo \ {child})>> \o outer))
      PROVE  Placed(p)
  <2> DEFINE a == Frame(child, {})
             b == Frame(path, todo \ {child})
             inner == <<b>> \o outer
  <2>1. /\ a \in Frames /\ a.path = child /\ a.todo = {}
        /\ b \in Frames /\ b.path = path /\ b.todo = todo \ {child}
    BY Zenon, FrameType
  <2>2. Goto(p, AtStack("children", <<a, b>> \o outer))
    BY Zenon, <1>2
  <2> HIDE DEF a, b
  <2>3. inner \in Seq(Frames) /\ inner[1] = b /\ Descends(inner)
    BY Zenon, <2>1, DescendsPush
  <2>4. <<a, b>> \o outer = <<a>> \o inner
    BY Zenon, <2>1, TwoInFront
  <2> HIDE DEF inner
  <2>5. Parent(a.path) = inner[1].path
    BY Zenon, <1>2, <2>1, <2>3
  <2>6. Descends(<<a>> \o inner)
    BY Zenon, <2>1, <2>3, <2>5, DescendsPush
  <2>7. GoodPlace(AtStack("children", <<a>> \o inner))
    BY Zenon, <2>6, GoodStack
  <2> QED BY Zenon, <2>2, <2>4, <2>7, GotoPlaced
<1> QED BY Zenon, <1>1, <1>2 DEF Descend

\* DeleteChildren
LEMMA DeletePlaced ==
  ASSUME IInv, NEW p \in Procs, GoodPlace(at[p]), DOMAIN tree \subseteq Paths,
         Delete(p) \/ DeleteChildrenList(p) \/ DeleteChildrenSelf(p)
  PROVE  Placed(p)
<1> DEFINE stack == at[p].stack
           path == Head(stack).path
           outer == Tail(stack)
<1>1. CASE Delete(p)
  <2>1. CASE Goto(p, AtStack("children", <<Frame(Path(p), {})>>))
    <3> DEFINE a == Frame(Path(p), {})
    <3>1. a.todo = {}
      BY DEF Frame
    <3> HIDE DEF a
    <3>2. Descends(<<a>>)
      BY <3>1 DEF Descends
    <3> QED BY Zenon, <2>1, <3>2, GoodStack, GotoPlaced DEF a
  <2>2. CASE \E r : Finish(p, r)
    BY Zenon, <2>2, FinishPlaced
  <2> QED BY Zenon, <1>1, <2>1, <2>2 DEF Delete
<1>2. ASSUME at[p].label \in {"children", "deleteSelf"}
      PROVE  /\ Types /\ stack \in Seq(Frames) /\ stack # <<>> /\ Descends(stack)
             /\ outer \in Seq(Frames) /\ path \in Seq(STRING) /\ Descends(outer)
             /\ outer # <<>> => Parent(path) = outer[1].path
  <2>1. Types /\ stack \in Seq(Frames) /\ stack # <<>>
    BY Zenon, <1>2, StackHas
  <2>2. Descends(stack)
    BY DEF GoodPlace
  <2> HIDE DEF stack
  <2>3. /\ outer \in Seq(Frames) /\ Head(stack) \in Frames /\ Descends(outer)
        /\ outer # <<>> => Parent(path) = outer[1].path
    BY Zenon, <2>1, <2>2, DescendsTail
  <2>4. path \in Seq(STRING)
    BY <2>3 DEF Frames
  <2> QED BY Zenon, <2>1, <2>2, <2>3, <2>4
<1>3. CASE DeleteChildrenList(p)
  <2>1. CASE Finish(p, "NoNode")
    BY Zenon, <2>1, FinishPlaced
  <2>2. CASE at[p].label = "children" /\ Descend(p, outer, path, Children(path))
    <3>1. \A child \in Children(path) : child \in DOMAIN tree /\ Parent(child) = path
      BY DEF Children
    <3>2. Children(path) \in SUBSET Seq(STRING)
      BY <1>2, <2>2, <3>1 DEF Types
    <3>3. \A child \in Children(path) : child \in Paths /\ Parent(child) = path
      BY <3>1
    <3> HIDE DEF path, outer
    <3> QED BY Zenon, <1>2, <2>2, <3>2, <3>3, DescendPlaced
  <2> QED BY Zenon, <1>3, <2>1, <2>2 DEF DeleteChildrenList
<1>4. CASE DeleteChildrenSelf(p)
  <2>1. CASE Finish(p, "ok")
    BY Zenon, <2>1, FinishPlaced
  <2>2. CASE at[p].label = "deleteSelf" /\ Goto(p, AtStack("children", stack))
    BY Zenon, <1>2, <2>2, GoodStack, GotoPlaced
  <2>3. CASE /\ at[p].label = "deleteSelf" /\ outer # <<>>
             /\ Descend(p, Tail(outer), Head(outer).path, Head(outer).todo)
    <3>1. outer \in Seq(Frames) /\ outer # <<>> /\ Descends(outer)
      BY Zenon, <1>2, <2>3
    <3>2. Descend(p, Tail(outer), Head(outer).path, Head(outer).todo)
      BY <2>3
    <3> HIDE DEF outer
    <3>3. /\ Tail(outer) \in Seq(Frames) /\ Head(outer) \in Frames /\ Descends(Tail(outer))
          /\ Tail(outer) # <<>> => Parent(Head(outer).path) = Tail(outer)[1].path
          /\ \A child \in Head(outer).todo : child \in Paths /\ Parent(child) = Head(outer).path
      BY Zenon, <3>1, DescendsTail
    <3>4. Head(outer).path \in Seq(STRING) /\ Head(outer).todo \in SUBSET Seq(STRING)
      BY <3>3 DEF Frames
    <3> QED BY Zenon, <3>2, <3>3, <3>4, DescendPlaced
  <2> QED BY Zenon, <1>4, <2>1, <2>2, <2>3 DEF DeleteChildrenSelf
<1> QED BY Zenon, <1>1, <1>3, <1>4

\* Every step takes its process to such a place.
LEMMA StepPlaced ==
  ASSUME IInv, TypeInv, NEW p \in Procs, Step(p) \/ Call(p) \/ CallFails(p) \/ Retry(p)
  PROVE  Placed(p)
<1>0. GoodPlace(at[p]) /\ DOMAIN tree \subseteq Paths
  BY DEF TypeInv, WorldTypes
<1>1. {"request", "ensure", "helper", "lock", "panicked"} \subseteq Labels \ {"exists", "mkdir"}
  BY DEF Labels, Conn
<1>2. CASE Ensure(p) \/ Lock(p)
  BY Zenon, <1>1, <1>2, GotoAtPlaced, GoodDir, GotoPlaced DEF Ensure, Lock
<1>3. CASE MakeDirsExists(p)
  <2>1. CASE at[p].label = "exists" /\ Goto(p, [at[p] EXCEPT !.label = "mkdir"])
    <3> DEFINE place == [at[p] EXCEPT !.label = "mkdir"]
    <3>1. at[p] \in Place
      BY DEF IInv, Types
    <3>2. place.label = "mkdir" /\ place.stack = at[p].stack
      BY <3>1 DEF Place
    <3> HIDE DEF place
    <3>3. GoodPlace(place)
      BY Zenon, <1>0, <2>1, <3>2 DEF GoodPlace
    <3> QED BY Zenon, <2>1, <3>3, GotoPlaced DEF place
  <2> QED BY Zenon, <1>3, <2>1, NextDirPlaced DEF MakeDirsExists
<1>4. CASE MakeDirsCreate(p)
  BY Zenon, <1>4, NextDirPlaced, FailsPlaced DEF MakeDirsCreate
<1>5. CASE Create(p)
  BY Zenon, <1>5, GoodDir, GotoPlaced, FinishPlaced DEF Create
<1>6. CASE Delete(p) \/ DeleteChildrenList(p) \/ DeleteChildrenSelf(p)
  BY Zenon, <1>0, <1>6, DeletePlaced
<1>7. CASE \/ CheckExists(p) \/ GetData(p) \/ SetData(p) \/ GetChildren(p)
           \/ GetACL(p) \/ SetACL(p) \/ Sync(p)
  BY Zenon, <1>7, FinishPlaced
     DEF CheckExists, GetData, SetData, GetChildren, GetACL, SetACL, Sync
<1>8. CASE Call(p)
  <2>1. GoodPlace(At(IF Namespace = <<>> THEN "request" ELSE "ensure"))
    BY Zenon, <1>1, GoodAt
  <2> QED BY Zenon, <1>8, <2>1 DEF Call, Placed
<1>9. CASE CallFails(p)
  BY Zenon, <1>9, FailsPlaced DEF CallFails
<1>10. CASE Retry(p)
  BY Zenon, <1>1, <1>10, GoodDir, GoodAt, GotoPlaced DEF Retry
<1> QED BY Zenon, <1>2, <1>3, <1>4, <1>5, <1>6, <1>7, <1>8, <1>9, <1>10 DEF Step

\* The nodes that MakeDirs and Create make are among the paths.
LEMMA AboveArePaths ==
  ASSUME Types, NEW p \in Procs
  PROVE  Above(Path(p)) \subseteq Paths /\ Above(Namespace) \subseteq Paths /\ Path(p) \in Paths
<1>1. op[p].path \in Given
  BY OperationType DEF Types
<1>2. Above(Path(p)) \subseteq Paths
  <2> DEFINE All == {Above(fixForNamespace(path)) : path \in Given}
  <2>1. Above(Path(p)) \in All
    BY <1>1 DEF Path
  <2>2. Paths = (UNION Trees) \cup (UNION All)
    BY DEF Paths
  <2> HIDE DEF All
  <2> QED BY <2>1, <2>2
<1>3. /\ Path(p) \in Seq(STRING) /\ Namespace \in Seq(STRING)
      /\ Len(Path(p)) \in Nat /\ Len(Namespace) \in Nat /\ Len(Path(p)) > Len(Namespace)
  BY PathType
<1>4. SubSeq(Path(p), 1, Len(Namespace)) = Namespace
  BY Zenon, <1>1, Fixed DEF Path
<1>5. Above(Namespace) \subseteq Above(Path(p))
  <2> SUFFICES ASSUME NEW n \in 0 .. Len(Namespace)
               PROVE  SubSeq(Namespace, 1, n) \in Above(Path(p))
    BY DEF Above
  <2>1. Len(Namespace) \in 0 .. Len(Path(p)) /\ n \in 0 .. Len(Path(p))
    BY <1>3
  <2>2. SubSeq(Namespace, 1, n) = SubSeq(Path(p), 1, n)
    BY Zenon, <1>3, <1>4, <2>1, FirstOfFirst
  <2> QED BY <2>1, <2>2 DEF Above
<1>6. Path(p) \in Above(Path(p))
  BY <1>3, AboveItself
<1> QED BY <1>2, <1>5, <1>6

\* What a call of the server leaves: the tree and what is noted of it
LEMMA CreateTypes ==
  ASSUME WorldTypes, NEW path \in Paths, NEW r, DoCreate(path, r)
  PROVE  /\ tree' \in [DOMAIN tree' -> [data : Nat, acl : Nat]] /\ DOMAIN tree' \subseteq Paths
         /\ removed' \in [Procs -> SUBSET Paths]
<1>1. NewNode \in [data : Nat, acl : Nat]
  BY DEF NewNode
<1>2. CASE r = "ok"
  <2>1. tree' = [q \in DOMAIN tree \cup {path} |-> IF q = path THEN NewNode ELSE tree[q]]
    BY <1>2 DEF DoCreate
  <2> QED BY <1>1, <2>1 DEF WorldTypes, DoCreate
<1>3. CASE r # "ok"
  BY <1>3 DEF WorldTypes, DoCreate
<1> QED BY <1>2, <1>3

LEMMA DeleteTypes ==
  ASSUME WorldTypes, NEW path, NEW version, DoDelete(path, Deleted(path, version))
  PROVE  /\ tree' \in [DOMAIN tree' -> [data : Nat, acl : Nat]] /\ DOMAIN tree' \subseteq Paths
         /\ removed' \in [Procs -> SUBSET Paths]
<1>1. CASE Deleted(path, version) = "ok"
  <2>1. path \in Paths
    BY <1>1 DEF Deleted, Changed, Got, Exists, WorldTypes
  <2>2. tree' = [q \in DOMAIN tree \ {path} |-> tree[q]]
    BY <1>1 DEF DoDelete
  <2>3. removed' = [p \in Procs |->
                      IF Busy(p) /\ (path \in Above(Path(p)) \/ Path(p) \in Above(path))
                      THEN removed[p] \cup {path} ELSE removed[p]]
    BY <1>1 DEF DoDelete
  <2>4. removed' \in [Procs -> SUBSET Paths]
    BY <2>1, <2>3 DEF WorldTypes
  <2> QED BY <2>2, <2>4 DEF WorldTypes
<1>2. CASE Deleted(path, version) # "ok"
  BY <1>2 DEF WorldTypes, DoDelete, NoChange
<1> QED BY <1>1, <1>2

LEMMA ChangeTypes ==
  ASSUME WorldTypes, NEW path, NEW field \in {"data", "acl"}, NEW version,
         DoChange(path, field, Changed(path, field, version))
  PROVE  /\ tree' \in [DOMAIN tree' -> [data : Nat, acl : Nat]] /\ DOMAIN tree' \subseteq Paths
         /\ removed' \in [Procs -> SUBSET Paths]
<1>1. CASE Changed(path, field, version) = "ok"
  <2>1. path \in DOMAIN tree
    BY <1>1 DEF Changed, Got, Exists
  <2>2. tree[path] \in [data : Nat, acl : Nat]
    BY <2>1 DEF WorldTypes
  <2>3. [tree[path] EXCEPT ![field] = @ + 1] \in [data : Nat, acl : Nat]
    BY <2>2
  <2>4. tree' = [tree EXCEPT ![path] = [tree[path] EXCEPT ![field] = @ + 1]]
    BY <1>1 DEF DoChange
  <2> QED BY <2>1, <2>3, <2>4 DEF WorldTypes, DoChange
<1>2. CASE Changed(path, field, version) # "ok"
  BY <1>2 DEF WorldTypes, DoChange
<1> QED BY <1>1, <1>2

LEMMA EffectTypes ==
  ASSUME IInv, WorldTypes, NEW p \in Procs, Effect(p)
  PROVE  /\ tree' \in [DOMAIN tree' -> [data : Nat, acl : Nat]] /\ DOMAIN tree' \subseteq Paths
         /\ removed' \in [Procs -> SUBSET Paths]
<1>1. Types
  BY DEF IInv
<1>2. /\ Above(Path(p)) \subseteq Paths /\ Above(Namespace) \subseteq Paths /\ Path(p) \in Paths
  BY <1>1, AboveArePaths
<1>3. CASE at[p].label = "mkdir" /\ DoCreate(SubPath(p), Created(SubPath(p)))
  <2>1. SubPath(p) \in Paths
    BY Zenon, <1>2, <1>3, DirIsOwn DEF MayCreate
  <2> QED BY Zenon, <1>3, <2>1, CreateTypes
<1>4. CASE DoCreate(Path(p), Created(Path(p)))
  BY Zenon, <1>2, <1>4, CreateTypes
<1>5. CASE \E path, version : DoDelete(path, Deleted(path, version))
  BY Zenon, <1>5, DeleteTypes
<1>6. CASE \E field \in {"data", "acl"} :
             DoChange(Path(p), field, Changed(Path(p), field, op[p].version))
  BY Zenon, <1>6, ChangeTypes
<1> QED BY Zenon, <1>3, <1>4, <1>5, <1>6 DEF Effect

\* A step changes the tree and what is noted of it by a call of the server; the start
\* of an operation forgets what was noted of the last.
LEMMA StepTypes ==
  ASSUME IInv, WorldTypes, NEW p \in Procs, Step(p) \/ Call(p) \/ CallFails(p) \/ Retry(p)
  PROVE  WorldTypes'
<1> DEFINE Server ==
      /\ tree' \in [DOMAIN tree' -> [data : Nat, acl : Nat]] /\ DOMAIN tree' \subseteq Paths
      /\ removed' \in [Procs -> SUBSET Paths]
<1>1. Effect(p) => Server
  BY Zenon, EffectTypes
<1>2. NoChange => Server
  BY Zenon DEF NoChange, WorldTypes
<1> HIDE DEF Server
<1>3. ASSUME Step(p) PROVE Server /\ UNCHANGED <<calls, faults>>
  <2>1. CASE \/ Ensure(p) \/ Lock(p) \/ MakeDirsExists(p) \/ DeleteChildrenList(p)
             \/ CheckExists(p) \/ GetData(p) \/ GetChildren(p) \/ GetACL(p) \/ Sync(p)
    BY Zenon, <1>2, <2>1
       DEF Ensure, Lock, MakeDirsExists, DeleteChildrenList, CheckExists, GetData,
           GetChildren, GetACL, Sync, NoChange, Rest
  <2>2. CASE MakeDirsCreate(p) \/ Create(p) \/ Delete(p) \/ DeleteChildrenSelf(p)
    BY Zenon, <1>1, <2>2 DEF MakeDirsCreate, Create, Delete, DeleteChildrenSelf, Effect, Rest
  <2>3. CASE SetData(p) \/ SetACL(p)
    BY Zenon, <1>1, <2>3 DEF SetData, SetACL, Effect, Rest
  <2> QED BY Zenon, <1>3, <2>1, <2>2, <2>3 DEF Step
<1>4. ASSUME Call(p) PROVE Server
  <2>1. removed' = [removed EXCEPT ![p] = {}] /\ tree' = tree
    BY <1>4 DEF Call
  <2> QED BY <2>1 DEF Server, WorldTypes
<1>5. ASSUME CallFails(p) \/ Retry(p) PROVE Server
  BY Zenon, <1>1, <1>2, <1>5 DEF CallFails, Retry
<1>6. Server
  BY <1>3, <1>4, <1>5
<1>7. calls' \in 0 .. MaxCalls /\ faults' \in 0 .. MaxFaults
  <2>1. calls \in 0 .. MaxCalls /\ faults \in 0 .. MaxFaults /\ MaxCalls \in Nat /\ MaxFaults \in Nat
    BY OperationsAssumption DEF WorldTypes
  <2>2. CASE Step(p)
    BY <1>3, <2>1, <2>2
  <2>3. CASE Call(p)
    BY <2>1, <2>3 DEF Call
  <2>4. CASE CallFails(p) \/ Retry(p)
    <3>1. calls' = calls /\ faults < MaxFaults /\ faults' = faults + 1
      BY Zenon, <2>4 DEF CallFails, Retry
    <3> QED BY <2>1, <3>1
  <2> QED BY <2>2, <2>3, <2>4
<1> QED BY Zenon, <1>6, <1>7 DEF Server, WorldTypes

\* The invariant of the types is inductive.
LEMMA TypeInvInitially == Init => TypeInv
<1> SUFFICES ASSUME Init PROVE TypeInv
  OBVIOUS
<1>1. PICK nodes \in Trees : tree = [path \in nodes |-> NewNode]
  BY DEF Init
<1>2. DOMAIN tree = nodes /\ nodes \subseteq Paths /\ NewNode \in [data : Nat, acl : Nat]
  BY <1>1 DEF Paths, NewNode
<1>3. tree \in [DOMAIN tree -> [data : Nat, acl : Nat]]
  BY <1>1, <1>2
<1>4. /\ removed \in [Procs -> SUBSET Paths]
      /\ calls \in 0 .. MaxCalls /\ faults \in 0 .. MaxFaults
  BY OperationsAssumption DEF Init
<1>5. "idle" \in Labels \ {"exists", "mkdir"}
  BY DEF Labels
<1>6. \A p \in Procs : at[p] = At("idle")
  BY DEF Init
<1> QED BY Zenon, <1>2, <1>3, <1>4, <1>5, <1>6, GoodAt DEF TypeInv, WorldTypes

LEMMA TypeInvPreserved == IInv /\ TypeInv /\ [Next]_vars => TypeInv'
<1> SUFFICES ASSUME IInv, TypeInv, [Next]_vars PROVE TypeInv'
  OBVIOUS
<1>1. CASE UNCHANGED vars
  BY Zenon, <1>1 DEF vars, TypeInv, WorldTypes
<1>2. ASSUME NEW p \in Procs, Step(p) \/ Call(p) \/ CallFails(p) \/ Retry(p) PROVE TypeInv'
  <2>1. WorldTypes'
    BY Zenon, <1>2, StepTypes DEF TypeInv
  <2>2. PICK place : GoodPlace(place) /\ at' = [at EXCEPT ![p] = place]
    BY Zenon, <1>2, StepPlaced DEF Placed
  <2>3. ASSUME NEW q \in Procs PROVE GoodPlace(at'[q])
    <3>1. at'[q] = IF q = p THEN place ELSE at[q]
      BY <2>2 DEF IInv, Types
    <3>2. GoodPlace(at[q])
      BY DEF TypeInv
    <3> QED BY Zenon, <2>2, <3>1, <3>2
  <2> QED BY <2>1, <2>3 DEF TypeInv
<1> QED BY <1>1, <1>2 DEF Next

\* The types of the operations.  More than types: the nested calls of DeleteChildren
\* go down the tree, each for a child of the node before, from the node of the
\* operation, whatever others create and delete meanwhile, and MakeDirs does not go
\* beyond its path (paths.go, DeleteChildren and MakeDirs).
THEOREM TypeCorrect == Spec => []TypeOK
<1>1. IInv /\ TypeInv => TypeOK
  <2> SUFFICES ASSUME IInv, TypeInv PROVE TypeOK
    OBVIOUS
  <2>1. Types /\ WorldTypes
    BY DEF IInv, TypeInv
  <2>2. \A path \in DOMAIN tree : tree[path].data \in Nat /\ tree[path].acl \in Nat
    BY <2>1 DEF WorldTypes
  <2>3. ASSUME NEW p \in Procs
        PROVE  /\ at[p].label \in Labels /\ at[p].dir \in 0 .. Len(Path(p))
               /\ \A i \in DOMAIN at[p].stack :
                    LET call == at[p].stack[i] IN
                    /\ call.todo \subseteq Paths
                    /\ IF i = Len(at[p].stack) THEN call.path = Path(p)
                       ELSE Parent(call.path) = at[p].stack[i + 1].path
    <3>1. at[p] \in Place /\ GoodPlace(at[p]) /\ ProcInv(p)
      BY <2>1 DEF IInv, TypeInv, Types
    <3>2. at[p].label \in Labels /\ at[p].stack \in Seq(Frames)
      BY <3>1 DEF Place
    <3>3. Len(Path(p)) \in Nat /\ Len(Namespace) \in Nat /\ Len(Path(p)) > Len(Namespace)
      BY <2>1, PathType
    <3>4. at[p].dir \in 0 .. Len(Path(p))
      <4>1. CASE at[p].label \in {"exists", "mkdir"}
        <5>1. /\ at[p].dir \in 1 .. Len(LastDir(p)) /\ Len(LastDir(p)) \in Nat
              /\ lock # p => Len(Path(p)) = Len(LastDir(p)) + 1
          BY Zenon, <4>1, SubPathIs
        <5>2. lock = p => LastDir(p) = Namespace
          BY DEF LastDir
        <5> QED BY <3>3, <5>1, <5>2
      <4>2. CASE at[p].label \notin {"exists", "mkdir"}
        <5>1. at[p].dir = 0
          BY Zenon, <3>1, <4>2 DEF GoodPlace
        <5> QED BY <3>3, <5>1
      <4> QED BY <4>1, <4>2
    <3>5. at[p].stack # <<>> => at[p].stack[Len(at[p].stack)].path = Path(p)
      BY Zenon, <3>1 DEF GoodPlace, ProcInv, StackInv
    <3>6. ASSUME NEW i \in DOMAIN at[p].stack
          PROVE  /\ at[p].stack[i].todo \subseteq Paths
                 /\ IF i = Len(at[p].stack) THEN at[p].stack[i].path = Path(p)
                    ELSE Parent(at[p].stack[i].path) = at[p].stack[i + 1].path
      <4> DEFINE stack == at[p].stack
      <4>1. stack \in Seq(Frames) /\ Descends(stack) /\ i \in DOMAIN stack
            /\ (stack # <<>> => stack[Len(stack)].path = Path(p))
        BY Zenon, <3>1, <3>2, <3>5, <3>6 DEF GoodPlace
      <4> HIDE DEF stack
      <4>2. i \in 1 .. Len(stack) /\ Len(stack) \in Nat /\ stack # <<>>
        BY <4>1, LenProperties, EmptySeq
      <4>3. i # Len(stack) => i \in 1 .. Len(stack) - 1
        BY <4>2
      <4> QED BY <4>1, <4>2, <4>3 DEF Descends, stack
    <3> QED BY Zenon, <3>2, <3>4, <3>6
  <2>4. {helper, started, ensureFailed} \subseteq BOOLEAN
    BY Zenon, <2>1 DEF Types
  <2> QED BY Zenon, <2>1, <2>2, <2>3, <2>4 DEF TypeOK, Types, WorldTypes
<1> QED BY <1>1, Initially, Preserved, TypeInvInitially, TypeInvPreserved, PTL DEF Spec
=============================================================================
