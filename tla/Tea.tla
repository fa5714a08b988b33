---------------------------------- MODULE Tea ----------------------------------
(***************************************************************************)
(* What the terminal screens have in common: each is a Bubble Tea program, *)
(* a model that Update changes and a bag of commands under way, each of    *)
(* which answers with one message when it likes.  The user presses keys in *)
(* between.  A process shows one screen, so all screens use the same two   *)
(* variables.                                                              *)
(***************************************************************************)
EXTENDS Naturals, Sequences, FiniteSets

CONSTANTS
    MaxCmds,  \* commands under way at a time
    Gen,      \* load generations (and timer ids) alive at the same time
    None      \* no subject

VARIABLES
    m,     \* the screen's model: a record of the fields of its Go struct
    cmds   \* bag of commands under way

vars == <<m, cmds>>

\* A command: what it asks for, the generation (0: none) and the subject its
\* answer carries.
Cmd(kind, gen, key) == [kind |-> kind, gen |-> gen, key |-> key]

\* Bags, with the names they have in the standard module.  (The prover's version of
\* that one brings three libraries of theorems along, into each of the thirty
\* screens that are instances of a module that extends this one.)
IsABag(B) == B \in [DOMAIN B -> {n \in Nat : n > 0}]
BagToSet(B) == DOMAIN B
CopiesIn(e, B) == IF e \in DOMAIN B THEN B[e] ELSE 0
Members(B) == UNION {{e} \X (1..B[e]) : e \in DOMAIN B}
BagCardinality(B) == Cardinality(Members(B))
EmptyBag == [e \in {} |-> 1]
B (+) C == [e \in DOMAIN B \union DOMAIN C |-> CopiesIn(e, B) + CopiesIn(e, C)]
B (-) C ==
    LET left == {e \in DOMAIN B : CopiesIn(e, B) > CopiesIn(e, C)}
    IN  [e \in left |-> CopiesIn(e, B) - CopiesIn(e, C)]
BagOfAll(F(_), B) ==
    [x \in {F(e) : e \in DOMAIN B} |-> Cardinality({p \in Members(B) : F(p[1]) = x})]

UnderWay == BagToSet(cmds)
Running(kind) == {c \in UnderWay : c.kind = kind}

\* How often c is under way.
Copies(c) == CopiesIn(c, cmds)

\* The bag that holds each command of a set once.
Batch(cs) == [c \in cs |-> 1]
Idle == cmds = EmptyBag

\* Update returns with the commands of the set new under way.
Return(new) ==
    /\ BagCardinality(cmds) + Cardinality(new) <= MaxCmds
    /\ cmds' = cmds (+) Batch(new)

\* As Return, when Update was called with the answer of c.
ReturnFrom(c, new) == cmds' = (cmds (-) Batch({c})) (+) Batch(new)

\* A generation no command carries.  The counters of the code only grow, and
\* are only compared for equality.
Fresh(g, current) == g \in Gen \ {current} /\ \A c \in UnderWay : c.gen # g

-------------------------------------------------------------------------------
\* At the start each command of a batch is under way once.
LEMMA BatchBag ==
    ASSUME NEW cs, cmds = Batch(cs)
    PROVE  /\ IsABag(cmds) /\ UnderWay = cs
           /\ \A x : Copies(x) = IF x \in cs THEN 1 ELSE 0
  BY DEF Batch, IsABag, UnderWay, BagToSet, Copies, CopiesIn

\* One copy of each new command is added and none is taken away.
LEMMA AddBag ==
    ASSUME NEW new, IsABag(cmds), cmds' = cmds (+) Batch(new)
    PROVE  /\ IsABag(cmds') /\ UnderWay' = UnderWay \union new
           /\ \A x : Copies(x)' = Copies(x) + (IF x \in new THEN 1 ELSE 0)
<1> DEFINE D == UnderWay \union new
<1>1. cmds' = [e \in D |-> (IF e \in UnderWay THEN cmds[e] ELSE 0)
                            + (IF e \in new THEN 1 ELSE 0)]
  BY DEF Batch, (+), CopiesIn, UnderWay, BagToSet
<1>2. UnderWay' = D
  BY <1>1 DEF UnderWay, BagToSet
<1>3. \A x \in UnderWay : cmds[x] \in Nat /\ cmds[x] > 0
  BY DEF IsABag, UnderWay, BagToSet
<1>4. \A x \in D : cmds'[x] \in Nat /\ cmds'[x] > 0
  BY <1>1, <1>3
<1>5. IsABag(cmds')
  BY <1>1, <1>4 DEF IsABag
<1>6. ASSUME NEW x PROVE Copies(x)' = Copies(x) + (IF x \in new THEN 1 ELSE 0)
  <2>1. Copies(x)' = IF x \in UnderWay' THEN cmds'[x] ELSE 0
    BY DEF Copies, CopiesIn, UnderWay, BagToSet
  <2>2. Copies(x) = IF x \in UnderWay THEN cmds[x] ELSE 0
    BY DEF Copies, CopiesIn, UnderWay, BagToSet
  <2> QED BY <2>1, <2>2, <1>1, <1>2, <1>3
<1> QED BY <1>2, <1>5, <1>6

\* So does Return.
LEMMA ReturnBag ==
    ASSUME NEW new, IsABag(cmds), Return(new)
    PROVE  /\ IsABag(cmds') /\ UnderWay' = UnderWay \union new
           /\ \A x : Copies(x)' = Copies(x) + (IF x \in new THEN 1 ELSE 0)
  BY AddBag DEF Return

\* ReturnFrom takes one copy of the command that answered away; copies of it
\* that are left, and all other commands, stay.
LEMMA ReturnFromBag ==
    ASSUME NEW new, NEW c \in UnderWay, IsABag(cmds), ReturnFrom(c, new)
    PROVE  /\ IsABag(cmds') /\ UnderWay' \subseteq UnderWay \union new
           /\ (UnderWay \ {c}) \union new \subseteq UnderWay'
           /\ \A x : Copies(x)' = (Copies(x) + (IF x \in new THEN 1 ELSE 0))
                                   - (IF x = c THEN 1 ELSE 0)
<1> DEFINE left == cmds (-) Batch({c})
           D == DOMAIN left \union new
<1>1. \A x \in UnderWay : cmds[x] \in Nat /\ cmds[x] > 0
  BY DEF IsABag, UnderWay, BagToSet
<1>2. left = [e \in {d \in UnderWay : d = c => cmds[d] > 1} |->
                IF e = c THEN cmds[e] - 1 ELSE cmds[e]]
  <2>1. DOMAIN left = {d \in UnderWay : d = c => cmds[d] > 1}
    BY <1>1 DEF Batch, (-), CopiesIn, UnderWay, BagToSet
  <2>2. ASSUME NEW e \in DOMAIN left PROVE left[e] = IF e = c THEN cmds[e] - 1 ELSE cmds[e]
    BY <1>1, <2>1 DEF Batch, (-), CopiesIn, UnderWay, BagToSet
  <2> QED BY <2>1, <2>2 DEF (-)
<1> HIDE DEF left
<1>3. /\ cmds' = [e \in D |-> (IF e \in DOMAIN left THEN left[e] ELSE 0)
                               + (IF e \in new THEN 1 ELSE 0)]
      /\ UnderWay' = D
  BY DEF ReturnFrom, Batch, (+), CopiesIn, UnderWay, BagToSet, left
<1>4. \A x \in DOMAIN left : left[x] \in Nat /\ left[x] > 0 /\ x \in UnderWay
  BY <1>1, <1>2
<1>5. \A x \in UnderWay \ {c} : x \in DOMAIN left /\ left[x] = cmds[x]
  BY <1>2
<1>6. ASSUME NEW x \in D PROVE cmds'[x] \in Nat /\ cmds'[x] > 0
  <2>1. cmds'[x] = (IF x \in DOMAIN left THEN left[x] ELSE 0) + (IF x \in new THEN 1 ELSE 0)
    BY <1>3, <1>6
  <2>2. x \in DOMAIN left \/ x \in new BY <1>6
  <2>3. x \in DOMAIN left => left[x] \in Nat /\ left[x] > 0 BY <1>4
  <2> QED BY <2>1, <2>2, <2>3
<1>7. IsABag(cmds')
  BY <1>3, <1>6 DEF IsABag
<1>8. ASSUME NEW x
      PROVE  Copies(x)' = (Copies(x) + (IF x \in new THEN 1 ELSE 0)) - (IF x = c THEN 1 ELSE 0)
  <2>1. Copies(x)' = IF x \in D THEN cmds'[x] ELSE 0
    BY <1>3 DEF Copies, CopiesIn, UnderWay, BagToSet
  <2>2. Copies(x) = IF x \in UnderWay THEN cmds[x] ELSE 0
    BY DEF Copies, CopiesIn, UnderWay, BagToSet
  <2>3. (IF x \in DOMAIN left THEN left[x] ELSE 0) = Copies(x) - (IF x = c THEN 1 ELSE 0)
    BY <1>1, <1>2, <2>2
  <2>4. Copies(x) \in Nat
    BY <1>1, <2>2
  <2> QED BY <2>1, <2>3, <2>4, <1>3
<1> QED BY <1>3, <1>4, <1>5, <1>7, <1>8
===============================================================================
