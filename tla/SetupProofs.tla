----------------------------- MODULE SetupProofs -----------------------------
(***************************************************************************)
(* What a session is made of: the chains of ChainOps and the edits in the  *)
(* engine's queue, for any chains, any number of operators and controllers *)
(* and a queue of any length; the indices, the proxies and the removals of *)
(* Chainsetup, for any names, objects and numbers of them.                 *)
(***************************************************************************)
EXTENDS SetupMC, FiniteSetTheorems, FunctionTheorems, SequenceTheorems, TLAPS

ChainValues ==
  [ops : Seq(OpIds), ctrls : Seq(OpIds), sop : Int, sctrl : Nat,
   sobj : SomeIds, dyn : SomeIds, init : BOOLEAN]

-----------------------------------------------------------------------------
(* What is left of a sequence.                                             *)

\* The places that keep their element can be counted from the first to the
\* last: there is a j-th one.
LEMMA PlaceExists ==
  ASSUME NEW keep, NEW n \in Nat, keep \subseteq 1..n
  PROVE  /\ Cardinality(keep) \in Nat
         /\ \A j \in 1..Cardinality(keep) :
              Place(keep, j) \in keep /\ Cardinality(UpTo(keep, Place(keep, j))) = j
         /\ \A i \in keep : \E j \in 1..Cardinality(keep) : Place(keep, j) = i
<1> DEFINE C == Cardinality(keep)
           rank == [i \in keep |-> Cardinality(UpTo(keep, i))]
<1>1. IsFiniteSet(keep) /\ C \in Nat
  <2>1. IsFiniteSet(1..n)
    BY FS_Interval
  <2>2. IsFiniteSet(keep)
    BY <2>1, FS_Subset
  <2> QED BY <2>2, FS_CardinalityType
<1>2. \A i \in keep : IsFiniteSet(UpTo(keep, i)) /\ Cardinality(UpTo(keep, i)) \in 1..C
  <2> TAKE i \in keep
  <2>1. UpTo(keep, i) \in SUBSET keep /\ i \in UpTo(keep, i)
    BY DEF UpTo
  <2>2. IsFiniteSet(UpTo(keep, i)) /\ Cardinality(UpTo(keep, i)) <= C
    BY <1>1, <2>1, FS_Subset
  <2>3. Cardinality(UpTo(keep, i)) \in Nat
    BY <2>2, FS_CardinalityType
  <2>4. Cardinality(UpTo(keep, i)) # 0
    BY <2>1, <2>2, FS_EmptySet
  <2> QED BY <1>1, <2>2, <2>3, <2>4
<1>3. ASSUME NEW i \in keep, NEW k \in keep, i < k
      PROVE  Cardinality(UpTo(keep, i)) # Cardinality(UpTo(keep, k))
  <2>1. UpTo(keep, i) \in SUBSET UpTo(keep, k)
    <3>1. i \in Int /\ k \in Int /\ \A l \in keep : l \in Int
      <4>1. \A l \in 1..n : l \in Int
        OBVIOUS
      <4> QED BY <4>1
    <3>2. ASSUME NEW l \in UpTo(keep, i) PROVE l \in UpTo(keep, k)
      <4>1. l \in keep /\ l <= i
        BY DEF UpTo
      <4>2. l <= k
        BY <1>3, <3>1, <4>1
      <4> QED BY <4>1, <4>2 DEF UpTo
    <3> QED BY <3>2
  <2>2. k \in UpTo(keep, k) /\ k \notin UpTo(keep, i)
    BY <1>3 DEF UpTo
  <2>3. Cardinality(UpTo(keep, k)) = Cardinality(UpTo(keep, i))
          => UpTo(keep, k) = UpTo(keep, i)
    BY <1>2, <2>1, FS_Subset
  <2> QED BY <2>2, <2>3
<1>4. \A i, k \in keep :
        Cardinality(UpTo(keep, i)) = Cardinality(UpTo(keep, k)) => i = k
  BY <1>3
<1>5. rank \in Injection(keep, 1..C)
  <2>1. rank \in [keep -> 1..C]
    BY <1>2
  <2>2. \A i, k \in keep : rank[i] = rank[k] => i = k
    BY <1>4
  <2> QED BY <2>1, <2>2 DEF Injection, IsInjective
<1>6. IsFiniteSet(1..C) /\ Cardinality(1..C) = C
  BY <1>1, FS_Interval
<1>7. rank \in Surjection(keep, 1..C)
  BY <1>5, <1>6, FS_Injection
<1>8. \A j \in 1..C : \E i \in keep : Cardinality(UpTo(keep, i)) = j
  BY <1>7 DEF Surjection
<1>9. \A j \in 1..C :
        Place(keep, j) \in keep /\ Cardinality(UpTo(keep, Place(keep, j))) = j
  BY <1>8 DEF Place
<1>10. ASSUME NEW i \in keep
       PROVE  \E j \in 1..C : Place(keep, j) = i
  BY <1>2, <1>4, <1>9
<1> QED BY <1>1, <1>9, <1>10

\* Erasing leaves the elements at the other places, and nothing else.
LEMMA EraseRest ==
  ASSUME NEW S, NEW s \in Seq(S), NEW places
  PROVE  /\ Erase(s, places) \in Seq(S)
         /\ ToSet(Erase(s, places)) = {s[i] : i \in (1..Len(s)) \ places}
<1> DEFINE keep == (DOMAIN s) \ places
           C == Cardinality(keep)
           w == Erase(s, places)
<1>1. Len(s) \in Nat /\ keep \subseteq 1..Len(s) /\ \A i \in 1..Len(s) : s[i] \in S
  OBVIOUS
<1>2. /\ C \in Nat
      /\ \A j \in 1..C : Place(keep, j) \in keep
      /\ \A i \in keep : \E j \in 1..C : Place(keep, j) = i
  BY <1>1, PlaceExists
<1>3. w = [j \in 1..C |-> s[Place(keep, j)]]
  BY DEF Erase
<1>4. w \in [1..C -> S]
  BY <1>1, <1>2, <1>3
<1> HIDE DEF keep, C, w
<1>5. w \in Seq(S) /\ Len(w) = C
  BY <1>2, <1>4
<1>6. DOMAIN w = 1..C
  BY <1>4
<1>7. ToSet(w) = {s[i] : i \in keep}
  <2>1. \A x \in ToSet(w) : x \in {s[i] : i \in keep}
    BY <1>2, <1>3, <1>6 DEF ToSet
  <2>2. ASSUME NEW i \in keep PROVE s[i] \in ToSet(w)
    <3>1. PICK j \in 1..C : Place(keep, j) = i
      BY <1>2
    <3> QED BY <1>3, <1>6, <3>1 DEF ToSet
  <2> QED BY <2>1, <2>2
<1> QED BY <1>5, <1>7 DEF keep, w

\* Erasing elements leaves the others.
LEMMA WithoutRest ==
  ASSUME NEW S, NEW s \in Seq(S), NEW gone
  PROVE  /\ Without(s, gone) \in Seq(S)
         /\ ToSet(Without(s, gone)) = ToSet(s) \ gone
<1> DEFINE places == {i \in DOMAIN s : s[i] \in gone}
<1>1. Without(s, gone) = Erase(s, places)
  BY DEF Without
<1>2. /\ Erase(s, places) \in Seq(S)
      /\ ToSet(Erase(s, places)) = {s[i] : i \in (1..Len(s)) \ places}
  BY EraseRest
<1>3. {s[i] : i \in (1..Len(s)) \ places} = ToSet(s) \ gone
  BY DEF ToSet
<1> QED BY <1>1, <1>2, <1>3

-----------------------------------------------------------------------------
(* The invariant.                                                          *)

(* A command waits for its answer: there is a queue only with an engine.   *)
Queued == engine = "none" => edits = <<>>

(* In the middle of cop-set one chain is selected, and an operator in it.  *)
Setting == pend # 0 => Len(sel) = 1 /\ SelOp(chain[Selected]) # 0

(* An edit is an addition of an object, or names an object by its index,   *)
(* or the chain itself.                                                    *)
Proper(e) ==
  /\ e \in EditRecords
  /\ e.type \in {"cop", "ctrl"} => e.op = 0 /\ e.obj # 0
  /\ e.op > 0 => e.obj # 0

Types ==
  /\ chain \in [Chains -> ChainValues]
  /\ target \in [OpIds -> SomeIds]
  /\ inited \subseteq OpIds
  /\ sel \in Seq(Chains) /\ engine \in Engines
  /\ edits \in Seq(EditRecords)
  /\ used \in 0..MaxIds /\ pend \in SomeIds

EditsProper == \A i \in 1..Len(edits) : Proper(edits[i])

ChainInv ==
  Types /\ Queued /\ Setting /\ ProcessReady /\ EditsProper /\ PendingEditsExact

(* q has the operators and controllers of r at their indices, and an       *)
(* operator selected if r has.                                             *)
Extends(r, q) ==
  /\ \A i \in 1..Len(r.ops) : i \in 1..Len(q.ops) /\ q.ops[i] = r.ops[i]
  /\ \A i \in 1..Len(r.ctrls) : i \in 1..Len(q.ctrls) /\ q.ctrls[i] = r.ctrls[i]
  /\ SelOp(r) # 0 => SelOp(q) # 0

(* q has the operators and controllers of r and no others.                 *)
Alike(r, q) == q.ops = r.ops /\ q.ctrls = r.ctrls

-----------------------------------------------------------------------------
(* One chain.                                                              *)

\* The numbers of objects are positive, and none is 0.
LEMMA IdsPositive == OpIds \subseteq Nat /\ 0 \notin OpIds /\ OpIds \subseteq SomeIds
BY ChainAssumption DEF OpIds, SomeIds

\* A new chain is empty.
LEMMA EmptyRecord == EmptyChain \in ChainValues
BY DEF EmptyChain, ChainValues, SomeIds

\* The fields of a chain.
LEMMA RecordFields ==
  ASSUME NEW r \in ChainValues
  PROVE  /\ r.ops \in Seq(OpIds) /\ r.ctrls \in Seq(OpIds)
         /\ Len(r.ops) \in Nat /\ Len(r.ctrls) \in Nat
         /\ \A i \in 1..Len(r.ops) : i \in Nat /\ r.ops[i] \in OpIds
         /\ \A i \in 1..Len(r.ctrls) : i \in Nat /\ r.ctrls[i] \in OpIds
         /\ r.sop \in Int /\ r.sctrl \in Nat
         /\ r.sobj \in SomeIds /\ r.dyn \in SomeIds
<1>1. /\ r.ops \in Seq(OpIds) /\ r.ctrls \in Seq(OpIds) /\ r.sop \in Int
      /\ r.sctrl \in Nat /\ r.sobj \in SomeIds /\ r.dyn \in SomeIds
  BY DEF ChainValues
<1>2. \A i \in 1..Len(r.ops) : i \in Nat /\ r.ops[i] \in OpIds
  BY <1>1
<1>3. \A i \in 1..Len(r.ctrls) : i \in Nat /\ r.ctrls[i] \in OpIds
  BY <1>1
<1> QED BY <1>1, <1>2, <1>3

\* What an index reaches is an object, or 0 beyond the end.
LEMMA NthObject ==
  ASSUME NEW s \in Seq(OpIds), NEW i \in Int
  PROVE  /\ Nth(s, i) \in SomeIds
         /\ Nth(s, i) # 0 <=> i \in 1..Len(s)
BY IdsPositive DEF Nth, Valid, SomeIds

\* An operator is added behind the others and selected.
LEMMA AddOpRecord ==
  ASSUME NEW r \in ChainValues, NEW id \in OpIds
  PROVE  AddOp(r, id) \in ChainValues /\ Extends(r, AddOp(r, id))
<1>1. PICK q : q = AddOp(r, id)
  OBVIOUS
<1>2. id \in SomeIds /\ Append(r.ops, id) \in Seq(OpIds) /\ Len(r.ops) + 1 \in Int
  BY RecordFields, IdsPositive
<1>3. /\ q.ops = Append(r.ops, id) /\ q.sop = Len(r.ops) + 1 /\ q.dyn = id
      /\ q.ctrls = r.ctrls /\ q \in ChainValues
  BY <1>1, <1>2 DEF AddOp, ChainValues
<1>4. r.ops \in Seq(OpIds) /\ q.ops \in Seq(OpIds) /\ Len(q.ops) = Len(r.ops) + 1
  BY <1>3, RecordFields
<1>5. q.sop \in Int /\ q.sop \in 1..Len(q.ops)
  BY <1>3, <1>4
<1>6. SelOp(q) # 0
  BY <1>4, <1>5, NthObject DEF SelOp
<1>7. \A i \in 1..Len(r.ops) : i \in 1..Len(q.ops) /\ q.ops[i] = r.ops[i]
  BY <1>3, <1>4
<1> QED BY <1>1, <1>3, <1>6, <1>7 DEF Extends

\* A controller is added behind the others and selected.
LEMMA AddCtrlRecord ==
  ASSUME NEW r \in ChainValues, NEW id \in OpIds
  PROVE  /\ AddCtrl(r, id) \in ChainValues /\ Extends(r, AddCtrl(r, id))
         /\ AddCtrl(r, id).ops = r.ops
<1>1. PICK q : q = AddCtrl(r, id)
  OBVIOUS
<1>2. /\ r.ctrls \in Seq(OpIds) /\ id \in SomeIds
      /\ Append(r.ctrls, id) \in Seq(OpIds) /\ Len(r.ctrls) + 1 \in Nat
  BY RecordFields, IdsPositive
<1>3. /\ q.ctrls = Append(r.ctrls, id) /\ q.ops = r.ops /\ q.sop = r.sop
      /\ q \in ChainValues
  BY <1>1, <1>2 DEF AddCtrl, ChainValues
<1>4. \A i \in 1..Len(r.ctrls) : i \in 1..Len(q.ctrls) /\ q.ctrls[i] = r.ctrls[i]
  BY <1>3, <1>2
<1> QED BY <1>1, <1>3, <1>4 DEF Extends, SelOp

\* Selecting an operator changes what is selected, to an operator if there is
\* one of that index.
LEMMA SelectOpRecord ==
  ASSUME NEW r \in ChainValues, NEW i \in Int
  PROVE  /\ SelectOp(r, i) \in ChainValues
         /\ Alike(r, SelectOp(r, i)) /\ SelectOp(r, i).init = r.init
         /\ SelOp(r) # 0 => SelOp(SelectOp(r, i)) # 0
         /\ i \in 1..Len(r.ops) => SelOp(SelectOp(r, i)) # 0
<1>1. PICK q : q = SelectOp(r, i)
  OBVIOUS
<1>2. r.ops \in Seq(OpIds) /\ r.sop \in Int
  BY DEF ChainValues
<1>3. CASE i \in 1..Len(r.ops)
  <2>1. r.ops[i] \in SomeIds
    BY <1>3, RecordFields, IdsPositive
  <2>2. q = [r EXCEPT !.sop = i, !.dyn = r.ops[i]]
    BY <1>1, <1>3 DEF SelectOp, Valid
  <2>3. q \in ChainValues /\ q.ops = r.ops /\ q.ctrls = r.ctrls /\ q.init = r.init
        /\ q.sop = i
    BY <2>1, <2>2 DEF ChainValues
  <2>4. SelOp(q) # 0
    BY <1>2, <1>3, <2>3, NthObject DEF SelOp
  <2> QED BY <1>1, <2>3, <2>4 DEF Alike
<1>4. CASE i \notin 1..Len(r.ops)
  BY <1>1, <1>4 DEF SelectOp, Valid, Alike
<1> QED BY <1>3, <1>4

\* Selecting a controller changes what is selected.
LEMMA SelectCtrlRecord ==
  ASSUME NEW r \in ChainValues, NEW i \in Int
  PROVE  /\ SelectCtrl(r, i) \in ChainValues
         /\ Alike(r, SelectCtrl(r, i)) /\ SelectCtrl(r, i).init = r.init
         /\ SelectCtrl(r, i).sop = r.sop
<1>1. PICK q : q = SelectCtrl(r, i)
  OBVIOUS
<1>2. r.ctrls \in Seq(OpIds)
  BY DEF ChainValues
<1>3. CASE i \in 1..Len(r.ctrls)
  <2>1. r.ctrls[i] \in SomeIds /\ i \in Nat
    BY <1>3, RecordFields, IdsPositive
  <2>2. q = [r EXCEPT !.sctrl = i, !.sobj = r.ctrls[i]]
    BY <1>1, <1>3 DEF SelectCtrl, Valid
  <2> QED BY <1>1, <2>1, <2>2 DEF ChainValues, Alike
<1>4. CASE i \notin 1..Len(r.ctrls)
  <2>1. q = [r EXCEPT !.sctrl = 0, !.sobj = 0]
    BY <1>1, <1>4 DEF SelectCtrl, Valid
  <2>2. 0 \in SomeIds /\ 0 \in Nat
    BY DEF SomeIds
  <2> QED BY <1>1, <2>1, <2>2 DEF ChainValues, Alike
<1> QED BY <1>3, <1>4

\* A chain that is like another extends it if it has an operator selected too.
LEMMA AlikeExtends ==
  ASSUME NEW r, NEW q, Alike(r, q), SelOp(r) # 0 => SelOp(q) # 0
  PROVE  Extends(r, q)
BY DEF Alike, Extends

\* Commands that select leave the objects of the chain.
LEMMA ReselectRecord ==
  ASSUME NEW r \in ChainValues, NEW q \in Reselect(r)
  PROVE  q \in ChainValues /\ Alike(r, q) /\ Extends(r, q) /\ q.init = r.init
<1>1. r.sop \in Int /\ r.sctrl \in Int /\ Len(r.ops) \in Int
  BY RecordFields
<1>2. CASE \E i \in 1..Len(r.ops) : q = SelectOp(r, i)
  <2>1. PICK i \in 1..Len(r.ops) : q = SelectOp(r, i)
    BY <1>2
  <2>2. i \in Int
    BY RecordFields
  <2> QED BY <2>1, <2>2, SelectOpRecord, AlikeExtends
<1>3. CASE \E i \in Int : q = SelectCtrl(r, i)
  <2>1. PICK i \in Int : q = SelectCtrl(r, i)
    BY <1>3
  <2>2. q \in ChainValues /\ Alike(r, q) /\ q.init = r.init /\ q.sop = r.sop
    BY <2>1, SelectCtrlRecord
  <2>3. SelOp(q) = SelOp(r)
    BY <2>2 DEF SelOp, Alike
  <2> QED BY <2>2, <2>3, AlikeExtends
<1>4. CASE q = ListOps(r)
  <2>1. PICK p : p = SelectOp(r, Len(r.ops))
    OBVIOUS
  <2>2. /\ p \in ChainValues /\ Alike(r, p) /\ p.init = r.init
        /\ SelOp(r) # 0 => SelOp(p) # 0
    BY <1>1, <2>1, SelectOpRecord
  <2>3. q = SelectOp(p, r.sop)
    BY <1>4, <2>1 DEF ListOps
  <2>4. /\ q \in ChainValues /\ Alike(p, q) /\ q.init = p.init
        /\ SelOp(p) # 0 => SelOp(q) # 0
    BY <1>1, <2>2, <2>3, SelectOpRecord
  <2> QED BY <2>2, <2>4, AlikeExtends DEF Alike
<1>5. q = ListCtrls(r) => \E i \in Int : q = SelectCtrl(r, i)
  BY <1>1 DEF ListCtrls
<1>6. \A i \in 1..Len(r.ctrls) : i \in Int
  BY RecordFields
<1> QED BY <1>2, <1>3, <1>4, <1>5, <1>6 DEF Reselect
\* remove_chain_operator() takes out an operator and the controllers that drive
\* it, and nothing else.
LEMMA RemoveOpRecord ==
  ASSUME NEW r \in ChainValues, NEW tg
  PROVE  /\ RemoveOp(r, tg) \in ChainValues
         /\ \/ RemoveOp(r, tg) = r
            \/ \E id : /\ ToSet(RemoveOp(r, tg).ops) = ToSet(r.ops) \ {id}
                       /\ ToSet(RemoveOp(r, tg).ctrls)
                            = {k \in ToSet(r.ctrls) : tg[k] \notin {id}}
<1>1. CASE ~Valid(r.ops, r.sop)
  BY <1>1 DEF RemoveOp
<1>2. CASE Valid(r.ops, r.sop)
  <2>1. PICK id : id = r.ops[r.sop]
    OBVIOUS
  <2>2. PICK gone : gone = Driving(r, id, tg)
    OBVIOUS
  <2>3. PICK q : q = RemoveOp(r, tg)
    OBVIOUS
  <2>4. q = [r EXCEPT !.ops = Without(r.ops, {id}), !.ctrls = Without(r.ctrls, gone),
                      !.sobj = IF r.sobj \in gone THEN 0 ELSE r.sobj,
                      !.sop = -1, !.init = FALSE]
    BY <1>2, <2>1, <2>2, <2>3 DEF RemoveOp
  <2>5. /\ Without(r.ops, {id}) \in Seq(OpIds)
        /\ ToSet(Without(r.ops, {id})) = ToSet(r.ops) \ {id}
    BY RecordFields, WithoutRest
  <2>6. /\ Without(r.ctrls, gone) \in Seq(OpIds)
        /\ ToSet(Without(r.ctrls, gone)) = ToSet(r.ctrls) \ gone
    BY RecordFields, WithoutRest
  <2>7. (IF r.sobj \in gone THEN 0 ELSE r.sobj) \in SomeIds /\ -1 \in Int
    BY RecordFields DEF SomeIds
  <2>8. /\ q.ops = Without(r.ops, {id}) /\ q.ctrls = Without(r.ctrls, gone)
        /\ q \in ChainValues
    BY <2>4, <2>5, <2>6, <2>7 DEF ChainValues
  <2>9. ToSet(r.ctrls) \ gone = {k \in ToSet(r.ctrls) : tg[k] \notin {id}}
    BY <2>2 DEF Driving
  <2> QED BY <2>3, <2>5, <2>6, <2>8, <2>9
<1> QED BY <1>1, <1>2

\* remove_controller() leaves the operators.
LEMMA RemoveCtrlRecord ==
  ASSUME NEW r \in ChainValues
  PROVE  RemoveCtrl(r) \in ChainValues /\ RemoveCtrl(r).ops = r.ops
<1>1. CASE ~Valid(r.ctrls, r.sctrl)
  BY <1>1 DEF RemoveCtrl
<1>2. CASE Valid(r.ctrls, r.sctrl)
  <2>1. PICK id : id = r.ctrls[r.sctrl]
    OBVIOUS
  <2>2. Without(r.ctrls, {id}) \in Seq(OpIds)
    BY RecordFields, WithoutRest
  <2>3. PICK p : p = [r EXCEPT !.ctrls = Without(r.ctrls, {id})]
    OBVIOUS
  <2>4. p \in ChainValues /\ p.ops = r.ops
    BY <2>2, <2>3 DEF ChainValues
  <2>5. RemoveCtrl(r) = SelectCtrl(p, -1) /\ -1 \in Int
    BY <1>2, <2>1, <2>3 DEF RemoveCtrl
  <2> QED BY <2>4, <2>5, SelectCtrlRecord DEF Alike
<1> QED BY <1>1, <1>2

\* clear() empties the chain.
LEMMA ClearRecord ==
  ASSUME NEW r \in ChainValues
  PROVE  ClearAll(r) \in ChainValues /\ ToSet(ClearAll(r).ctrls) = {}
<1>1. <<>> \in Seq(OpIds) /\ ToSet(<<>>) = {}
  BY DEF ToSet
<1>2. ClearAll(r) \in ChainValues /\ ClearAll(r).ctrls = <<>>
  BY <1>1 DEF ClearAll, ChainValues
<1> QED BY <1>1, <1>2

-----------------------------------------------------------------------------
(* All chains.                                                             *)

ChainMaps == [Chains -> ChainValues]

\* Initialising and releasing the chains leaves their objects.
LEMMA AllInitRecords ==
  ASSUME NEW ch \in ChainMaps
  PROVE  /\ AllInit(ch) \in ChainMaps
         /\ \A c \in Chains : /\ AllInit(ch)[c].init
                              /\ Alike(ch[c], AllInit(ch)[c])
                              /\ AllInit(ch)[c].sop = ch[c].sop
<1>1. \A c \in Chains : AllInit(ch)[c] = [ch[c] EXCEPT !.init = TRUE]
  BY DEF AllInit, InitChain
<1>2. ASSUME NEW c \in Chains, NEW q, q = [ch[c] EXCEPT !.init = TRUE]
      PROVE  q \in ChainValues /\ q.init /\ Alike(ch[c], q) /\ q.sop = ch[c].sop
  <2>1. ch[c] \in ChainValues
    BY DEF ChainMaps
  <2> QED BY <1>2, <2>1 DEF ChainValues, Alike
<1>3. \A c \in Chains : /\ AllInit(ch)[c] \in ChainValues /\ AllInit(ch)[c].init
                        /\ Alike(ch[c], AllInit(ch)[c])
                        /\ AllInit(ch)[c].sop = ch[c].sop
  BY <1>1, <1>2
<1>4. AllInit(ch) \in ChainMaps
  BY <1>3 DEF ChainMaps, AllInit
<1> QED BY <1>3, <1>4

\* The engine is gone: the chains are released.
LEMMA ReleaseRecords ==
  ASSUME NEW ch \in ChainMaps, NEW rel, rel = [c \in Chains |-> Release(ch[c])]
  PROVE  rel \in ChainMaps /\ \A c \in Chains : Alike(ch[c], rel[c])
<1>1. ASSUME NEW c \in Chains, NEW q, q = [ch[c] EXCEPT !.init = FALSE]
      PROVE  q \in ChainValues /\ Alike(ch[c], q)
  <2>1. ch[c] \in ChainValues
    BY DEF ChainMaps
  <2> QED BY <1>1, <2>1 DEF ChainValues, Alike
<1>2. \A c \in Chains : rel[c] = [ch[c] EXCEPT !.init = FALSE]
  BY DEF Release
<1>3. \A c \in Chains : rel[c] \in ChainValues /\ Alike(ch[c], rel[c])
  BY <1>1, <1>2
<1> QED BY <1>3 DEF ChainMaps

\* The objects of the chains, which depend on nothing else.
LEMMA ObjectsOfChains ==
  ASSUME NEW ch \in ChainMaps
  PROVE  ChainObjects(ch) \subseteq OpIds
<1>1. ASSUME NEW c \in Chains
      PROVE  ToSet(ch[c].ops) \subseteq OpIds /\ ToSet(ch[c].ctrls) \subseteq OpIds
  <2>1. ch[c] \in ChainValues
    BY DEF ChainMaps
  <2>2. ch[c].ops \in Seq(OpIds) /\ ch[c].ctrls \in Seq(OpIds)
    BY <2>1, RecordFields
  <2> QED BY <2>2 DEF ToSet
<1> QED BY <1>1 DEF ChainObjects

\* The same operators and controllers are the same objects.
LEMMA ObjectsAlike ==
  ASSUME NEW ch, NEW new, \A c \in Chains : Alike(ch[c], new[c])
  PROVE  ChainObjects(new) = ChainObjects(ch)
<1>1. \A c \in Chains : ToSet(new[c].ops) \cup ToSet(new[c].ctrls)
                          = ToSet(ch[c].ops) \cup ToSet(ch[c].ctrls)
  BY DEF Alike
<1> QED BY <1>1 DEF ChainObjects

\* A chain that extends another has its operators.
LEMMA ExtendsOps ==
  ASSUME NEW r \in ChainValues, NEW q \in ChainValues, Extends(r, q)
  PROVE  ToSet(r.ops) \subseteq ToSet(q.ops)
<1>1. DOMAIN r.ops = 1..Len(r.ops) /\ DOMAIN q.ops = 1..Len(q.ops)
  BY RecordFields
<1> QED BY <1>1 DEF Extends, ToSet

\* Extending can be done in two steps.
LEMMA ExtendsTwice ==
  ASSUME NEW r, NEW q, NEW p, Extends(r, q), Alike(q, p), p.sop = q.sop
  PROVE  Extends(r, p)
BY DEF Extends, Alike, SelOp
-----------------------------------------------------------------------------
(* The steps.                                                              *)

\* The selected chain is a chain.
LEMMA SelectedChain ==
  ASSUME sel \in Seq(Chains), Len(sel) > 0
  PROVE  Selected \in Chains
<1>1. sel # <<>> /\ 1 \in 1..Len(sel)
  OBVIOUS
<1>2. Head(sel) = sel[1] /\ sel[1] \in Chains
  BY <1>1
<1> QED BY <1>2 DEF Selected

\* What a chain has, an extended one has.
LEMMA ExtendsSame == \A r : Extends(r, r)
BY DEF Extends

\* Nothing is removed from a chain that is extended.
LEMMA NothingGone ==
  ASSUME chain \in ChainMaps, chain' \in ChainMaps,
         \A c \in Chains : Extends(chain[c], chain'[c])
  PROVE  ControllersGo
<1>1. ASSUME NEW c \in Chains
      PROVE  ToSet(chain[c].ops) \ ToSet(chain'[c].ops) = {}
  BY ExtendsOps DEF ChainMaps
<1> QED BY <1>1 DEF ControllersGo

\* An edit reaches the object it stands for when the chains are extended.
LEMMA ReachesStill ==
  ASSUME chain \in ChainMaps, chain' \in ChainMaps,
         \A c \in Chains : Extends(chain[c], chain'[c]),
         NEW e, Proper(e), e.op > 0 => Addressed(e) = e.obj
  PROVE  e.op > 0 => Addressed(e)' = e.obj
<1> SUFFICES ASSUME e.op > 0 PROVE Addressed(e)' = e.obj
  OBVIOUS
<1>1. e.chain \in Chains /\ e.op \in Int /\ e.obj # 0 /\ Addressed(e) = e.obj
  BY DEF Proper, EditRecords
<1>2. PICK r, q : r = chain[e.chain] /\ q = chain'[e.chain]
  OBVIOUS
<1>3. r \in ChainValues /\ q \in ChainValues /\ Extends(r, q)
  BY <1>1, <1>2 DEF ChainMaps
<1>4. /\ r.ops \in Seq(OpIds) /\ r.ctrls \in Seq(OpIds)
      /\ q.ops \in Seq(OpIds) /\ q.ctrls \in Seq(OpIds)
  BY <1>3, RecordFields
<1>5. CASE e.type = "cset"
  <2>1. Nth(r.ctrls, e.op) = e.obj /\ Addressed(e)' = Nth(q.ctrls, e.op)
    BY <1>1, <1>2, <1>5 DEF Addressed
  <2>2. e.op \in 1..Len(r.ctrls)
    BY <1>1, <1>4, <2>1, NthObject
  <2> QED BY <1>3, <2>1, <2>2 DEF Nth, Valid, Extends
<1>6. CASE e.type # "cset"
  <2>1. Nth(r.ops, e.op) = e.obj /\ Addressed(e)' = Nth(q.ops, e.op)
    BY <1>1, <1>2, <1>6 DEF Addressed
  <2>2. e.op \in 1..Len(r.ops)
    BY <1>1, <1>4, <2>1, NthObject
  <2> QED BY <1>3, <2>1, <2>2 DEF Nth, Valid, Extends
<1> QED BY <1>5, <1>6

\* Executing an edit extends the chain it goes to, if it is an addition, and
\* changes no chain otherwise.
LEMMA EditedRecords ==
  ASSUME Types, NEW e, Proper(e)
  PROVE  /\ EditedChains(e) \in ChainMaps
         /\ \A c \in Chains : Extends(chain[c], EditedChains(e)[c])
         /\ EditedTargets(e) \in [OpIds -> SomeIds]
         /\ ~Reinit(e) => EditedChains(e) = chain
<1>1. chain \in ChainMaps /\ sel \in Seq(Chains) /\ target \in [OpIds -> SomeIds]
  BY DEF Types, ChainMaps
<1>2. CASE e.type \in {"cop", "ctrl"} /\ Taken(e)
  <2>1. Len(sel) = 1 /\ Head(sel) \in Chains
    BY <1>1, <1>2, SelectedChain DEF Taken, Selected
  <2>2. PICK r, d : r = chain[d] /\ d = Head(sel)
    OBVIOUS
  <2>3. d \in Chains /\ r \in ChainValues
    BY <1>1, <2>1, <2>2 DEF ChainMaps
  <2>4. e.obj \in OpIds
    BY <1>2 DEF Proper, EditRecords, SomeIds
  <2>5. AddTo(r, e) \in ChainValues /\ Extends(r, AddTo(r, e))
    BY <2>3, <2>4, AddOpRecord, AddCtrlRecord DEF AddTo
  <2>6. EditedChains(e) = [chain EXCEPT ![d] = AddTo(r, e)]
    BY <1>2, <2>2 DEF EditedChains
  <2>7. EditedChains(e) \in ChainMaps
    BY <1>1, <2>3, <2>5, <2>6 DEF ChainMaps
  <2>8. ASSUME NEW c \in Chains PROVE Extends(chain[c], EditedChains(e)[c])
    <3>1. CASE c = d
      BY <1>1, <2>2, <2>3, <2>5, <2>6, <3>1 DEF ChainMaps
    <3>2. CASE c # d
      <4>1. EditedChains(e)[c] = chain[c]
        BY <1>1, <2>6, <3>2 DEF ChainMaps
      <4> QED BY <4>1, ExtendsSame
    <3> QED BY <3>1, <3>2
  <2>9. r.dyn \in SomeIds
    BY <2>3, RecordFields
  <2>10. EditedTargets(e) \in [OpIds -> SomeIds]
    BY <1>1, <2>2, <2>9 DEF EditedTargets
  <2> QED BY <1>2, <2>7, <2>8, <2>10 DEF Reinit
<1>3. CASE ~(e.type \in {"cop", "ctrl"} /\ Taken(e))
  <2>1. EditedChains(e) = chain
    BY <1>3 DEF EditedChains
  <2>2. EditedTargets(e) = target
    BY <1>3 DEF EditedTargets
  <2> QED BY <1>1, <2>1, <2>2, ExtendsSame
<1> QED BY <1>2, <1>3

\* In the middle of cop-set there is still an operator selected.
LEMMA SettingStill ==
  ASSUME Types, Setting, \A c \in Chains : Extends(chain[c], chain'[c]),
         sel' = sel, pend' # 0 => pend # 0
  PROVE  Setting'
<1> SUFFICES ASSUME pend' # 0 PROVE Len(sel) = 1 /\ SelOp(chain'[Selected]) # 0
  BY DEF Setting, Selected
<1>1. Len(sel) = 1 /\ SelOp(chain[Selected]) # 0
  BY DEF Setting
<1>2. Selected \in Chains
  BY <1>1, SelectedChain DEF Types
<1> QED BY <1>1, <1>2 DEF Extends

\* Edits that wait are not disturbed by what extends the chains.
LEMMA PendingStill ==
  ASSUME ChainInv, chain' \in ChainMaps, edits' = edits,
         \A c \in Chains : Extends(chain[c], chain'[c])
  PROVE  EditsProper' /\ PendingEditsExact'
<1>1. chain \in ChainMaps
  BY DEF ChainInv, Types, ChainMaps
<1>2. ASSUME NEW i \in 1..Len(edits)
      PROVE  edits[i].op > 0 => Addressed(edits[i])' = edits[i].obj
  <2>1. Proper(edits[i]) /\ (edits[i].op > 0 => Addressed(edits[i]) = edits[i].obj)
    BY DEF ChainInv, EditsProper, PendingEditsExact
  <2>2. PICK e : e = edits[i]
    OBVIOUS
  <2>3. e.op > 0 => Addressed(e)' = e.obj
    BY <1>1, <2>1, <2>2, ReachesStill
  <2> QED BY <2>2, <2>3 DEF Addressed
<1>3. EditsProper'
  BY DEF ChainInv, EditsProper, Proper
<1>4. PendingEditsExact'
  BY <1>2 DEF PendingEditsExact, Addressed
<1> QED BY <1>3, <1>4

\* The engine thread executes an edit: a new operator or controller is
\* initialised with the others before it is processed.
LEMMA HandleEditStep ==
  ASSUME ChainInv, HandleEdit
  PROVE  ChainInv' /\ ControllersGo
<1>1. Types /\ Queued /\ Setting /\ ProcessReady /\ EditsProper /\ PendingEditsExact
  BY DEF ChainInv
<1>2. chain \in ChainMaps /\ edits \in Seq(EditRecords)
  BY <1>1 DEF Types, ChainMaps
<1>3. PICK e : e = Head(edits)
  OBVIOUS
<1>4. edits # <<>> /\ engine # "none"
  BY DEF HandleEdit
<1>5. e = edits[1] /\ 1 \in 1..Len(edits)
  BY <1>2, <1>3, <1>4
<1>6. Proper(e)
  BY <1>1, <1>5 DEF EditsProper
<1>7. PICK ch : ch = EditedChains(e)
  OBVIOUS
<1>8. /\ ch \in ChainMaps /\ \A c \in Chains : Extends(chain[c], ch[c])
      /\ EditedTargets(e) \in [OpIds -> SomeIds]
      /\ ~Reinit(e) => ch = chain
  BY <1>1, <1>6, <1>7, EditedRecords
<1>9. /\ chain' = IF Reinit(e) THEN AllInit(ch) ELSE ch
      /\ inited' = IF Reinit(e) THEN inited \cup ChainObjects(ch) ELSE inited
      /\ target' = EditedTargets(e) /\ edits' = Tail(edits)
      /\ UNCHANGED <<sel, engine, used, pend>>
  BY <1>3, <1>7 DEF HandleEdit
<1>10. chain' \in ChainMaps /\ \A c \in Chains : Extends(chain[c], chain'[c])
  <2>1. CASE Reinit(e)
    BY <1>8, <1>9, <2>1, AllInitRecords, ExtendsTwice
  <2>2. CASE ~Reinit(e)
    BY <1>8, <1>9, <2>2
  <2> QED BY <2>1, <2>2
<1>11. inited' \subseteq OpIds
  BY <1>1, <1>8, <1>9, ObjectsOfChains DEF Types
<1>12. edits' \in Seq(EditRecords) /\ Len(edits') = Len(edits) - 1
       /\ \A i \in 1..Len(edits') : i + 1 \in 1..Len(edits) /\ edits'[i] = edits[i + 1]
  BY <1>2, <1>4, <1>9
<1>13. Types'
  BY <1>1, <1>8, <1>9, <1>10, <1>11, <1>12 DEF Types, ChainMaps
<1>14. Queued'
  BY <1>4, <1>9 DEF Queued
<1>15. Setting'
  BY <1>1, <1>9, <1>10, SettingStill
<1>16. ProcessReady'
  <2>1. CASE Reinit(e)
    <3>1. \A c \in Chains : chain'[c].init
      BY <1>8, <1>9, <2>1, AllInitRecords
    <3>2. \A c \in Chains : Alike(ch[c], chain'[c])
      BY <1>8, <1>9, <2>1, AllInitRecords
    <3>3. ChainObjects(chain') = ChainObjects(ch)
      BY <3>2, ObjectsAlike
    <3> QED BY <1>9, <2>1, <3>1, <3>3 DEF ProcessReady
  <2>2. CASE ~Reinit(e)
    BY <1>1, <1>4, <1>8, <1>9, <2>2 DEF ProcessReady
  <2> QED BY <2>1, <2>2
<1>17. EditsProper'
  BY <1>1, <1>12 DEF EditsProper, Proper
<1>18. PendingEditsExact'
  <2>1. ASSUME NEW i \in 1..Len(edits')
        PROVE  edits'[i].op > 0 => Addressed(edits[i])' = edits'[i].obj
    <3>1. PICK f : f = edits'[i]
      OBVIOUS
    <3>2. f = edits[i + 1] /\ i + 1 \in 1..Len(edits)
      BY <1>12, <3>1
    <3>3. Proper(f) /\ (f.op > 0 => Addressed(f) = f.obj)
      BY <1>1, <3>2 DEF EditsProper, PendingEditsExact
    <3>4. f.op > 0 => Addressed(f)' = f.obj
      BY <1>2, <1>10, <3>3, ReachesStill
    <3> QED BY <3>1, <3>4 DEF Addressed
  <2> QED BY <2>1 DEF PendingEditsExact
<1>19. ControllersGo
  BY <1>2, <1>10, NothingGone
<1> QED BY <1>13, <1>14, <1>15, <1>16, <1>17, <1>18, <1>19 DEF ChainInv
\* A command that edits: the edit waits and stands for what the index reaches,
\* or, without an engine, is executed at once.
LEMMA GiveStep ==
  ASSUME ChainInv, NEW e, Proper(e), e.op > 0 => Addressed(e) = e.obj,
         Give(e), sel' = sel, engine' = engine,
         used' \in 0..MaxIds, pend' \in {0, pend}
  PROVE  ChainInv' /\ ControllersGo
<1>1. Types /\ Queued /\ Setting /\ ProcessReady /\ EditsProper /\ PendingEditsExact
  BY DEF ChainInv
<1>2. /\ chain \in ChainMaps /\ edits \in Seq(EditRecords) /\ e \in EditRecords
      /\ pend' \in SomeIds
  BY <1>1 DEF Types, ChainMaps, Proper, SomeIds
<1>3. CASE engine = "none"
  <2>1. /\ chain' = EditedChains(e) /\ target' = EditedTargets(e)
        /\ inited' = inited /\ edits' = edits /\ edits = <<>>
    BY <1>1, <1>3 DEF Give, Queued
  <2>2. /\ chain' \in ChainMaps /\ \A c \in Chains : Extends(chain[c], chain'[c])
        /\ target' \in [OpIds -> SomeIds]
    BY <1>1, <2>1, EditedRecords
  <2>3. Types'
    BY <1>1, <1>2, <2>1, <2>2 DEF Types, ChainMaps
  <2>4. Setting'
    BY <1>1, <2>2, SettingStill
  <2>5. EditsProper' /\ PendingEditsExact'
    BY <2>1, <2>2, PendingStill
  <2>6. Queued' /\ ProcessReady'
    BY <1>3, <2>1 DEF Queued, ProcessReady
  <2> QED BY <1>2, <2>2, <2>3, <2>4, <2>5, <2>6, NothingGone DEF ChainInv
<1>4. CASE engine # "none"
  <2>1. /\ edits' = Append(edits, e)
        /\ chain' = chain /\ target' = target /\ inited' = inited
    BY <1>4 DEF Give
  <2>2. Types'
    BY <1>1, <1>2, <2>1 DEF Types
  <2>3. Queued' /\ ProcessReady'
    BY <1>1, <1>4, <2>1 DEF Queued, ProcessReady, ChainObjects
  <2>4. \A c \in Chains : Extends(chain[c], chain'[c])
    BY <2>1, ExtendsSame
  <2>5. Setting'
    BY <1>1, <2>4, SettingStill
  <2>6. ASSUME NEW i \in 1..Len(edits')
        PROVE  edits'[i] = e \/ (i \in 1..Len(edits) /\ edits'[i] = edits[i])
    BY <1>2, <2>1
  <2>7. EditsProper'
    BY <1>1, <2>6 DEF EditsProper, Proper
  <2>8. ASSUME NEW i \in 1..Len(edits')
        PROVE  edits'[i].op > 0 => Addressed(edits[i])' = edits'[i].obj
    <3>1. PICK f : f = edits'[i]
      OBVIOUS
    <3>2. f.op > 0 => Addressed(f) = f.obj
      BY <1>1, <2>6, <3>1 DEF PendingEditsExact
    <3> QED BY <2>1, <3>1, <3>2 DEF Addressed
  <2>9. PendingEditsExact'
    BY <2>8 DEF PendingEditsExact
  <2> QED BY <1>2, <2>1, <2>2, <2>3, <2>4, <2>5, <2>7, <2>9, NothingGone DEF ChainInv
<1> QED BY <1>3, <1>4

\* The user asks for an operator or a controller.
LEMMA AddStep ==
  ASSUME ChainInv, NEW type \in {"cop", "ctrl"}, Add(type)
  PROVE  ChainInv' /\ ControllersGo
<1>1. /\ pend = 0 /\ Len(sel) = 1 /\ used < MaxIds /\ used' = used + 1
      /\ UNCHANGED <<sel, engine, pend>>
  BY DEF Add
<1>2. sel \in Seq(Chains) /\ used \in 0..MaxIds /\ pend \in SomeIds
  BY DEF ChainInv, Types
<1>3. Selected \in Chains
  BY <1>1, <1>2, SelectedChain
<1>4. used + 1 \in OpIds /\ used' \in 0..MaxIds /\ used + 1 # 0
  BY <1>1, <1>2, ChainAssumption DEF OpIds
<1>5. PICK e : e = Edit(type, Selected, 0, used + 1, used + 1)
  OBVIOUS
<1>6. Proper(e) /\ e.op = 0
  BY <1>3, <1>4, <1>5 DEF Edit, Proper, EditRecords, EditTypes, SomeIds
<1>7. Give(e)
  BY <1>5 DEF Add
<1> QED BY <1>1, <1>4, <1>6, <1>7, GiveStep

\* The selected operator or controller is what its index reaches.
LEMMA SelectedObject ==
  ASSUME Types, Len(sel) > 0, NEW r, r = chain[Selected]
  PROVE  /\ r \in ChainValues /\ Selected \in Chains
         /\ SelOp(r) \in SomeIds /\ SelCtrl(r) \in SomeIds
         /\ r.sop \in Int /\ r.sctrl \in Int
<1>1. Selected \in Chains
  BY SelectedChain DEF Types
<1>2. r \in ChainValues
  BY <1>1 DEF Types
<1>3. /\ r.ops \in Seq(OpIds) /\ r.ctrls \in Seq(OpIds)
      /\ r.sop \in Int /\ r.sctrl \in Int
  BY <1>2, RecordFields
<1> QED BY <1>1, <1>2, <1>3, NthObject DEF SelOp, SelCtrl

\* The user sets a parameter of what is selected, or mutes or bypasses it.
LEMMA SetParamStep ==
  ASSUME ChainInv, SetParam
  PROVE  ChainInv' /\ ControllersGo
<1>1. Types /\ pend = 0 /\ Len(sel) > 0 /\ UNCHANGED <<sel, engine, used, pend>>
  BY DEF ChainInv, SetParam
<1>2. PICK r : r = chain[Selected]
  OBVIOUS
<1>3. /\ Selected \in Chains /\ SelOp(r) \in SomeIds /\ SelCtrl(r) \in SomeIds
      /\ r.sop \in Int /\ r.sctrl \in Int
  BY <1>1, <1>2, SelectedObject
<1>4. used' \in 0..MaxIds /\ pend' \in {0, pend}
  BY <1>1 DEF Types
<1>5. ASSUME NEW e, e = Edit("set", Selected, 0, 0, 0), Give(e)
      PROVE  ChainInv' /\ ControllersGo
  <2>1. Proper(e) /\ e.op = 0
    BY <1>3, <1>5 DEF Edit, Proper, EditRecords, EditTypes, SomeIds
  <2> QED BY <1>1, <1>4, <1>5, <2>1, GiveStep
<1>6. ASSUME NEW e, SelOp(r) # 0, Give(e),
             e = Edit("set", Selected, r.sop, SelOp(r), SelOp(r))
      PROVE  ChainInv' /\ ControllersGo
  <2>1. Proper(e) /\ Addressed(e) = e.obj
    BY <1>2, <1>3, <1>6
       DEF Edit, Proper, EditRecords, EditTypes, Addressed, SelOp
  <2> QED BY <1>1, <1>4, <1>6, <2>1, GiveStep
<1>7. ASSUME NEW e, SelCtrl(r) # 0, Give(e),
             e = Edit("cset", Selected, r.sctrl, SelCtrl(r), SelCtrl(r))
      PROVE  ChainInv' /\ ControllersGo
  <2>1. Proper(e) /\ Addressed(e) = e.obj
    BY <1>2, <1>3, <1>7
       DEF Edit, Proper, EditRecords, EditTypes, Addressed, SelCtrl
  <2> QED BY <1>1, <1>4, <1>7, <2>1, GiveStep
<1>8. \/ Give(Edit("set", Selected, 0, 0, 0))
      \/ SelOp(r) # 0 /\ Give(Edit("set", Selected, r.sop, SelOp(r), SelOp(r)))
      \/ SelCtrl(r) # 0 /\ Give(Edit("cset", Selected, r.sctrl, SelCtrl(r), SelCtrl(r)))
  BY <1>2 DEF SetParam
<1> QED BY <1>5, <1>6, <1>7, <1>8

\* cop-set gives the edit of the operator it finds selected.
LEMMA CopSetSetStep ==
  ASSUME ChainInv, CopSetSet
  PROVE  ChainInv' /\ ControllersGo
<1>1. /\ Types /\ Len(sel) = 1 /\ SelOp(chain[Selected]) # 0
      /\ pend' = 0 /\ UNCHANGED <<sel, engine, used>>
  BY DEF ChainInv, Setting, CopSetSet
<1>2. PICK r : r = chain[Selected]
  OBVIOUS
<1>3. Selected \in Chains /\ SelOp(r) \in SomeIds /\ r.sop \in Int
  BY <1>1, <1>2, SelectedObject
<1>4. used' \in 0..MaxIds /\ pend \in SomeIds
  BY <1>1 DEF Types
<1>5. PICK e : e = Edit("set", Selected, r.sop, SelOp(r), pend)
  OBVIOUS
<1>6. Give(e)
  BY <1>2, <1>5 DEF CopSetSet
<1>7. Proper(e) /\ Addressed(e) = e.obj
  BY <1>1, <1>2, <1>3, <1>4, <1>5
     DEF Edit, Proper, EditRecords, EditTypes, Addressed, SelOp
<1> QED BY <1>1, <1>4, <1>6, <1>7, GiveStep
\* Replacing a chain by one that is like it and extends it.
LEMMA ReplacedAlike ==
  ASSUME ChainInv, NEW d \in Chains, NEW q \in ChainValues,
         Alike(chain[d], q), Extends(chain[d], q), q.init = chain[d].init,
         chain' = [chain EXCEPT ![d] = q],
         UNCHANGED <<target, inited, sel, engine, edits, used>>
  PROVE  /\ chain' \in ChainMaps /\ \A c \in Chains : Extends(chain[c], chain'[c])
         /\ Queued' /\ ProcessReady' /\ EditsProper' /\ PendingEditsExact'
         /\ ControllersGo
<1>1. chain \in ChainMaps /\ Queued /\ ProcessReady
  BY DEF ChainInv, Types, ChainMaps
<1>2. \A c \in Chains : chain'[c] = IF c = d THEN q ELSE chain[c]
  BY <1>1 DEF ChainMaps
<1>3. chain' \in ChainMaps
  BY <1>1 DEF ChainMaps
<1>4. ASSUME NEW c \in Chains
      PROVE  /\ Extends(chain[c], chain'[c]) /\ Alike(chain[c], chain'[c])
             /\ chain'[c].init = chain[c].init
  <2>1. CASE c = d
    BY <1>2, <2>1
  <2>2. CASE c # d
    <3>1. chain'[c] = chain[c]
      BY <1>2, <2>2
    <3> QED BY <3>1, ExtendsSame DEF Alike
  <2> QED BY <2>1, <2>2
<1>5. ChainObjects(chain') = ChainObjects(chain)
  BY <1>4, ObjectsAlike
<1>6. ProcessReady'
  BY <1>1, <1>4, <1>5 DEF ProcessReady
<1>7. EditsProper' /\ PendingEditsExact'
  BY <1>3, <1>4, PendingStill
<1> QED BY <1>1, <1>3, <1>4, <1>6, <1>7, NothingGone DEF Queued

\* Commands that select leave the objects and the edits that wait.
LEMMA SelectInChainStep ==
  ASSUME ChainInv, SelectInChain
  PROVE  ChainInv' /\ ControllersGo
<1>1. /\ Types /\ Setting /\ Len(sel) = 1
      /\ UNCHANGED <<target, inited, sel, engine, edits, used, pend>>
  BY DEF ChainInv, SelectInChain
<1>2. PICK q \in Reselect(chain[Selected]) : chain' = [chain EXCEPT ![Selected] = q]
  BY DEF SelectInChain
<1>3. PICK d : d = Selected
  OBVIOUS
<1>4. d \in Chains /\ chain[d] \in ChainValues
  BY <1>1, <1>3, SelectedObject
<1>5. /\ q \in ChainValues /\ Alike(chain[d], q) /\ Extends(chain[d], q)
      /\ q.init = chain[d].init
  BY <1>2, <1>3, <1>4, ReselectRecord
<1>6. /\ chain' \in ChainMaps /\ \A c \in Chains : Extends(chain[c], chain'[c])
      /\ Queued' /\ ProcessReady' /\ EditsProper' /\ PendingEditsExact'
      /\ ControllersGo
  BY <1>1, <1>2, <1>3, <1>4, <1>5, ReplacedAlike
<1>7. Setting'
  BY <1>1, <1>6, SettingStill
<1>8. Types'
  BY <1>1, <1>6 DEF Types, ChainMaps
<1> QED BY <1>6, <1>7, <1>8 DEF ChainInv

\* cop-set selects the operator whose parameter it is to set.
LEMMA CopSetSelectStep ==
  ASSUME ChainInv, CopSetSelect
  PROVE  ChainInv' /\ ControllersGo
<1>1. /\ Types /\ Len(sel) = 1
      /\ UNCHANGED <<target, inited, sel, engine, edits, used>>
  BY DEF ChainInv, CopSetSelect
<1>2. PICK d, r : d = Selected /\ r = chain[d]
  OBVIOUS
<1>3. d \in Chains /\ r \in ChainValues
  BY <1>1, <1>2, SelectedObject
<1>4. PICK i \in 1..Len(r.ops) :
        chain' = [chain EXCEPT ![d] = SelectOp(r, i)] /\ pend' = r.ops[i]
  BY <1>2 DEF CopSetSelect
<1>5. i \in Int /\ pend' \in SomeIds
  <2>1. i \in Nat /\ r.ops[i] \in OpIds
    BY <1>3, RecordFields
  <2>2. pend' = r.ops[i]
    BY <1>4
  <2>3. pend' \in OpIds
    BY <2>1, <2>2
  <2>4. pend' \in SomeIds
    BY <2>3 DEF SomeIds
  <2> QED BY <2>1, <2>4
<1>6. PICK q : q = SelectOp(r, i)
  OBVIOUS
<1>7. /\ q \in ChainValues /\ Alike(r, q) /\ Extends(r, q) /\ q.init = r.init
      /\ SelOp(q) # 0
  BY <1>3, <1>4, <1>5, <1>6, SelectOpRecord, AlikeExtends
<1>8. /\ chain' \in ChainMaps /\ \A c \in Chains : Extends(chain[c], chain'[c])
      /\ Queued' /\ ProcessReady' /\ EditsProper' /\ PendingEditsExact'
      /\ ControllersGo
  BY <1>1, <1>2, <1>3, <1>4, <1>6, <1>7, ReplacedAlike
<1>9. chain'[d] = q
  BY <1>1, <1>3, <1>4, <1>6 DEF Types
<1>10. Setting'
  BY <1>1, <1>2, <1>7, <1>9 DEF Setting, Selected
<1>11. Types'
  BY <1>1, <1>5, <1>8 DEF Types, ChainMaps
<1> QED BY <1>8, <1>10, <1>11 DEF ChainInv

\* Steps that leave the chains and what waits.
LEMMA SameChainsStep ==
  ASSUME ChainInv, UNCHANGED <<chain, target, inited, edits, used, pend>>,
         sel' \in Seq(Chains), engine' \in Engines,
         pend # 0 => sel' = sel, engine' = "none" <=> engine = "none"
  PROVE  ChainInv' /\ ControllersGo
<1>1. Types /\ Queued /\ Setting /\ ProcessReady /\ EditsProper /\ PendingEditsExact
  BY DEF ChainInv
<1>2. Types'
  BY <1>1 DEF Types
<1>3. Queued' /\ Setting'
  BY <1>1 DEF Queued, Setting, Selected
<1>4. ProcessReady'
  BY <1>1 DEF ProcessReady, ChainObjects
<1>5. EditsProper'
  BY <1>1 DEF EditsProper, Proper
<1>6. PendingEditsExact'
  BY <1>1 DEF PendingEditsExact, Addressed
<1>7. ControllersGo
  BY DEF ControllersGo
<1> QED BY <1>2, <1>3, <1>4, <1>5, <1>6, <1>7 DEF ChainInv

\* The user selects chains.
LEMMA SelectChainIdsStep ==
  ASSUME ChainInv, SelectChainIds
  PROVE  ChainInv' /\ ControllersGo
<1>1. PICK s \in {<<>>} \cup {<<c>> : c \in Chains} \cup (Chains \X Chains) : sel' = s
  BY DEF SelectChainIds
<1>2. s \in Seq(Chains)
  <2>1. CASE s = <<>>
    BY <2>1
  <2>2. CASE \E c \in Chains : s = <<c>>
    BY <2>2
  <2>3. CASE s \in Chains \X Chains
    <3>1. PICK c \in Chains, d \in Chains : s = <<c, d>>
      BY <2>3
    <3> QED BY <3>1
  <2> QED BY <1>1, <2>1, <2>2, <2>3
<1>3. engine \in Engines
  BY DEF ChainInv, Types
<1> QED BY <1>1, <1>2, <1>3, SameChainsStep DEF SelectChainIds

\* The engine is started or stopped.
LEMMA StartOrStopStep ==
  ASSUME ChainInv, StartOrStop
  PROVE  ChainInv' /\ ControllersGo
<1>1. engine \in Engines /\ sel \in Seq(Chains)
  BY DEF ChainInv, Types
<1>2. engine' \in Engines /\ (engine' = "none" <=> engine = "none")
  BY <1>1 DEF StartOrStop, Engines
<1> QED BY <1>1, <1>2, SameChainsStep DEF StartOrStop

-----------------------------------------------------------------------------
(* Commands for which the engine is closed, or started.                    *)

\* Nothing waits and nothing is being set: what becomes of the chains is new.
LEMMA FreshStep ==
  ASSUME ChainInv, edits = <<>>, pend = 0,
         UNCHANGED <<target, sel, edits, used, pend>>,
         chain' \in ChainMaps, inited' \subseteq OpIds, engine' \in Engines,
         ProcessReady'
  PROVE  ChainInv'
<1>1. Types'
  BY DEF ChainInv, Types, ChainMaps
<1>2. Queued' /\ Setting'
  BY DEF Queued, Setting
<1>3. EditsProper' /\ PendingEditsExact'
  BY DEF EditsProper, PendingEditsExact
<1> QED BY <1>1, <1>2, <1>3 DEF ChainInv

\* The engine is closed, the chains changed to ch, and the engine started again
\* if it was running.
LEMMA OfflineStep ==
  ASSUME ChainInv, NEW ch \in ChainMaps, Offline(ch)
  PROVE  /\ ChainInv' /\ chain' \in ChainMaps
         /\ \A c \in Chains : Alike(ch[c], chain'[c])
<1>1. /\ pend = 0 /\ edits = <<>> /\ UNCHANGED <<target, sel, edits, used, pend>>
      /\ engine \in Engines
  BY DEF Offline, ChainInv, Types
<1>2. CASE engine = "running"
  <2>1. chain' = AllInit(ch) /\ inited' = ChainObjects(ch) /\ engine' = engine
    BY <1>2 DEF Offline
  <2>2. /\ chain' \in ChainMaps /\ \A c \in Chains : chain'[c].init
        /\ \A c \in Chains : Alike(ch[c], chain'[c])
    BY <2>1, AllInitRecords
  <2>3. ChainObjects(chain') = ChainObjects(ch)
    BY <2>2, ObjectsAlike
  <2>4. ProcessReady' /\ inited' \subseteq OpIds
    BY <2>1, <2>2, <2>3, ObjectsOfChains DEF ProcessReady
  <2> QED BY <1>1, <2>1, <2>2, <2>4, FreshStep
<1>3. CASE engine # "running"
  <2>1. /\ chain' = [c \in Chains |-> Release(ch[c])] /\ inited' = {}
        /\ engine' = "none"
    BY <1>3 DEF Offline
  <2>2. chain' \in ChainMaps /\ \A c \in Chains : Alike(ch[c], chain'[c])
    BY <2>1, ReleaseRecords
  <2>3. ProcessReady' /\ inited' \subseteq OpIds /\ engine' \in Engines
    BY <2>1 DEF ProcessReady, Engines
  <2> QED BY <1>1, <2>2, <2>3, FreshStep
<1> QED BY <1>2, <1>3

\* An engine is launched: it initialises what is there.
LEMMA LaunchEngineStep ==
  ASSUME ChainInv, LaunchEngine
  PROVE  ChainInv' /\ ControllersGo
<1>1. /\ chain \in ChainMaps /\ edits = <<>> /\ pend = 0
      /\ UNCHANGED <<target, sel, edits, used, pend>> /\ engine' \in Engines
      /\ chain' = AllInit(chain) /\ inited' = ChainObjects(chain)
  BY DEF LaunchEngine, ChainInv, Queued, Types, ChainMaps, Engines
<1>2. /\ chain' \in ChainMaps /\ \A c \in Chains : chain'[c].init
      /\ \A c \in Chains : Alike(chain[c], chain'[c])
  BY <1>1, AllInitRecords
<1>3. ChainObjects(chain') = ChainObjects(chain)
  BY <1>2, ObjectsAlike
<1>4. ProcessReady' /\ inited' \subseteq OpIds
  BY <1>1, <1>2, <1>3, ObjectsOfChains DEF ProcessReady
<1>5. ControllersGo
  BY <1>2 DEF ControllersGo, Alike
<1> QED BY <1>1, <1>2, <1>4, <1>5, FreshStep

\* The engine is closed: it releases the chains.
LEMMA HaltStep ==
  ASSUME ChainInv, Halt
  PROVE  ChainInv' /\ ControllersGo
<1>1. /\ chain \in ChainMaps /\ edits = <<>> /\ pend = 0
      /\ UNCHANGED <<target, sel, edits, used, pend>> /\ engine' = "none"
      /\ chain' = [c \in Chains |-> Release(chain[c])] /\ inited' = {}
  BY DEF Halt, ChainInv, Types, ChainMaps
<1>2. chain' \in ChainMaps /\ \A c \in Chains : Alike(chain[c], chain'[c])
  BY <1>1, ReleaseRecords
<1>3. ProcessReady' /\ inited' \subseteq OpIds /\ engine' \in Engines
  BY <1>1 DEF ProcessReady, Engines
<1>4. ControllersGo
  BY <1>2 DEF ControllersGo, Alike
<1> QED BY <1>1, <1>2, <1>3, <1>4, FreshStep
\* Commands on the selected chain that leave its operators.
LEMMA OperatorsStayStep ==
  ASSUME ChainInv, Len(sel) > 0, NEW q \in ChainValues, q.ops = chain[Selected].ops,
         Offline([chain EXCEPT ![Selected] = q])
  PROVE  ChainInv' /\ ControllersGo
<1>1. chain \in ChainMaps /\ Selected \in Chains
  BY SelectedChain DEF ChainInv, Types, ChainMaps
<1>2. PICK d : d = Selected
  OBVIOUS
<1>3. PICK ch : ch = [chain EXCEPT ![d] = q]
  OBVIOUS
<1>4. ch \in ChainMaps /\ ch[d] = q /\ \A c \in Chains : c # d => ch[c] = chain[c]
  BY <1>1, <1>2, <1>3 DEF ChainMaps
<1>5. ChainInv' /\ \A c \in Chains : Alike(ch[c], chain'[c])
  BY <1>2, <1>3, <1>4, OfflineStep
<1>6. \A c \in Chains : chain'[c].ops = chain[c].ops
  BY <1>2, <1>4, <1>5 DEF Alike
<1>7. ControllersGo
  BY <1>6 DEF ControllersGo
<1> QED BY <1>5, <1>7

\* The user removes a controller.
LEMMA CtrlRemoveStep ==
  ASSUME ChainInv, CtrlRemove
  PROVE  ChainInv' /\ ControllersGo
<1>1. Types /\ Len(sel) = 1
  BY DEF ChainInv, CtrlRemove
<1>2. PICK r, q : r = chain[Selected] /\ q = RemoveCtrl(r)
  OBVIOUS
<1>3. r \in ChainValues
  BY <1>1, <1>2, SelectedObject
<1>4. q \in ChainValues /\ q.ops = chain[Selected].ops
  BY <1>2, <1>3, RemoveCtrlRecord
<1>5. Offline([chain EXCEPT ![Selected] = q])
  BY <1>2 DEF CtrlRemove
<1> QED BY <1>1, <1>4, <1>5, OperatorsStayStep

\* The selected controller becomes the target of those to come.
LEMMA TargetControllerStep ==
  ASSUME ChainInv, TargetController
  PROVE  ChainInv' /\ ControllersGo
<1>1. Types /\ Len(sel) > 0
  BY DEF ChainInv, TargetController
<1>2. PICK r, q : r = chain[Selected] /\ q = [r EXCEPT !.dyn = r.sobj]
  OBVIOUS
<1>3. r \in ChainValues
  BY <1>1, <1>2, SelectedObject
<1>4. q \in ChainValues /\ q.ops = chain[Selected].ops
  BY <1>2, <1>3 DEF ChainValues
<1>5. [chain EXCEPT ![Selected].dyn = chain[Selected].sobj]
        = [chain EXCEPT ![Selected] = q]
  BY <1>2
<1>6. Offline([chain EXCEPT ![Selected] = q])
  BY <1>5 DEF TargetController
<1> QED BY <1>1, <1>4, <1>6, OperatorsStayStep

\* The user removes an operator: its controllers go with it, and the operators
\* that stay keep theirs.
LEMMA CopRemoveStep ==
  ASSUME ChainInv, CopRemove
  PROVE  ChainInv' /\ ControllersGo
<1>1. Types /\ Len(sel) = 1 /\ chain \in ChainMaps
  BY DEF ChainInv, CopRemove, Types, ChainMaps
<1>2. PICK d, r, q : d = Selected /\ r = chain[d] /\ q = RemoveOp(r, target)
  OBVIOUS
<1>3. d \in Chains /\ r \in ChainValues
  BY <1>1, <1>2, SelectedObject
<1>4. /\ q \in ChainValues
      /\ \/ q = r
         \/ \E id : /\ ToSet(q.ops) = ToSet(r.ops) \ {id}
                    /\ ToSet(q.ctrls) = {k \in ToSet(r.ctrls) : target[k] \notin {id}}
  BY <1>2, <1>3, RemoveOpRecord
<1>5. PICK ch : ch = [chain EXCEPT ![d] = q]
  OBVIOUS
<1>6. ch \in ChainMaps /\ ch[d] = q /\ \A c \in Chains : c # d => ch[c] = chain[c]
  BY <1>1, <1>3, <1>4, <1>5 DEF ChainMaps
<1>7. Offline(ch)
  BY <1>2, <1>5 DEF CopRemove
<1>8. ChainInv' /\ \A c \in Chains : Alike(ch[c], chain'[c])
  BY <1>6, <1>7, OfflineStep
<1>9. ASSUME NEW c \in Chains, c # d \/ q = r
      PROVE  ToSet(chain[c].ops) \ ToSet(chain'[c].ops) = {}
  BY <1>2, <1>6, <1>8, <1>9 DEF Alike
<1>10. ASSUME NEW id, ToSet(q.ops) = ToSet(r.ops) \ {id},
              ToSet(q.ctrls) = {k \in ToSet(r.ctrls) : target[k] \notin {id}},
              NEW gone, gone = ToSet(r.ops) \ ToSet(chain'[d].ops), gone # {}
       PROVE  ToSet(chain'[d].ctrls) = {k \in ToSet(r.ctrls) : target[k] \notin gone}
  <2>1. chain'[d].ops = q.ops /\ chain'[d].ctrls = q.ctrls
    BY <1>3, <1>6, <1>8 DEF Alike
  <2>2. gone = {id}
    BY <1>10, <2>1
  <2> QED BY <1>10, <2>1, <2>2
<1>11. ControllersGo
  BY <1>2, <1>4, <1>9, <1>10 DEF ControllersGo
<1> QED BY <1>8, <1>11

\* The user clears chains: nothing is left in those that are selected.
LEMMA ClearChainsStep ==
  ASSUME ChainInv, ClearChains
  PROVE  ChainInv' /\ ControllersGo
<1>1. chain \in ChainMaps
  BY DEF ChainInv, Types, ChainMaps
<1>2. PICK ch : ch = [c \in Chains |->
                        IF c \in ToSet(sel) THEN ClearAll(chain[c]) ELSE chain[c]]
  OBVIOUS
<1>3. ASSUME NEW c \in Chains
      PROVE  ch[c] \in ChainValues /\ (ch[c] = chain[c] \/ ToSet(ch[c].ctrls) = {})
  <2>1. chain[c] \in ChainValues
    BY <1>1 DEF ChainMaps
  <2>2. ClearAll(chain[c]) \in ChainValues /\ ToSet(ClearAll(chain[c]).ctrls) = {}
    BY <2>1, ClearRecord
  <2> QED BY <1>2, <2>1, <2>2
<1>4. ch \in ChainMaps
  BY <1>2, <1>3 DEF ChainMaps
<1>5. Offline(ch)
  BY <1>2 DEF ClearChains
<1>6. ChainInv' /\ \A c \in Chains : Alike(ch[c], chain'[c])
  BY <1>4, <1>5, OfflineStep
<1>7. ASSUME NEW c \in Chains
      PROVE  \/ ToSet(chain[c].ops) \ ToSet(chain'[c].ops) = {}
             \/ ToSet(chain'[c].ctrls) = {}
  BY <1>3, <1>6 DEF Alike
<1>8. ControllersGo
  BY <1>7 DEF ControllersGo
<1> QED BY <1>6, <1>8

-----------------------------------------------------------------------------
(* The theorems.                                                           *)

\* The chains are empty at first, and nothing waits.
LEMMA InvariantStarts == ChainInit => ChainInv
<1> SUFFICES ASSUME ChainInit PROVE ChainInv
  OBVIOUS
<1>1. Types
  BY EmptyRecord, ChainAssumption DEF ChainInit, Types, SomeIds, Engines
<1>2. Queued /\ Setting /\ ProcessReady /\ EditsProper /\ PendingEditsExact
  BY DEF ChainInit, Queued, Setting, ProcessReady, EditsProper, PendingEditsExact
<1> QED BY <1>1, <1>2 DEF ChainInv

\* Every step keeps the invariant, and takes away controllers only with what
\* they drive.
LEMMA EveryStep ==
  ASSUME ChainInv, [ChainNext]_chainVars
  PROVE  ChainInv' /\ [ControllersGo]_chainVars
<1>1. CASE HandleEdit
  BY <1>1, HandleEditStep
<1>2. CASE SelectChainIds
  BY <1>2, SelectChainIdsStep
<1>3. CASE CopAdd \/ CtrlAdd
  BY <1>3, AddStep DEF CopAdd, CtrlAdd
<1>4. CASE SelectInChain
  BY <1>4, SelectInChainStep
<1>5. CASE SetParam
  BY <1>5, SetParamStep
<1>6. CASE CopSetSelect
  BY <1>6, CopSetSelectStep
<1>7. CASE CopSetSet
  BY <1>7, CopSetSetStep
<1>8. CASE CopRemove
  BY <1>8, CopRemoveStep
<1>9. CASE CtrlRemove
  BY <1>9, CtrlRemoveStep
<1>10. CASE ClearChains
  BY <1>10, ClearChainsStep
<1>11. CASE TargetController
  BY <1>11, TargetControllerStep
<1>12. CASE LaunchEngine
  BY <1>12, LaunchEngineStep
<1>13. CASE StartOrStop
  BY <1>13, StartOrStopStep
<1>14. CASE Halt
  BY <1>14, HaltStep
<1>15. CASE UNCHANGED chainVars
  <2>1. /\ UNCHANGED <<chain, target, inited, edits, used, pend>>
        /\ UNCHANGED <<sel, engine>> /\ sel \in Seq(Chains) /\ engine \in Engines
    BY <1>15 DEF chainVars, ChainInv, Types
  <2> QED BY <2>1, SameChainsStep
<1> QED BY <1>1, <1>2, <1>3, <1>4, <1>5, <1>6, <1>7, <1>8, <1>9, <1>10, <1>11,
           <1>12, <1>13, <1>14, <1>15 DEF ChainNext

\* The invariant is one of ChainSpec.
LEMMA InvariantHolds == ChainSpec => []ChainInv
<1>1. ChainInv /\ [ChainNext]_chainVars => ChainInv'
  BY EveryStep
<1> QED BY InvariantStarts, <1>1, PTL DEF ChainSpec

\* Chains, selections and the edits that wait in the engine's queue are what
\* CHAIN and ECA_CONTROL take them for.
THEOREM ChainTyped == ChainSpec => []ChainTypeOK
<1>1. ASSUME ChainInv PROVE ChainTypeOK
  <2>1. Types
    BY <1>1 DEF ChainInv
  <2>2. ASSUME NEW c \in Chains PROVE IsChain(chain[c])
    <3>1. PICK r : r = chain[c]
      OBVIOUS
    <3>2. r \in ChainValues
      BY <2>1, <3>1 DEF Types
    <3>3. DOMAIN r = DOMAIN EmptyChain /\ r.init \in BOOLEAN
      BY <3>2 DEF ChainValues, EmptyChain
    <3> QED BY <3>1, <3>2, <3>3, RecordFields DEF IsChain
  <2> QED BY <2>1, <2>2 DEF Types, ChainTypeOK
<1> QED BY InvariantHolds, <1>1, PTL

\* Whatever the user and the engine thread do in whatever order, an engine has
\* all it runs initialised, and an edit that waits reaches what it was given for.
THEOREM OperatorsAlwaysSound == ChainSpec => []OperatorsSound
<1>1. ChainInv => OperatorsSound
  BY DEF ChainInv, OperatorsSound
<1> QED BY InvariantHolds, <1>1, PTL

\* An operator goes with the controllers that drive it, and only with them.
THEOREM ControllersAlwaysGo == ChainSpec => ControllersGoWithOperator
<1>1. ChainInv /\ [ChainNext]_chainVars => [ControllersGo]_chainVars
  BY EveryStep
<1> QED BY InvariantHolds, <1>1, PTL DEF ChainSpec, ControllersGoWithOperator

-----------------------------------------------------------------------------
(***************************************************************************)
(* The chainsetup.                                                         *)
(***************************************************************************)

(* Sequences of objects.                                                   *)

\* A sequence of entries, its indices and its objects.
LEMMA EntryFields ==
  ASSUME NEW s \in Seq(Entries)
  PROVE  /\ Len(s) \in Nat /\ DOMAIN s = 1..Len(s)
         /\ \A i \in 1..Len(s) : /\ i \in Nat /\ s[i] \in Entries
                                 /\ s[i].id \in Objects /\ s[i].proxy \in BOOLEAN
<1>1. \A i \in 1..Len(s) : i \in Nat /\ s[i] \in Entries
  OBVIOUS
<1> QED BY <1>1 DEF Entries

\* The places of an object are indices, and those of an object that is there
\* have a first and a last one.
LEMMA LastPlace ==
  ASSUME NEW n \in Nat, NEW places, places \subseteq 1..n, places # {}
  PROVE  /\ Max(places) \in places /\ \A i \in places : i <= Max(places)
         /\ Min(places) \in places /\ \A i \in places : Min(places) <= i
<1> DEFINE C == Cardinality(places)
<1>1. IsFiniteSet(places)
  <2>1. IsFiniteSet(1..n)
    BY FS_Interval
  <2> QED BY <2>1, FS_Subset
<1>2. /\ C \in Nat
      /\ \A j \in 1..C :
           Place(places, j) \in places /\ Cardinality(UpTo(places, Place(places, j))) = j
  BY PlaceExists
<1>3. C # 0
  BY <1>1, FS_EmptySet
<1>4. 1 \in 1..C /\ C \in 1..C
  BY <1>2, <1>3
<1>5. \A i \in places : i \in Int
  OBVIOUS
<1>6. ASSUME NEW l, l = Place(places, C)
      PROVE  l \in places /\ \A i \in places : i <= l
  <2>1. l \in places /\ Cardinality(UpTo(places, l)) = C
    BY <1>2, <1>4, <1>6
  <2>2. UpTo(places, l) \in SUBSET places
    BY DEF UpTo
  <2>3. UpTo(places, l) = places
    BY <1>1, <2>1, <2>2, FS_Subset
  <2> QED BY <2>1, <2>3 DEF UpTo
<1>7. ASSUME NEW f, f = Place(places, 1)
      PROVE  f \in places /\ \A i \in places : f <= i
  <2>1. f \in places /\ Cardinality(UpTo(places, f)) = 1
    BY <1>2, <1>4, <1>7
  <2>2. IsFiniteSet(UpTo(places, f))
    <3>1. UpTo(places, f) \in SUBSET places
      BY DEF UpTo
    <3> QED BY <1>1, <3>1, FS_Subset
  <2>3. PICK x : UpTo(places, f) = {x}
    BY <2>1, <2>2, FS_Singleton
  <2>4. f \in UpTo(places, f)
    BY <1>5, <2>1 DEF UpTo
  <2>5. ASSUME NEW i \in places, ~(f <= i) PROVE FALSE
    <3>1. i \in UpTo(places, f) /\ i # f
      BY <1>5, <2>1, <2>5 DEF UpTo
    <3> QED BY <2>3, <2>4, <3>1
  <2> QED BY <2>1, <2>5
<1>8. \E l \in places : \A i \in places : l >= i
  BY <1>5, <1>6
<1>9. Max(places) \in places /\ \A i \in places : i <= Max(places)
  BY <1>5, <1>8 DEF Max
<1>10. \E f \in places : \A i \in places : f <= i
  BY <1>7
<1>11. Min(places) \in places /\ \A i \in places : Min(places) <= i
  BY <1>5, <1>10 DEF Min
<1> QED BY <1>9, <1>11

\* vector::erase(): what is behind the place moves up.
LEMMA ErasedOne ==
  ASSUME NEW S, NEW s \in Seq(S), NEW m \in 1..Len(s)
  PROVE  /\ RemoveAt(s, m) \in Seq(S) /\ Len(RemoveAt(s, m)) = Len(s) - 1
         /\ \A i \in 1..(Len(s) - 1) :
              RemoveAt(s, m)[i] = s[IF i < m THEN i ELSE i + 1]
<1>1. PICK a : a = SubSeq(s, 1, m - 1)
  OBVIOUS
<1>2. PICK b : b = SubSeq(s, m + 1, Len(s))
  OBVIOUS
<1>3. /\ Len(s) \in Nat /\ m \in Nat /\ 1 <= m /\ m <= Len(s)
      /\ \A i \in 1..Len(s) : s[i] \in S
  OBVIOUS
<1>4. /\ a \in Seq(S) /\ Len(a) = m - 1
      /\ \A i \in 1..(m - 1) : a[i] = s[i]
  BY <1>1, <1>3, SubSeqProperties
<1>5. /\ b \in Seq(S) /\ Len(b) = Len(s) - m
      /\ \A i \in 1..(Len(s) - m) : b[i] = s[m + i]
  BY <1>2, <1>3, SubSeqProperties
<1>6. RemoveAt(s, m) = a \o b
  BY <1>1, <1>2 DEF RemoveAt
<1>7. PICK t : t = a \o b
  OBVIOUS
<1>8. t \in Seq(S) /\ Len(t) = Len(s) - 1
  <2>1. t \in Seq(S) /\ Len(t) = Len(a) + Len(b)
    BY <1>4, <1>5, <1>7, ConcatProperties
  <2> QED BY <1>3, <1>4, <1>5, <2>1
<1>9. ASSUME NEW i \in 1..(Len(s) - 1)
      PROVE  t[i] = s[IF i < m THEN i ELSE i + 1]
  <2>1. CASE i < m
    <3>1. i \in 1..Len(a) /\ i \in 1..(m - 1)
      BY <1>3, <1>4, <2>1
    <3>2. t[i] = a[i]
      BY <1>4, <1>5, <1>7, <3>1, ConcatProperties
    <3> QED BY <1>4, <2>1, <3>1, <3>2
  <2>2. CASE ~(i < m)
    <3>1. /\ i \in (Len(a) + 1)..(Len(a) + Len(b)) /\ i - Len(a) = i - m + 1
          /\ i - m + 1 \in 1..(Len(s) - m) /\ m + (i - m + 1) = i + 1
      BY <1>3, <1>4, <1>5, <2>2
    <3>2. t[i] = b[i - Len(a)]
      <4>1. a \in Seq(S) /\ b \in Seq(S)
        BY <1>4, <1>5
      <4>2. \A j \in (Len(a) + 1)..(Len(a) + Len(b)) :
              (a \o b)[j] = b[j - Len(a)]
        BY <4>1, ConcatProperties
      <4>3. (a \o b)[i] = b[i - Len(a)]
        BY <3>1, <4>2
      <4> QED BY <1>7, <4>3
    <3>3. b[i - m + 1] = s[m + (i - m + 1)]
      BY <1>5, <3>1
    <3> QED BY <2>2, <3>1, <3>2, <3>3
  <2> QED BY <2>1, <2>2
<1> QED BY <1>6, <1>7, <1>8, <1>9

-----------------------------------------------------------------------------
(* Counting proxies.                                                       *)

ProxyPlaces(s) == {i \in 1..Len(s) : s[i].proxy}

\* There are finitely many.
LEMMA ProxiesFinite ==
  ASSUME NEW s \in Seq(Entries)
  PROVE  /\ IsFiniteSet(ProxyPlaces(s)) /\ CountProxies(s) \in Nat
         /\ CountProxies(s) = Cardinality(ProxyPlaces(s))
         /\ CountProxies(s) = 0 <=> ProxyPlaces(s) = {}
<1>1. Len(s) \in Nat
  OBVIOUS
<1>2. IsFiniteSet(1..Len(s))
  BY <1>1, FS_Interval
<1>3. ProxyPlaces(s) \in SUBSET (1..Len(s))
  BY DEF ProxyPlaces
<1>4. IsFiniteSet(ProxyPlaces(s))
  BY <1>2, <1>3, FS_Subset
<1>5. CountProxies(s) = Cardinality(ProxyPlaces(s))
  BY DEF CountProxies, ProxyPlaces
<1> QED BY <1>4, <1>5, FS_CardinalityType, FS_EmptySet

\* A new object brings its proxy.
LEMMA ProxyAdded ==
  ASSUME NEW s \in Seq(Entries), NEW e \in Entries
  PROVE  CountProxies(Append(s, e))
           = IF e.proxy THEN CountProxies(s) + 1 ELSE CountProxies(s)
<1>1. PICK t : t = Append(s, e)
  OBVIOUS
<1>2. /\ t \in Seq(Entries) /\ Len(t) = Len(s) + 1 /\ Len(s) \in Nat
      /\ \A i \in 1..Len(s) : t[i] = s[i]
      /\ t[Len(s) + 1] = e
  BY <1>1
<1>3. ProxyPlaces(t) = IF e.proxy THEN ProxyPlaces(s) \cup {Len(s) + 1} ELSE ProxyPlaces(s)
  <2>1. \A i : i \in 1..Len(t) <=> (i \in 1..Len(s) \/ i = Len(s) + 1)
    BY <1>2
  <2> QED BY <1>2, <2>1 DEF ProxyPlaces
<1>4. Len(s) + 1 \notin ProxyPlaces(s)
  BY <1>2 DEF ProxyPlaces
<1>5. Cardinality(ProxyPlaces(s) \cup {Len(s) + 1}) = Cardinality(ProxyPlaces(s)) + 1
  BY <1>4, ProxiesFinite, FS_AddElement
<1>6. CountProxies(t) = Cardinality(ProxyPlaces(t))
  BY <1>2, ProxiesFinite
<1> QED BY <1>1, <1>3, <1>5, <1>6, ProxiesFinite

\* An object takes its proxy with it.
LEMMA ProxyRemoved ==
  ASSUME NEW s \in Seq(Entries), NEW m \in 1..Len(s)
  PROVE  CountProxies(RemoveAt(s, m))
           = IF s[m].proxy THEN CountProxies(s) - 1 ELSE CountProxies(s)
<1>1. PICK t : t = RemoveAt(s, m)
  OBVIOUS
<1>2. /\ t \in Seq(Entries) /\ Len(t) = Len(s) - 1
      /\ \A i \in 1..(Len(s) - 1) : t[i] = s[IF i < m THEN i ELSE i + 1]
  BY <1>1, ErasedOne
<1>3. Len(s) \in Nat /\ m \in Nat /\ 1 <= m /\ m <= Len(s)
  OBVIOUS
<1> DEFINE P == ProxyPlaces(s) \ {m}
           f == [i \in P |-> IF i < m THEN i ELSE i - 1]
<1>4. \A i \in P : i \in Int /\ i # m /\ i \in 1..Len(s) /\ s[i].proxy
  BY DEF ProxyPlaces
<1>5. f \in [P -> ProxyPlaces(t)]
  <2>1. ASSUME NEW i \in P PROVE f[i] \in ProxyPlaces(t)
    <3>1. f[i] \in 1..Len(t) /\ i = IF f[i] < m THEN f[i] ELSE f[i] + 1
      BY <1>2, <1>3, <1>4
    <3> QED BY <1>2, <1>4, <3>1 DEF ProxyPlaces
  <2> QED BY <2>1
<1>6. \A i, k \in P : f[i] = f[k] => i = k
  BY <1>3, <1>4
<1>7. ASSUME NEW j \in ProxyPlaces(t) PROVE \E i \in P : f[i] = j
  <2>1. j \in 1..Len(t) /\ t[j].proxy
    BY DEF ProxyPlaces
  <2>2. PICK i : i = IF j < m THEN j ELSE j + 1
    OBVIOUS
  <2>3. i \in 1..Len(s) /\ i # m /\ s[i].proxy /\ j = IF i < m THEN i ELSE i - 1
    BY <1>2, <1>3, <2>1, <2>2
  <2>4. i \in P
    BY <2>3 DEF ProxyPlaces
  <2> QED BY <2>3, <2>4
<1>8. f \in Bijection(P, ProxyPlaces(t))
  BY <1>5, <1>6, <1>7 DEF Bijection, Injection, Surjection, IsInjective
<1>9. IsFiniteSet(P) /\ Cardinality(P) = IF m \in ProxyPlaces(s)
                                          THEN Cardinality(ProxyPlaces(s)) - 1
                                          ELSE Cardinality(ProxyPlaces(s))
  BY ProxiesFinite, FS_RemoveElement
<1>10. Cardinality(ProxyPlaces(t)) = Cardinality(P)
  <2>1. ExistsBijection(P, ProxyPlaces(t))
    BY <1>8 DEF ExistsBijection
  <2> QED BY <1>9, <2>1, FS_Bijection
<1>11. CountProxies(t) = Cardinality(ProxyPlaces(t))
  BY <1>2, ProxiesFinite
<1>12. m \in ProxyPlaces(s) <=> s[m].proxy
  BY DEF ProxyPlaces
<1> QED BY <1>1, <1>9, <1>10, <1>11, <1>12, ProxiesFinite

-----------------------------------------------------------------------------
(* The invariant.                                                          *)

(* A device or a loop device has no proxy; an object is there once, but    *)
(* for a loop device where LoopTwice allows it.                            *)
OnlyProxied(s) == \A i \in 1..Len(s) : s[i].proxy => Proxied(s[i].id)
EachOnce(s) ==
  \A i, j \in 1..Len(s) : s[i].id = s[j].id => i = j \/ (LoopTwice /\ s[i].id \in Loops)
Side(s) == s \in Seq(Entries) /\ OnlyProxied(s) /\ EachOnce(s)

(* Chains whose indices fit m inputs and n outputs.                        *)
Fitting(m, n) == [name : Names, in : 0..m, out : 0..n]

(* Only a loop device is an input and an output.                           *)
Apart == \A o \in Ids(ins) \cap Ids(outs) : o \in Loops

SetupInv ==
  /\ Side(ins) /\ Side(outs) /\ Apart
  /\ chains \in Seq(Fitting(Len(ins), Len(outs))) /\ selids \in Seq(Names)
  /\ ProxiesExact

\* What the ids of a sequence are.
LEMMA IdsOf ==
  ASSUME NEW s, Side(s)
  PROVE  /\ Len(s) \in Nat /\ s \in Seq(Entries)
         /\ \A i \in 1..Len(s) : s[i].id \in Ids(s)
         /\ \A o \in Ids(s) : o \in Objects /\ \E i \in 1..Len(s) : s[i].id = o
         /\ \A o : o \in Ids(s) <=> Places(s, o) # {}
         /\ \A o : Places(s, o) \subseteq 1..Len(s)
<1>1. s \in Seq(Entries)
  BY DEF Side
<1> QED BY <1>1, EntryFields DEF Ids, Places

\* An object is added to its side.
LEMMA AddedEntry ==
  ASSUME NEW s, Side(s), NEW o \in Objects, NEW t, t = Append(s, Entry(o)),
         o \notin Ids(s) \/ (o \in Loops /\ LoopTwice)
  PROVE  /\ Side(t) /\ Len(t) = Len(s) + 1 /\ Ids(t) = Ids(s) \cup {o}
         /\ CountProxies(t) = IF Proxied(o) THEN CountProxies(s) + 1 ELSE CountProxies(s)
<1>1. s \in Seq(Entries) /\ Len(s) \in Nat
  BY DEF Side
<1>2. /\ Entry(o) \in Entries /\ Entry(o).id = o
      /\ Entry(o).proxy = Proxied(o) /\ Proxied(o) \in BOOLEAN
  BY DEF Entry, Entries, Proxied
<1>3. PICK e : e = Entry(o)
  OBVIOUS
<1>4. /\ t \in Seq(Entries) /\ Len(t) = Len(s) + 1
      /\ \A i \in 1..Len(s) : t[i] = s[i]
      /\ t[Len(s) + 1] = e
  BY <1>1, <1>2, <1>3
<1>5. \A i : i \in 1..Len(t) <=> (i \in 1..Len(s) \/ i = Len(s) + 1)
  BY <1>1, <1>4
<1>6. OnlyProxied(t)
  BY <1>2, <1>3, <1>4, <1>5 DEF Side, OnlyProxied
<1>7. EachOnce(t)
  <2>1. \A i \in 1..Len(s) : s[i].id \in Ids(s)
    BY IdsOf
  <2>2. \A i, j \in 1..Len(s) :
          s[i].id = s[j].id => i = j \/ (LoopTwice /\ s[i].id \in Loops)
    BY DEF Side, EachOnce
  <2> SUFFICES ASSUME NEW i \in 1..Len(t), NEW j \in 1..Len(t), t[i].id = t[j].id
               PROVE  i = j \/ (LoopTwice /\ t[i].id \in Loops)
    BY DEF EachOnce
  <2> QED BY <1>2, <1>3, <1>4, <1>5, <2>1, <2>2
<1>8. Ids(t) = Ids(s) \cup {o}
  BY <1>2, <1>3, <1>4, <1>5 DEF Ids
<1>9. CountProxies(t) = IF Proxied(o) THEN CountProxies(s) + 1 ELSE CountProxies(s)
  BY <1>1, <1>2, ProxyAdded
<1> QED BY <1>4, <1>6, <1>7, <1>8, <1>9 DEF Side

\* The last and the first place of an object: the one the chains are told and
\* the one that is erased are one place, unless it is a loop device twice.
LEMMA GapOf ==
  ASSUME NEW s, Side(s), NEW o \in Ids(s)
  PROVE  /\ Gap(s, o) \in 1..Len(s) /\ s[Gap(s, o)].id = o
         /\ Min(Places(s, o)) \in 1..Len(s) /\ s[Min(Places(s, o))].id = o
         /\ Erased(s, o) = RemoveAt(s, Min(Places(s, o)))
         /\ Gap(s, o) = Min(Places(s, o)) \/ (LoopTwice /\ o \in Loops)
<1>1. Len(s) \in Nat /\ Places(s, o) \subseteq 1..Len(s) /\ Places(s, o) # {}
  BY IdsOf
<1>2. PICK a : a = Max(Places(s, o))
  OBVIOUS
<1>3. PICK b : b = Min(Places(s, o))
  OBVIOUS
<1>4. a \in Places(s, o) /\ b \in Places(s, o)
  BY <1>1, <1>2, <1>3, LastPlace
<1>5. a \in 1..Len(s) /\ s[a].id = o /\ b \in 1..Len(s) /\ s[b].id = o
  BY <1>4 DEF Places
<1>6. a = b \/ (LoopTwice /\ o \in Loops)
  BY <1>5 DEF Side, EachOnce
<1>7. Gap(s, o) = a /\ Erased(s, o) = RemoveAt(s, b)
  BY <1>1, <1>2, <1>3 DEF Gap, Erased
<1> QED BY <1>3, <1>5, <1>6, <1>7

\* An object leaves its side, and its proxy with it.
LEMMA ErasedEntry ==
  ASSUME NEW s, Side(s), NEW o \in Ids(s)
  PROVE  /\ Side(Erased(s, o)) /\ Len(Erased(s, o)) = Len(s) - 1
         /\ Ids(Erased(s, o)) \subseteq Ids(s)
         /\ CountProxies(Erased(s, o))
              = IF s[Gap(s, o)].proxy THEN CountProxies(s) - 1 ELSE CountProxies(s)
         /\ s[Gap(s, o)].proxy => o \notin Loops
<1>1. PICK g : g = Gap(s, o)
  OBVIOUS
<1>2. PICK m : m = Min(Places(s, o))
  OBVIOUS
<1>3. /\ g \in 1..Len(s) /\ s[g].id = o /\ m \in 1..Len(s) /\ s[m].id = o
      /\ Erased(s, o) = RemoveAt(s, m)
      /\ g = m \/ (LoopTwice /\ o \in Loops)
  BY <1>1, <1>2, GapOf
<1>4. /\ s \in Seq(Entries) /\ OnlyProxied(s) /\ EachOnce(s) /\ Len(s) \in Nat
  BY DEF Side
<1>5. PICK t : t = RemoveAt(s, m)
  OBVIOUS
<1>6. /\ t \in Seq(Entries) /\ Len(t) = Len(s) - 1
      /\ \A i \in 1..(Len(s) - 1) : t[i] = s[IF i < m THEN i ELSE i + 1]
  BY <1>3, <1>4, <1>5, ErasedOne
<1>7. \A i \in 1..(Len(s) - 1) : (IF i < m THEN i ELSE i + 1) \in 1..Len(s)
  BY <1>3, <1>4
<1>8. OnlyProxied(t)
  BY <1>4, <1>6, <1>7 DEF OnlyProxied
<1>9. EachOnce(t)
  <2> SUFFICES ASSUME NEW i \in 1..Len(t), NEW j \in 1..Len(t), t[i].id = t[j].id
               PROVE  i = j \/ (LoopTwice /\ t[i].id \in Loops)
    BY DEF EachOnce
  <2>1. PICK k : k = IF i < m THEN i ELSE i + 1
    OBVIOUS
  <2>2. PICK l : l = IF j < m THEN j ELSE j + 1
    OBVIOUS
  <2>3. k \in 1..Len(s) /\ l \in 1..Len(s) /\ t[i] = s[k] /\ t[j] = s[l]
    BY <1>6, <1>7, <2>1, <2>2
  <2>4. k = l \/ (LoopTwice /\ s[k].id \in Loops)
    BY <1>4, <2>3 DEF EachOnce
  <2>5. k = l => i = j
    BY <1>3, <1>4, <1>6, <2>1, <2>2
  <2> QED BY <2>3, <2>4, <2>5
<1>10. Ids(t) \subseteq Ids(s)
  BY <1>6, <1>7 DEF Ids
<1>11. CountProxies(t) = IF s[m].proxy THEN CountProxies(s) - 1 ELSE CountProxies(s)
  BY <1>3, <1>4, <1>5, ProxyRemoved
<1>12. (s[g].proxy => o \notin Loops) /\ (s[m].proxy => o \notin Loops)
  BY <1>3, <1>4 DEF OnlyProxied, Proxied
<1>13. s[m].proxy = s[g].proxy
  <2>1. s[m].proxy \in BOOLEAN /\ s[g].proxy \in BOOLEAN
    BY <1>3, <1>4, EntryFields
  <2> QED BY <1>3, <1>12, <2>1
<1> QED BY <1>1, <1>3, <1>5, <1>6, <1>8, <1>9, <1>10, <1>11, <1>12, <1>13 DEF Side

\* A loop device leaves the other side too; it has no proxy there.
LEMMA OtherEntry ==
  ASSUME NEW s, Side(s), NEW o
  PROVE  /\ Side(Other(s, o)) /\ Ids(Other(s, o)) \subseteq Ids(s)
         /\ OtherGap(s, o) \in 0..Len(s)
         /\ Len(Other(s, o)) = IF OtherGap(s, o) = 0 THEN Len(s) ELSE Len(s) - 1
         /\ CountProxies(Other(s, o)) = CountProxies(s)
<1>1. CASE o \in Loops /\ o \in Ids(s)
  <2>1. Other(s, o) = Erased(s, o) /\ OtherGap(s, o) = Gap(s, o)
    BY <1>1 DEF Other, OtherGap
  <2>2. Gap(s, o) \in 1..Len(s) /\ Len(s) \in Nat
    BY <1>1, GapOf, IdsOf
  <2> QED BY <1>1, <2>1, <2>2, ErasedEntry
<1>2. CASE ~(o \in Loops /\ o \in Ids(s))
  <2>1. Places(s, o) = {} \/ o \notin Loops
    BY <1>2, IdsOf
  <2>2. Other(s, o) = s /\ OtherGap(s, o) = 0
    BY <2>1 DEF Other, OtherGap, Erased, Gap
  <2>3. Len(s) \in Nat
    BY IdsOf
  <2> QED BY <2>2, <2>3
<1> QED BY <1>1, <1>2

-----------------------------------------------------------------------------
(* What is done to the chains.                                             *)

\* A chain of a sequence of them.
LEMMA FittingFields ==
  ASSUME NEW m \in Nat, NEW n \in Nat, NEW cs \in Seq(Fitting(m, n))
  PROVE  /\ Len(cs) \in Nat
         /\ \A k \in 1..Len(cs) : /\ cs[k] \in Fitting(m, n)
                                  /\ cs[k].name \in Names
                                  /\ cs[k].in \in 0..m /\ cs[k].out \in 0..n
<1>1. \A k \in 1..Len(cs) : cs[k] \in Fitting(m, n)
  OBVIOUS
<1> QED BY <1>1 DEF Fitting

\* Chains attached to the places of an input keep a valid index.
LEMMA AttachedIn ==
  ASSUME NEW m \in Nat, NEW n \in Nat, NEW cs \in Seq(Fitting(m, n)),
         NEW p \in Nat, m <= p, NEW places, places \subseteq 1..p
  PROVE  AttachIn(cs, places) \in Seq(Fitting(p, n))
<1>1. places # {} => Max(places) \in places
  BY LastPlace
<1>2. ASSUME NEW k \in 1..Len(cs)
      PROVE  [cs[k] EXCEPT !.in = Attached(cs[k], cs[k].in, places)] \in Fitting(p, n)
  <2>1. cs[k] \in Fitting(m, n) /\ cs[k].in \in 0..m
    BY FittingFields
  <2>2. Attached(cs[k], cs[k].in, places) \in 0..p
    <3>1. \/ Attached(cs[k], cs[k].in, places) = Max(places) /\ places # {}
          \/ Attached(cs[k], cs[k].in, places) = 0
          \/ Attached(cs[k], cs[k].in, places) = cs[k].in
      BY Zenon DEF Attached, None
    <3>2. places # {} => Max(places) \in 1..p
      BY <1>1
    <3> QED BY <2>1, <3>1, <3>2
  <2>3. PICK v : v = Attached(cs[k], cs[k].in, places)
    OBVIOUS
  <2>4. [cs[k] EXCEPT !.in = v] \in Fitting(p, n)
    BY <2>1, <2>2, <2>3 DEF Fitting
  <2> QED BY <2>3, <2>4
<1>3. Len(cs) \in Nat
  BY FittingFields
<1> QED BY <1>2, <1>3 DEF AttachIn

\* The same for an output.
LEMMA AttachedOut ==
  ASSUME NEW m \in Nat, NEW n \in Nat, NEW cs \in Seq(Fitting(m, n)),
         NEW p \in Nat, n <= p, NEW places, places \subseteq 1..p
  PROVE  AttachOut(cs, places) \in Seq(Fitting(m, p))
<1>1. places # {} => Max(places) \in places
  BY LastPlace
<1>2. ASSUME NEW k \in 1..Len(cs)
      PROVE  [cs[k] EXCEPT !.out = Attached(cs[k], cs[k].out, places)] \in Fitting(m, p)
  <2>1. cs[k] \in Fitting(m, n) /\ cs[k].out \in 0..n
    BY FittingFields
  <2>2. Attached(cs[k], cs[k].out, places) \in 0..p
    <3>1. \/ Attached(cs[k], cs[k].out, places) = Max(places) /\ places # {}
          \/ Attached(cs[k], cs[k].out, places) = 0
          \/ Attached(cs[k], cs[k].out, places) = cs[k].out
      BY Zenon DEF Attached, None
    <3>2. places # {} => Max(places) \in 1..p
      BY <1>1
    <3> QED BY <2>1, <3>1, <3>2
  <2>3. PICK v : v = Attached(cs[k], cs[k].out, places)
    OBVIOUS
  <2>4. [cs[k] EXCEPT !.out = v] \in Fitting(m, p)
    BY <2>1, <2>2, <2>3 DEF Fitting
  <2> QED BY <2>3, <2>4
<1>3. Len(cs) \in Nat
  BY FittingFields
<1> QED BY <1>2, <1>3 DEF AttachOut

(* How many objects a side has left when the chains were told a gap.       *)
Left(n, gap) == IF gap = 0 THEN n ELSE n - 1

\* The indices above what is removed move down, and stay valid.
LEMMA MovedIndex ==
  ASSUME NEW n \in Nat, NEW gap \in 0..n, NEW i \in 0..n
  PROVE  Moved(i, gap) \in 0..Left(n, gap) /\ Left(n, gap) \in Nat
BY DEF Moved, Shift, None, Left

\* Chains keep valid indices when they are told of a removal.
LEMMA ShiftedChains ==
  ASSUME NEW m \in Nat, NEW n \in Nat, chains \in Seq(Fitting(m, n)),
         NEW a \in 0..m, NEW b \in 0..n
  PROVE  ShiftChains(a, b) \in Seq(Fitting(Left(m, a), Left(n, b)))
<1>1. ASSUME NEW k \in 1..Len(chains)
      PROVE  [chains[k] EXCEPT !.in = Moved(chains[k].in, a),
                               !.out = Moved(chains[k].out, b)]
               \in Fitting(Left(m, a), Left(n, b))
  <2>1. /\ chains[k] \in Fitting(m, n)
        /\ chains[k].in \in 0..m /\ chains[k].out \in 0..n
    BY FittingFields
  <2>2. PICK i : i = Moved(chains[k].in, a)
    OBVIOUS
  <2>3. PICK o : o = Moved(chains[k].out, b)
    OBVIOUS
  <2>4. i \in 0..Left(m, a) /\ o \in 0..Left(n, b)
    BY <2>1, <2>2, <2>3, MovedIndex
  <2>5. [chains[k] EXCEPT !.in = i, !.out = o] \in Fitting(Left(m, a), Left(n, b))
    BY <2>1, <2>4 DEF Fitting
  <2> QED BY <2>2, <2>3, <2>5
<1>2. Len(chains) \in Nat
  BY FittingFields
<1> DEFINE F(k) == [chains[k] EXCEPT !.in = Moved(chains[k].in, a),
                                     !.out = Moved(chains[k].out, b)]
           S == Fitting(Left(m, a), Left(n, b))
<1>3. ShiftChains(a, b) = [k \in 1..Len(chains) |-> F(k)]
  BY DEF ShiftChains
<1>4. \A k \in 1..Len(chains) : F(k) \in S
  BY <1>1
<1> HIDE DEF F, S
<1>5. [k \in 1..Len(chains) |-> F(k)] \in Seq(S)
  BY <1>2, <1>4
<1> QED BY <1>3, <1>5 DEF S

-----------------------------------------------------------------------------
(* Buffering modes.                                                        *)

\* switch_to_direct_mode() leaves no proxy, and every object in its place.
LEMMA DirectSide ==
  ASSUME NEW s, Side(s)
  PROVE  /\ Side(WithoutProxies(s)) /\ Len(WithoutProxies(s)) = Len(s)
         /\ Ids(WithoutProxies(s)) = Ids(s) /\ CountProxies(WithoutProxies(s)) = 0
<1>1. /\ s \in Seq(Entries) /\ OnlyProxied(s) /\ EachOnce(s) /\ Len(s) \in Nat
      /\ \A i \in 1..Len(s) : s[i] \in Entries
  BY EntryFields DEF Side
<1>2. PICK t : t = WithoutProxies(s)
  OBVIOUS
<1>3. \A i \in 1..Len(s) : /\ [s[i] EXCEPT !.proxy = FALSE] \in Entries
                           /\ [s[i] EXCEPT !.proxy = FALSE].id = s[i].id
                           /\ [s[i] EXCEPT !.proxy = FALSE].proxy = FALSE
  BY <1>1 DEF Entries
<1>4. t \in Seq(Entries) /\ Len(t) = Len(s)
  BY <1>1, <1>2, <1>3 DEF WithoutProxies
<1>5. \A i \in 1..Len(s) : t[i].id = s[i].id /\ t[i].proxy = FALSE
  BY <1>2, <1>3 DEF WithoutProxies
<1>6. OnlyProxied(t) /\ EachOnce(t)
  BY <1>1, <1>4, <1>5 DEF OnlyProxied, EachOnce
<1>7. Ids(t) = Ids(s)
  BY <1>4, <1>5 DEF Ids
<1>8. CountProxies(t) = 0
  BY <1>4, <1>5, ProxiesFinite DEF ProxyPlaces
<1> QED BY <1>2, <1>4, <1>6, <1>7, <1>8 DEF Side

\* switch_to_db_mode() leaves every object in its place.
LEMMA BufferedSide ==
  ASSUME NEW s, Side(s)
  PROVE  /\ Side(WithProxies(s)) /\ Len(WithProxies(s)) = Len(s)
         /\ Ids(WithProxies(s)) = Ids(s) /\ CountProxies(WithProxies(s)) \in Nat
<1>1. /\ s \in Seq(Entries) /\ OnlyProxied(s) /\ EachOnce(s) /\ Len(s) \in Nat
      /\ \A i \in 1..Len(s) : s[i].id \in Objects
  BY EntryFields DEF Side
<1>2. PICK t : t = WithProxies(s)
  OBVIOUS
<1>3. \A i \in 1..Len(s) : /\ Entry(s[i].id) \in Entries /\ Entry(s[i].id).id = s[i].id
                           /\ Entry(s[i].id).proxy = Proxied(s[i].id)
  BY <1>1 DEF Entry, Entries, Proxied
<1>4. t \in Seq(Entries) /\ Len(t) = Len(s)
  BY <1>1, <1>2, <1>3 DEF WithProxies
<1>5. \A i \in 1..Len(s) : t[i].id = s[i].id /\ t[i].proxy = Proxied(s[i].id)
  BY <1>2, <1>3 DEF WithProxies
<1>6. OnlyProxied(t) /\ EachOnce(t)
  BY <1>1, <1>4, <1>5 DEF OnlyProxied, EachOnce
<1>7. Ids(t) = Ids(s)
  BY <1>4, <1>5 DEF Ids
<1>8. CountProxies(t) \in Nat
  BY <1>4, ProxiesFinite
<1> QED BY <1>2, <1>4, <1>6, <1>7, <1>8 DEF Side

(* A proxy is of use only with the db server, which runs then.             *)
Useful == DoubleBuffering /\ HasRealtime /\ HasNonRealtime

\* Whatever mode enable() chooses, the objects stay in their places, and the
\* proxies are counted; there are some only where they are of use.
LEMMA ModeSwitched ==
  ASSUME Side(ins), Side(outs), db = CountProxies(ins) + CountProxies(outs),
         NEW sw, sw = Switched
  PROVE  /\ Side(sw.ins) /\ Len(sw.ins) = Len(ins) /\ Ids(sw.ins) = Ids(ins)
         /\ Side(sw.outs) /\ Len(sw.outs) = Len(outs) /\ Ids(sw.outs) = Ids(outs)
         /\ sw.db = CountProxies(sw.ins) + CountProxies(sw.outs)
         /\ sw.db > 0 => Useful
<1>1. CountProxies(ins) \in Nat /\ CountProxies(outs) \in Nat
  BY ProxiesFinite DEF Side
<1>2. CASE sw = Direct
  <2>1. /\ sw.ins = WithoutProxies(ins) /\ sw.outs = WithoutProxies(outs)
        /\ sw.db = db - CountProxies(ins) - CountProxies(outs)
    BY <1>2 DEF Direct
  <2>2. sw.db = 0
    BY <1>1, <2>1
  <2> QED BY <2>1, <2>2, DirectSide
<1>3. CASE sw = Buffered /\ Useful /\ db = 0
  <2>1. /\ sw.ins = WithProxies(ins) /\ sw.outs = WithProxies(outs)
        /\ sw.db = db + CountProxies(WithProxies(ins)) + CountProxies(WithProxies(outs))
    BY <1>3 DEF Buffered
  <2>2. sw.db = CountProxies(WithProxies(ins)) + CountProxies(WithProxies(outs))
    <3>1. /\ CountProxies(WithProxies(ins)) \in Nat
          /\ CountProxies(WithProxies(outs)) \in Nat
      BY BufferedSide
    <3> QED BY <1>3, <2>1, <3>1
  <2> QED BY <1>3, <2>1, <2>2, BufferedSide
<1>4. CASE sw = Kept /\ (Useful \/ ~(db > 0))
  <2>1. sw.ins = ins /\ sw.outs = outs /\ sw.db = db
    BY <1>4 DEF Kept
  <2> QED BY <1>4, <2>1
<1>5. \/ sw = Direct
      \/ sw = Buffered /\ Useful /\ db = 0
      \/ sw = Kept /\ (Useful \/ ~(db > 0))
  <2>1. CASE Useful
    BY <2>1 DEF Switched, Useful
  <2>2. CASE DoubleBuffering /\ ~(HasRealtime /\ HasNonRealtime)
    BY <2>2 DEF Switched
  <2>3. CASE ~DoubleBuffering
    BY <2>3 DEF Switched
  <2> QED BY <2>1, <2>2, <2>3 DEF Useful
<1> QED BY <1>2, <1>3, <1>4, <1>5

-----------------------------------------------------------------------------
(* Every step keeps the invariant.                                         *)

\* A new chainsetup has nothing.
LEMMA InitSetupInv == SetupInit => SetupInv
<1> SUFFICES ASSUME SetupInit PROVE SetupInv
  OBVIOUS
<1>1. ins = <<>> /\ outs = <<>> /\ chains = <<>> /\ selids = <<>> /\ db = 0 /\ ~enabled
  BY DEF SetupInit
<1>2. PICK e : e = <<>>
  OBVIOUS
<1>3. \A S : e \in Seq(S) /\ Len(e) = 0
  BY <1>2
<1>4. Side(e) /\ Ids(e) = {} /\ CountProxies(e) = 0
  <2>1. Side(e)
    BY <1>3 DEF Side, OnlyProxied, EachOnce
  <2>2. ProxyPlaces(e) = {}
    BY <1>3 DEF ProxyPlaces
  <2>3. CountProxies(e) = 0
    BY <1>3, <2>2, ProxiesFinite
  <2> QED BY <1>3, <2>1, <2>3 DEF Ids
<1>5. ins = e /\ outs = e /\ chains = e /\ selids = e
  BY <1>1, <1>2
<1> QED BY <1>1, <1>3, <1>4, <1>5 DEF SetupInv, Apart, ProxiesExact

\* What the invariant says, by parts.
LEMMA SetupParts ==
  ASSUME SetupInv
  PROVE  /\ Side(ins) /\ Side(outs) /\ Len(ins) \in Nat /\ Len(outs) \in Nat
         /\ CountProxies(ins) \in Nat /\ CountProxies(outs) \in Nat
         /\ db = CountProxies(ins) + CountProxies(outs)
         /\ chains \in Seq(Fitting(Len(ins), Len(outs))) /\ selids \in Seq(Names)
         /\ Len(chains) \in Nat
<1>1. /\ Side(ins) /\ Side(outs) /\ selids \in Seq(Names)
      /\ chains \in Seq(Fitting(Len(ins), Len(outs)))
      /\ db = CountProxies(ins) + CountProxies(outs)
  BY DEF SetupInv, ProxiesExact
<1>2. /\ Len(ins) \in Nat /\ Len(outs) \in Nat
      /\ CountProxies(ins) \in Nat /\ CountProxies(outs) \in Nat
  BY <1>1, IdsOf, ProxiesFinite DEF Side
<1> QED BY <1>1, <1>2

\* Chains and what is selected change; no object does.
LEMMA ObjectsLeft ==
  ASSUME SetupInv, UNCHANGED <<ins, outs, db, option>>, enabled' => enabled,
         chains' \in Seq(Fitting(Len(ins), Len(outs))), selids' \in Seq(Names)
  PROVE  SetupInv'
<1>1. Side(ins)' /\ Side(outs)' /\ Apart'
  BY DEF SetupInv, Apart, Side, OnlyProxied, EachOnce, Ids
<1>2. ProxiesExact'
  BY DEF SetupInv, ProxiesExact, CountProxies, DoubleBuffering, HasRealtime,
         HasNonRealtime, Ids
<1> QED BY <1>1, <1>2 DEF SetupInv

\* Objects change while the chainsetup is not enabled.
LEMMA ObjectsChanged ==
  ASSUME ~enabled', Side(ins'), Side(outs'),
         \A o \in Ids(ins') \cap Ids(outs') : o \in Loops,
         db' = CountProxies(ins') + CountProxies(outs'),
         chains' \in Seq(Fitting(Len(ins'), Len(outs'))), selids' \in Seq(Names)
  PROVE  SetupInv'
<1>1. Side(ins)' /\ Side(outs)'
  BY DEF Side, OnlyProxied, EachOnce
<1>2. Apart'
  BY DEF Apart, Ids
<1>3. ProxiesExact'
  BY DEF ProxiesExact, CountProxies
<1> QED BY <1>1, <1>2, <1>3 DEF SetupInv

\* An added input.
LEMMA NextAddInput == SetupInv /\ AddInput => SetupInv'
<1> SUFFICES ASSUME SetupInv, AddInput PROVE SetupInv'
  OBVIOUS
<1> USE SetupParts
<1>1. PICK o \in Objects :
        /\ MayAdd(ins, o)
        /\ ins' = Append(ins, Entry(o))
        /\ chains' = AttachIn(chains, Places(ins', o))
        /\ db' = CountedProxy(o)
  BY DEF AddInput
<1>2. UNCHANGED <<selids, outs, option, enabled>> /\ ~enabled
  BY DEF AddInput, MayAdd
<1>3. (o \notin Ids(ins) /\ o \notin Ids(outs)) \/ (o \in Loops /\ (LoopTwice \/ o \notin Ids(ins)))
  BY <1>1 DEF MayAdd
<1>4. /\ Side(ins') /\ Len(ins') = Len(ins) + 1 /\ Ids(ins') = Ids(ins) \cup {o}
      /\ CountProxies(ins') = IF Proxied(o) THEN CountProxies(ins) + 1 ELSE CountProxies(ins)
  BY <1>1, <1>3, AddedEntry
<1>5. chains' \in Seq(Fitting(Len(ins'), Len(outs)))
  <2>1. Places(ins', o) \subseteq 1..Len(ins')
    BY <1>4, IdsOf
  <2> QED BY <1>1, <1>4, <2>1, AttachedIn
<1>6. \A p \in Ids(ins') \cap Ids(outs') : p \in Loops
  BY <1>2, <1>3, <1>4 DEF SetupInv, Apart
<1>7. db' = CountProxies(ins') + CountProxies(outs')
  BY <1>1, <1>2, <1>4 DEF CountedProxy
<1> QED BY <1>2, <1>4, <1>5, <1>6, <1>7, ObjectsChanged

\* An added output.
LEMMA NextAddOutput == SetupInv /\ AddOutput => SetupInv'
<1> SUFFICES ASSUME SetupInv, AddOutput PROVE SetupInv'
  OBVIOUS
<1> USE SetupParts
<1>1. PICK o \in Objects :
        /\ MayAdd(outs, o)
        /\ outs' = Append(outs, Entry(o))
        /\ chains' = AttachOut(chains, Places(outs', o))
        /\ db' = CountedProxy(o)
  BY DEF AddOutput
<1>2. UNCHANGED <<selids, ins, option, enabled>> /\ ~enabled
  BY DEF AddOutput, MayAdd
<1>3. (o \notin Ids(ins) /\ o \notin Ids(outs)) \/ (o \in Loops /\ (LoopTwice \/ o \notin Ids(outs)))
  BY <1>1 DEF MayAdd
<1>4. /\ Side(outs') /\ Len(outs') = Len(outs) + 1 /\ Ids(outs') = Ids(outs) \cup {o}
      /\ CountProxies(outs') = IF Proxied(o) THEN CountProxies(outs) + 1 ELSE CountProxies(outs)
  BY <1>1, <1>3, AddedEntry
<1>5. chains' \in Seq(Fitting(Len(ins), Len(outs')))
  <2>1. Places(outs', o) \subseteq 1..Len(outs')
    BY <1>4, IdsOf
  <2> QED BY <1>1, <1>4, <2>1, AttachedOut
<1>6. \A p \in Ids(ins') \cap Ids(outs') : p \in Loops
  BY <1>2, <1>3, <1>4 DEF SetupInv, Apart
<1>7. db' = CountProxies(ins') + CountProxies(outs')
  BY <1>1, <1>2, <1>4 DEF CountedProxy
<1> QED BY <1>2, <1>4, <1>5, <1>6, <1>7, ObjectsChanged

\* A removed input.
LEMMA NextRemoveInput == SetupInv /\ RemoveInput => SetupInv'
<1> SUFFICES ASSUME SetupInv, RemoveInput PROVE SetupInv'
  OBVIOUS
<1> USE SetupParts
<1>1. PICK o \in Ids(ins) :
        /\ chains' = ShiftChains(Gap(ins, o), OtherGap(outs, o))
        /\ ins' = Erased(ins, o) /\ outs' = Other(outs, o)
        /\ db' = Uncounted(ins, o)
  BY DEF RemoveInput
<1>2. UNCHANGED <<selids, enabled>> /\ ~enabled
  BY DEF RemoveInput
<1>3. /\ Side(ins') /\ Len(ins') = Len(ins) - 1 /\ Ids(ins') \subseteq Ids(ins)
      /\ CountProxies(ins') = IF ins[Gap(ins, o)].proxy THEN CountProxies(ins) - 1
                                                        ELSE CountProxies(ins)
      /\ Gap(ins, o) \in 1..Len(ins)
  BY <1>1, ErasedEntry, GapOf
<1>4. /\ Side(outs') /\ Ids(outs') \subseteq Ids(outs)
      /\ OtherGap(outs, o) \in 0..Len(outs)
      /\ Len(outs') = Left(Len(outs), OtherGap(outs, o))
      /\ CountProxies(outs') = CountProxies(outs)
  BY <1>1, OtherEntry DEF Left
<1>5. chains' \in Seq(Fitting(Len(ins'), Len(outs')))
  <2>1. Gap(ins, o) \in 0..Len(ins) /\ Left(Len(ins), Gap(ins, o)) = Len(ins')
    BY <1>3 DEF Left
  <2>2. PICK g : g = Gap(ins, o)
    OBVIOUS
  <2>3. PICK h : h = OtherGap(outs, o)
    OBVIOUS
  <2>4. ShiftChains(g, h) \in Seq(Fitting(Left(Len(ins), g), Left(Len(outs), h)))
    BY <1>4, <2>1, <2>2, <2>3, ShiftedChains
  <2> QED BY <1>1, <1>4, <2>1, <2>2, <2>3, <2>4
<1>6. \A p \in Ids(ins') \cap Ids(outs') : p \in Loops
  BY <1>3, <1>4 DEF SetupInv, Apart
<1>7. db' = CountProxies(ins') + CountProxies(outs')
  BY <1>1, <1>3, <1>4 DEF Uncounted
<1> QED BY <1>2, <1>3, <1>4, <1>5, <1>6, <1>7, ObjectsChanged

\* A removed output.
LEMMA NextRemoveOutput == SetupInv /\ RemoveOutput => SetupInv'
<1> SUFFICES ASSUME SetupInv, RemoveOutput PROVE SetupInv'
  OBVIOUS
<1> USE SetupParts
<1>1. PICK o \in Ids(outs) :
        /\ chains' = ShiftChains(OtherGap(ins, o), Gap(outs, o))
        /\ outs' = Erased(outs, o) /\ ins' = Other(ins, o)
        /\ db' = Uncounted(outs, o)
  BY DEF RemoveOutput
<1>2. UNCHANGED <<selids, enabled>> /\ ~enabled
  BY DEF RemoveOutput
<1>3. /\ Side(outs') /\ Len(outs') = Len(outs) - 1 /\ Ids(outs') \subseteq Ids(outs)
      /\ CountProxies(outs') = IF outs[Gap(outs, o)].proxy THEN CountProxies(outs) - 1
                                                           ELSE CountProxies(outs)
      /\ Gap(outs, o) \in 1..Len(outs)
  BY <1>1, ErasedEntry, GapOf
<1>4. /\ Side(ins') /\ Ids(ins') \subseteq Ids(ins)
      /\ OtherGap(ins, o) \in 0..Len(ins)
      /\ Len(ins') = Left(Len(ins), OtherGap(ins, o))
      /\ CountProxies(ins') = CountProxies(ins)
  BY <1>1, OtherEntry DEF Left
<1>5. chains' \in Seq(Fitting(Len(ins'), Len(outs')))
  <2>1. Gap(outs, o) \in 0..Len(outs) /\ Left(Len(outs), Gap(outs, o)) = Len(outs')
    BY <1>3 DEF Left
  <2>2. PICK g : g = Gap(outs, o)
    OBVIOUS
  <2>3. PICK h : h = OtherGap(ins, o)
    OBVIOUS
  <2>4. ShiftChains(h, g) \in Seq(Fitting(Left(Len(ins), h), Left(Len(outs), g)))
    BY <1>4, <2>1, <2>2, <2>3, ShiftedChains
  <2> QED BY <1>1, <1>4, <2>1, <2>2, <2>3, <2>4
<1>6. \A p \in Ids(ins') \cap Ids(outs') : p \in Loops
  BY <1>3, <1>4 DEF SetupInv, Apart
<1>7. db' = CountProxies(ins') + CountProxies(outs')
  BY <1>1, <1>3, <1>4 DEF Uncounted
<1> QED BY <1>2, <1>3, <1>4, <1>5, <1>6, <1>7, ObjectsChanged

\* Chains are added with nothing attached.
LEMMA NextAddChains == SetupInv /\ AddChains => SetupInv'
<1> SUFFICES ASSUME SetupInv, AddChains PROVE SetupInv'
  OBVIOUS
<1> USE SetupParts
<1>1. PICK s \in {<<n>> : n \in Names} \cup (Names \X Names) :
        /\ chains' = chains \o [k \in 1..Len(Without(s, NamesOf(chains)))
                                  |-> NewChain(Without(s, NamesOf(chains))[k])]
        /\ selids' = s
  BY DEF AddChains
<1>2. UNCHANGED <<ins, outs, db, option, enabled>>
  BY DEF AddChains, audio
<1>3. s \in Seq(Names)
  <2>1. \A n \in Names : <<n>> \in Seq(Names)
    OBVIOUS
  <2>2. ASSUME NEW t \in Names \X Names PROVE t \in Seq(Names)
    <3>1. PICK m \in Names, n \in Names : t = <<m, n>>
      OBVIOUS
    <3>2. <<m, n>> \in Seq(Names)
      OBVIOUS
    <3> QED BY <3>1, <3>2
  <2> QED BY <2>1, <2>2
<1>4. PICK new : new = Without(s, NamesOf(chains))
  OBVIOUS
<1>5. new \in Seq(Names) /\ Len(new) \in Nat
  <2>1. new \in Seq(Names)
    BY <1>3, <1>4, WithoutRest
  <2> QED BY <2>1
<1> DEFINE S == Fitting(Len(ins), Len(outs))
           F(k) == NewChain(new[k])
<1>6. \A k \in 1..Len(new) : F(k) \in S
  <2>1. \A k \in 1..Len(new) : new[k] \in Names
    BY <1>5
  <2> QED BY <2>1 DEF NewChain, None, Fitting
<1>7. chains \in Seq(S) /\ chains' = chains \o [k \in 1..Len(new) |-> F(k)]
  BY <1>1, <1>4
<1> HIDE DEF S, F
<1>8. PICK t : t = [k \in 1..Len(new) |-> F(k)]
  OBVIOUS
<1>9. t \in Seq(S)
  BY <1>5, <1>6, <1>8
<1>10. chains' \in Seq(S)
  BY <1>7, <1>8, <1>9, ConcatProperties
<1> QED BY <1>1, <1>2, <1>3, <1>10, ObjectsLeft DEF S

\* What is selected are names.
LEMMA NextSelectChains == SetupInv /\ SelectChains => SetupInv'
<1> SUFFICES ASSUME SetupInv, SelectChains PROVE SetupInv'
  OBVIOUS
<1> USE SetupParts
<1>1. PICK s \in {<<>>} \cup {<<n>> : n \in Names}
                        \cup {[k \in 1..Len(chains) |-> chains[k].name]} :
        selids' = s
  BY DEF SelectChains
<1>2. UNCHANGED <<chains, ins, outs, db, option, enabled>>
  BY DEF SelectChains, audio
<1>3. [k \in 1..Len(chains) |-> chains[k].name] \in Seq(Names)
  <2>1. \A k \in 1..Len(chains) : chains[k].name \in Names
    BY FittingFields
  <2> QED BY <2>1
<1>4. s \in Seq(Names)
  <2>1. <<>> \in Seq(Names) /\ \A n \in Names : <<n>> \in Seq(Names)
    OBVIOUS
  <2> QED BY <1>3, <2>1, Zenon
<1> QED BY <1>1, <1>2, <1>4, ObjectsLeft

\* Removing chains leaves the others as they are.
LEMMA NextRemoveChains == SetupInv /\ RemoveChains => SetupInv'
<1> SUFFICES ASSUME SetupInv, RemoveChains PROVE SetupInv'
  OBVIOUS
<1> USE SetupParts
<1>1. PICK gone : chains' = Erase(chains, gone)
  BY DEF RemoveChains
<1>2. UNCHANGED <<ins, outs, db, option, enabled>> /\ selids' = <<>>
  BY DEF RemoveChains, audio
<1>3. Erase(chains, gone) \in Seq(Fitting(Len(ins), Len(outs)))
  BY EraseRest
<1>4. selids' \in Seq(Names)
  BY <1>2
<1> QED BY <1>1, <1>2, <1>3, <1>4, ObjectsLeft

\* A renamed chain keeps what it is attached to.
LEMMA NextRenameChain == SetupInv /\ RenameChain => SetupInv'
<1> SUFFICES ASSUME SetupInv, RenameChain PROVE SetupInv'
  OBVIOUS
<1> USE SetupParts
<1>1. PICK n \in Names : chains' = [chains EXCEPT ![FirstSelected].name = n]
  BY DEF RenameChain
<1>2. UNCHANGED <<selids, ins, outs, db, option, enabled>>
  BY DEF RenameChain, audio
<1>3. PICK j : j = FirstSelected
  OBVIOUS
<1> DEFINE S == Fitting(Len(ins), Len(outs))
<1>4. \A k \in 1..Len(chains) : chains[k] \in S /\ [chains[k] EXCEPT !.name = n] \in S
  <2>1. \A c \in S : [c EXCEPT !.name = n] \in S
    BY DEF Fitting
  <2>2. \A k \in 1..Len(chains) : chains[k] \in S
    BY FittingFields
  <2> QED BY <2>1, <2>2
<1>5. chains' = [chains EXCEPT ![j] = [chains[j] EXCEPT !.name = n]]
  BY <1>1, <1>3
<1>6. PICK r : r = [chains[j] EXCEPT !.name = n]
  OBVIOUS
<1>7. j \in 1..Len(chains) => r \in S
  BY <1>4, <1>6
<1> HIDE DEF S
<1>8. chains \in Seq(S)
  BY DEF S
<1>9. chains' \in Seq(S)
  <2>1. chains' = [chains EXCEPT ![j] = r]
    BY <1>5, <1>6
  <2>2. Len(chains) \in Nat /\ chains \in [1..Len(chains) -> S]
    BY <1>8
  <2>3. [chains EXCEPT ![j] = r] \in [1..Len(chains) -> S]
    BY <1>7, <2>2
  <2> QED BY <2>1, <2>2, <2>3
<1> QED BY <1>2, <1>9, ObjectsLeft DEF S

\* Attaching to an object that is there leaves valid indices.
LEMMA NextAttachObject == SetupInv /\ AttachObject => SetupInv'
<1> SUFFICES ASSUME SetupInv, AttachObject PROVE SetupInv'
  OBVIOUS
<1> USE SetupParts
<1>1. UNCHANGED <<selids, ins, outs, db, option, enabled>>
  BY DEF AttachObject, audio
<1>2. ASSUME NEW o, chains' = AttachIn(chains, Places(ins, o))
      PROVE  chains' \in Seq(Fitting(Len(ins), Len(outs)))
  <2>1. Places(ins, o) \subseteq 1..Len(ins)
    BY IdsOf
  <2> QED BY <1>2, <2>1, AttachedIn
<1>3. ASSUME NEW o, chains' = AttachOut(chains, Places(outs, o))
      PROVE  chains' \in Seq(Fitting(Len(ins), Len(outs)))
  <2>1. Places(outs, o) \subseteq 1..Len(outs)
    BY IdsOf
  <2> QED BY <1>3, <2>1, AttachedOut
<1>4. chains' \in Seq(Fitting(Len(ins), Len(outs)))
  BY <1>2, <1>3 DEF AttachObject
<1> QED BY <1>1, <1>4, ObjectsLeft

\* Enabling switches the buffering and counts the proxies.
LEMMA NextEnable == SetupInv /\ Enable => SetupInv'
<1> SUFFICES ASSUME SetupInv, Enable PROVE SetupInv'
  OBVIOUS
<1> USE SetupParts
<1>1. PICK sw : sw = Switched
  OBVIOUS
<1>2. /\ ins' = sw.ins /\ outs' = sw.outs /\ db' = sw.db
      /\ UNCHANGED <<chains, selids, option>>
  BY <1>1 DEF Enable
<1>3. /\ Side(ins') /\ Len(ins') = Len(ins) /\ Ids(ins') = Ids(ins)
      /\ Side(outs') /\ Len(outs') = Len(outs) /\ Ids(outs') = Ids(outs)
      /\ db' = CountProxies(ins') + CountProxies(outs')
      /\ db' > 0 => Useful
  BY <1>1, <1>2, ModeSwitched
<1>4. Side(ins)' /\ Side(outs)'
  BY <1>3 DEF Side, OnlyProxied, EachOnce
<1>5. Apart'
  <2>1. \A o \in Ids(ins') \cap Ids(outs') : o \in Loops
    BY <1>3 DEF SetupInv, Apart
  <2> QED BY <2>1 DEF Apart, Ids
<1>6. Useful' <=> Useful
  <2>1. Ids(ins)' = Ids(ins) /\ Ids(outs)' = Ids(outs)
    BY <1>3 DEF Ids
  <2>2. HasRealtime' <=> HasRealtime
    BY <2>1 DEF HasRealtime
  <2>3. HasNonRealtime' <=> HasNonRealtime
    BY <2>1 DEF HasNonRealtime
  <2>4. DoubleBuffering' <=> DoubleBuffering
    BY <1>2, <2>2 DEF DoubleBuffering
  <2> QED BY <2>2, <2>3, <2>4 DEF Useful
<1>7. ProxiesExact'
  <2>1. (CountProxies(ins) + CountProxies(outs))' = db'
    BY <1>3 DEF CountProxies
  <2>2. db' > 0 => Useful'
    BY <1>3, <1>6
  <2> QED BY <2>1, <2>2 DEF ProxiesExact, Useful
<1>8. (chains \in Seq(Fitting(Len(ins), Len(outs))))' /\ (selids \in Seq(Names))'
  BY <1>2, <1>3
<1> QED BY <1>4, <1>5, <1>7, <1>8 DEF SetupInv

LEMMA NextSetupInv == SetupInv /\ [SetupNext]_setupVars => SetupInv'
<1> SUFFICES ASSUME SetupInv, [SetupNext]_setupVars PROVE SetupInv'
  OBVIOUS
<1>1. CASE Disable
  <2>1. /\ UNCHANGED <<chains, selids, ins, outs, db, option>> /\ ~enabled'
    BY <1>1 DEF Disable
  <2> QED BY <2>1, SetupParts, ObjectsLeft
<1>2. CASE UNCHANGED setupVars
  <2>1. UNCHANGED <<chains, selids, ins, outs, db, option, enabled>>
    BY <1>2 DEF setupVars
  <2> QED BY <2>1, SetupParts, ObjectsLeft
<1> QED
  BY <1>1, <1>2, NextAddChains, NextSelectChains, NextRemoveChains, NextRenameChain,
     NextAddInput, NextAddOutput, NextRemoveInput, NextRemoveOutput, NextAttachObject,
     NextEnable DEF SetupNext

LEMMA SetupInvariant == SetupSpec => []SetupInv
BY InitSetupInv, NextSetupInv, PTL DEF SetupSpec

\* The engine indexes the inputs and outputs with what the chains say: in any
\* order of additions, removals, attachments and connections the index is none
\* or that of an object; and the number of proxies that decides the buffering
\* at the next connection is that of the proxies there are, of which an enabled
\* chainsetup has some only when the db server runs.
THEOREM SetupAlwaysSound == SetupSpec => []SetupSound
<1>1. SetupInv => SetupSound
  <2> SUFFICES ASSUME SetupInv PROVE SetupSound
    OBVIOUS
  <2>1. IndicesValid
    BY SetupParts, FittingFields DEF IndicesValid
  <2> QED BY <2>1 DEF SetupInv, SetupSound
<1> QED BY <1>1, SetupInvariant, PTL

-----------------------------------------------------------------------------
(* Removals.                                                               *)

\* With one place for the object, the chains are told the place that is
\* erased: an index that moves stays at its object.
LEMMA RemovedIndex ==
  ASSUME NEW s, Side(s), ~LoopTwice, NEW o \in Ids(s), NEW i \in 0..Len(s),
         NEW t, t = Erased(s, o)
  PROVE  /\ Object(t, Moved(i, Gap(s, o))) = IF Object(s, i) = o THEN None ELSE Object(s, i)
         /\ o \notin Ids(t)
         /\ \A p \in Ids(s) : p # o => p \in Ids(t)
<1>1. PICK m : m = Gap(s, o)
  OBVIOUS
<1>2. /\ m \in 1..Len(s) /\ s[m].id = o /\ t = RemoveAt(s, m)
  BY <1>1, GapOf
<1>3. /\ s \in Seq(Entries) /\ Len(s) \in Nat
      /\ \A j, k \in 1..Len(s) : s[j].id = s[k].id => j = k
      /\ \A j \in 1..Len(s) : s[j].id \in Objects
  BY EntryFields DEF Side, EachOnce
<1>4. /\ Len(t) = Len(s) - 1
      /\ \A j \in 1..(Len(s) - 1) : t[j] = s[IF j < m THEN j ELSE j + 1]
  BY <1>2, <1>3, ErasedOne
<1>5. \A j \in 1..Len(s) : s[j].id = o => j = m
  BY <1>2, <1>3
<1>6. o \notin Ids(t)
  <2>1. ASSUME NEW j \in 1..Len(t) PROVE t[j].id # o
    <3>1. PICK k : k = IF j < m THEN j ELSE j + 1
      OBVIOUS
    <3>2. k \in 1..Len(s) /\ k # m /\ t[j] = s[k]
      BY <1>2, <1>3, <1>4, <3>1
    <3> QED BY <1>5, <3>2
  <2> QED BY <2>1 DEF Ids
<1>7. ASSUME NEW p \in Ids(s), p # o PROVE p \in Ids(t)
  <2>1. PICK k \in 1..Len(s) : s[k].id = p
    BY DEF Ids
  <2>2. k # m
    BY <1>2, <1>7, <2>1
  <2>3. PICK j : j = IF k < m THEN k ELSE k - 1
    OBVIOUS
  <2>4. j \in 1..Len(t) /\ k = IF j < m THEN j ELSE j + 1
    BY <1>2, <1>3, <1>4, <2>1, <2>2, <2>3
  <2>5. t[j] = s[k]
    BY <1>4, <2>4
  <2> QED BY <2>1, <2>4, <2>5 DEF Ids
<1>8. Object(t, Moved(i, m)) = IF Object(s, i) = o THEN None ELSE Object(s, i)
  <2>1. i \in Nat /\ m \in Nat /\ m > 0 /\ m <= Len(s)
    BY <1>2, <1>3
  <2>2. Moved(i, m) = IF i > m THEN i - 1 ELSE IF i = m THEN 0 ELSE i
    BY <2>1 DEF Moved, Shift, None
  <2>3. CASE i = 0
    <3>1. Moved(i, m) = 0 /\ 0 \notin 1..Len(t) /\ 0 \notin 1..Len(s)
      BY <2>1, <2>2, <2>3
    <3> QED BY <2>3, <3>1 DEF Object, None
  <2>4. CASE i = m
    <3>1. Moved(i, m) = 0 /\ 0 \notin 1..Len(t)
      BY <2>1, <2>2, <2>4
    <3>2. Object(s, i) = o
      BY <1>2, <2>4 DEF Object
    <3> QED BY <3>1, <3>2 DEF Object, None
  <2>5. CASE i # 0 /\ i # m
    <3>1. PICK j : j = Moved(i, m)
      OBVIOUS
    <3>2. j \in 1..Len(t) /\ i = (IF j < m THEN j ELSE j + 1) /\ i \in 1..Len(s)
      BY <1>3, <1>4, <2>1, <2>2, <2>5, <3>1
    <3>3. t[j] = s[i] /\ s[i].id # o
      BY <1>4, <1>5, <2>5, <3>2
    <3> QED BY <3>1, <3>2, <3>3 DEF Object
  <2> QED BY <2>3, <2>4, <2>5
<1> QED BY <1>1, <1>6, <1>7, <1>8

\* The same for a loop device on its other side, and for no object there.
LEMMA OtherIndex ==
  ASSUME NEW s, Side(s), ~LoopTwice, NEW o, o \in Ids(s) => o \in Loops,
         NEW i \in 0..Len(s), NEW t, t = Other(s, o)
  PROVE  /\ Object(t, Moved(i, OtherGap(s, o)))
              = IF Object(s, i) = o THEN None ELSE Object(s, i)
         /\ o \notin Ids(t)
         /\ \A p \in Ids(s) : p # o => p \in Ids(t)
<1>1. CASE o \in Ids(s)
  <2>1. t = Erased(s, o) /\ OtherGap(s, o) = Gap(s, o)
    BY <1>1 DEF Other, OtherGap
  <2> QED BY <1>1, <2>1, RemovedIndex
<1>2. CASE o \notin Ids(s)
  <2>1. Places(s, o) = {}
    BY <1>2, IdsOf
  <2>2. t = s /\ OtherGap(s, o) = 0
    BY <2>1 DEF Other, OtherGap, Erased, Gap
  <2>3. Moved(i, 0) = i
    BY DEF Moved
  <2>4. Object(s, i) = o => Object(s, i) = None
    BY <1>2, IdsOf DEF Object
  <2> QED BY <1>2, <2>2, <2>3, <2>4
<1> QED BY <1>1, <1>2

\* A chain has an object of its side, or none.
LEMMA ObjectOf ==
  ASSUME NEW s, Side(s), NEW i
  PROVE  Object(s, i) = None \/ Object(s, i) \in Ids(s)
BY IdsOf DEF Object

\* The fields of a chain that was told of a removal.
LEMMA ShiftedFields ==
  ASSUME NEW m \in Nat, NEW n \in Nat, chains \in Seq(Fitting(m, n)),
         NEW a, NEW b, NEW k \in 1..Len(chains)
  PROVE  /\ ShiftChains(a, b)[k].in = Moved(chains[k].in, a)
         /\ ShiftChains(a, b)[k].out = Moved(chains[k].out, b)
<1>1. chains[k] \in Fitting(m, n)
  BY FittingFields
<1>2. PICK i : i = Moved(chains[k].in, a)
  OBVIOUS
<1>3. PICK o : o = Moved(chains[k].out, b)
  OBVIOUS
<1>4. PICK c : c = chains[k]
  OBVIOUS
<1>5. [c EXCEPT !.in = i, !.out = o].in = i /\ [c EXCEPT !.in = i, !.out = o].out = o
  BY <1>1, <1>4 DEF Fitting
<1>6. ShiftChains(a, b)[k] = [c EXCEPT !.in = i, !.out = o]
  BY <1>2, <1>3, <1>4 DEF ShiftChains
<1> QED BY <1>2, <1>3, <1>5, <1>6

(* What RemovalsExact says of a step.                                      *)
KeepsObjects ==
  \A k \in 1..Len(chains) :
    /\ Object(ins', chains'[k].in) = Remaining(Object(ins, chains[k].in))
    /\ Object(outs', chains'[k].out) = Remaining(Object(outs, chains[k].out))

LEMMA RemoveInputKeeps ==
  ASSUME SetupInv, ~LoopTwice, RemoveInput
  PROVE  KeepsObjects
<1> USE SetupParts
<1>1. PICK o \in Ids(ins) :
        /\ chains' = ShiftChains(Gap(ins, o), OtherGap(outs, o))
        /\ ins' = Erased(ins, o) /\ outs' = Other(outs, o)
  BY DEF RemoveInput
<1> SUFFICES ASSUME NEW k \in 1..Len(chains)
             PROVE  /\ Object(ins', chains'[k].in) = Remaining(Object(ins, chains[k].in))
                    /\ Object(outs', chains'[k].out) = Remaining(Object(outs, chains[k].out))
  BY DEF KeepsObjects
<1>2. PICK i : i = chains[k].in
  OBVIOUS
<1>3. PICK j : j = chains[k].out
  OBVIOUS
<1>4. i \in 0..Len(ins) /\ j \in 0..Len(outs)
  BY <1>2, <1>3, FittingFields
<1>5. /\ chains'[k].in = Moved(i, Gap(ins, o))
      /\ chains'[k].out = Moved(j, OtherGap(outs, o))
  BY <1>1, <1>2, <1>3, ShiftedFields
<1>6. o \in Ids(outs) => o \in Loops
  BY DEF SetupInv, Apart
<1>7. /\ Object(ins', chains'[k].in) = IF Object(ins, i) = o THEN None ELSE Object(ins, i)
      /\ o \notin Ids(ins')
      /\ \A p \in Ids(ins) : p # o => p \in Ids(ins')
  BY <1>1, <1>4, <1>5, RemovedIndex
<1>8. /\ Object(outs', chains'[k].out) = IF Object(outs, j) = o THEN None ELSE Object(outs, j)
      /\ o \notin Ids(outs')
      /\ \A p \in Ids(outs) : p # o => p \in Ids(outs')
  BY <1>1, <1>4, <1>5, <1>6, OtherIndex
<1>9. /\ Object(ins, i) = None \/ Object(ins, i) \in Ids(ins)
      /\ Object(outs, j) = None \/ Object(outs, j) \in Ids(outs)
  BY ObjectOf
<1> QED BY <1>2, <1>3, <1>7, <1>8, <1>9 DEF Remaining

LEMMA RemoveOutputKeeps ==
  ASSUME SetupInv, ~LoopTwice, RemoveOutput
  PROVE  KeepsObjects
<1> USE SetupParts
<1>1. PICK o \in Ids(outs) :
        /\ chains' = ShiftChains(OtherGap(ins, o), Gap(outs, o))
        /\ outs' = Erased(outs, o) /\ ins' = Other(ins, o)
  BY DEF RemoveOutput
<1> SUFFICES ASSUME NEW k \in 1..Len(chains)
             PROVE  /\ Object(ins', chains'[k].in) = Remaining(Object(ins, chains[k].in))
                    /\ Object(outs', chains'[k].out) = Remaining(Object(outs, chains[k].out))
  BY DEF KeepsObjects
<1>2. PICK i : i = chains[k].in
  OBVIOUS
<1>3. PICK j : j = chains[k].out
  OBVIOUS
<1>4. i \in 0..Len(ins) /\ j \in 0..Len(outs)
  BY <1>2, <1>3, FittingFields
<1>5. /\ chains'[k].in = Moved(i, OtherGap(ins, o))
      /\ chains'[k].out = Moved(j, Gap(outs, o))
  BY <1>1, <1>2, <1>3, ShiftedFields
<1>6. o \in Ids(ins) => o \in Loops
  BY DEF SetupInv, Apart
<1>7. /\ Object(outs', chains'[k].out) = IF Object(outs, j) = o THEN None ELSE Object(outs, j)
      /\ o \notin Ids(outs')
      /\ \A p \in Ids(outs) : p # o => p \in Ids(outs')
  BY <1>1, <1>4, <1>5, RemovedIndex
<1>8. /\ Object(ins', chains'[k].in) = IF Object(ins, i) = o THEN None ELSE Object(ins, i)
      /\ o \notin Ids(ins')
      /\ \A p \in Ids(ins) : p # o => p \in Ids(ins')
  BY <1>1, <1>4, <1>5, <1>6, OtherIndex
<1>9. /\ Object(ins, i) = None \/ Object(ins, i) \in Ids(ins)
      /\ Object(outs, j) = None \/ Object(outs, j) \in Ids(outs)
  BY ObjectOf
<1> QED BY <1>2, <1>3, <1>7, <1>8, <1>9 DEF Remaining

\* No other step takes an object away.
LEMMA NoneRemoved ==
  ASSUME SetupInv, [SetupNext]_setupVars, ~RemoveInput, ~RemoveOutput
  PROVE  ~(Len(ins') + Len(outs') < Len(ins) + Len(outs))
<1> USE SetupParts
<1>1. CASE AddInput
  <2>1. PICK o \in Objects : ins' = Append(ins, Entry(o))
    BY <1>1 DEF AddInput
  <2>2. ins \in Seq(Entries) /\ outs' = outs
    BY <1>1 DEF AddInput, Side
  <2>3. Len(ins') = Len(ins) + 1
    BY <2>1, <2>2
  <2> QED BY <2>2, <2>3
<1>2. CASE AddOutput
  <2>1. PICK o \in Objects : outs' = Append(outs, Entry(o))
    BY <1>2 DEF AddOutput
  <2>2. outs \in Seq(Entries) /\ ins' = ins
    BY <1>2 DEF AddOutput, Side
  <2>3. Len(outs') = Len(outs) + 1
    BY <2>1, <2>2
  <2> QED BY <2>2, <2>3
<1>3. CASE Enable
  <2>1. PICK sw : sw = Switched
    OBVIOUS
  <2>2. ins' = sw.ins /\ outs' = sw.outs
    BY <1>3, <2>1 DEF Enable
  <2>3. Len(ins') = Len(ins) /\ Len(outs') = Len(outs)
    BY <2>1, <2>2, ModeSwitched
  <2> QED BY <2>3
<1>4. CASE \/ AddChains \/ SelectChains \/ RemoveChains \/ RenameChain \/ AttachObject
           \/ Disable \/ UNCHANGED setupVars
  <2>1. UNCHANGED <<ins, outs>>
    BY <1>4 DEF AddChains, SelectChains, RemoveChains, RenameChain, AttachObject,
                Disable, setupVars, audio
  <2> QED BY <2>1
<1> QED BY <1>1, <1>2, <1>3, <1>4 DEF SetupNext

\* Where a loop device is added once, removing an object disconnects the chains
\* that had it, and every other chain keeps the object it had, on both sides,
\* although the indices behind it move.
THEOREM RemovalsAlwaysExact ==
  ASSUME ~LoopTwice
  PROVE  SetupSpec => RemovalsExact
<1>1. SetupInv /\ [SetupNext]_setupVars
        => [Len(ins') + Len(outs') < Len(ins) + Len(outs) =>
              \A k \in 1..Len(chains) :
                /\ Object(ins', chains'[k].in) = Remaining(Object(ins, chains[k].in))
                /\ Object(outs', chains'[k].out) = Remaining(Object(outs, chains[k].out))]_setupVars
  <2> SUFFICES ASSUME SetupInv, [SetupNext]_setupVars,
                      Len(ins') + Len(outs') < Len(ins) + Len(outs)
               PROVE  KeepsObjects
    BY DEF KeepsObjects
  <2> QED BY NoneRemoved, RemoveInputKeeps, RemoveOutputKeeps
<1> QED BY <1>1, SetupInvariant, PTL DEF SetupSpec, RemovalsExact
=============================================================================
