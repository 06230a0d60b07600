--------------------------- MODULE Formats_proofs ----------------------------
(***************************************************************************)
(* What is read and written: theorems about GJson, for any strings,        *)
(* numbers and depths and however many lexemes, edits and failures, about  *)
(* WireFormat, for a byte, an int and a long of any widths, and about      *)
(* StringHelpers, for strings of any characters and any length.            *)
(***************************************************************************)
EXTENDS GJson, WireFormat, StringHelpers, DataTheorems

(***************************************************************************)
(* GJson.  The values alive are a forest: a container is older than what   *)
(* it holds, every value but the roots has one place in one container, and *)
(* the roots are held from outside, by the root of the parse, by the       *)
(* client, or inside a round by the callback.  A release frees the tree    *)
(* under a value and nothing else.  The parser's stack is a path in the    *)
(* forest, as deep as mjson's nesting and of the same kinds.  The forest   *)
(* is claimed until a push or a set fails, the stack whatever fails.       *)
(***************************************************************************)
JsonKinds == Containers \cup Scalars
JsonEnds == {"no", "stop", "crash"}
JsonPurposes == {"value", "add", "set", "push", "hollow", "key", "string"}
JsonEvents == Structure \cup Scalars \cup {"none", "key"}

KidSet == [key: Int, n: Nat]
NodeSet ==
  [kind: JsonKinds, v: Nat, kids: Seq(KidSet), hollow: BOOLEAN, freed: Nat]
ParseData ==
  [root: Nat, stack: Seq(Nat), room: Nat, last_key: Int, last_alloc: Nat, end: JsonEnds]
ScanSet ==
  [expecting: {"value", "key", "colon", "comma"}, nesting: Seq(Containers),
   status: {"more", "done", "error"}, event: JsonEvents]

JsonType ==
  /\ node \in Seq(NodeSet) /\ d \in ParseData /\ failed \in SUBSET JsonPurposes
  /\ sc \in ScanSet

(* A container is older than what it holds.                                *)
Ordered(nodes) ==
  \A p \in DOMAIN nodes : \A i \in DOMAIN nodes[p].kids :
    nodes[p].kids[i].n \in p + 1 .. Len(nodes)

Alive(nodes) == {n \in DOMAIN nodes : nodes[n].freed = 0}

KidNumbers(kids) == {kids[i].n : i \in DOMAIN kids}
WithKid(kids, k, n) == [kids EXCEPT ![k].n = n]
WithKids(nodes, p, kids) == [nodes EXCEPT ![p].kids = kids]
Distinct(kids) == \A i, j \in DOMAIN kids : kids[i].n = kids[j].n => i = j

(* The nodes alive are trees whose roots are held from outside.            *)
Forest(nodes, roots) ==
  /\ roots \subseteq Alive(nodes)
  /\ \A n \in DOMAIN nodes : nodes[n].freed \in {0, 1}
  /\ \A p \in Alive(nodes) : \A i \in DOMAIN nodes[p].kids :
       nodes[p].kids[i].n \in Alive(nodes) \ roots
  /\ \A p, q \in Alive(nodes) :
       \A i \in DOMAIN nodes[p].kids, j \in DOMAIN nodes[q].kids :
         nodes[p].kids[i].n = nodes[q].kids[j].n => p = q /\ i = j
  /\ \A n \in Alive(nodes) \ roots :
       \E p \in Alive(nodes) : \E i \in DOMAIN nodes[p].kids : nodes[p].kids[i].n = n

Roots(root, taken) == taken \cup ({root} \ {0})

(* The parser's stack: a path of containers alive, the scanner's nesting.  *)
StackInv(s, nesting) ==
  /\ Len(s.d.stack) = Len(nesting)
  /\ \A i \in DOMAIN s.d.stack :
       /\ s.d.stack[i] \in Alive(s.node) /\ s.node[s.d.stack[i]].kind = nesting[i]
       /\ \A j \in DOMAIN s.d.stack : j < i => s.d.stack[j] < s.d.stack[i]
       /\ (i > 1 /\ "set" \notin s.failed) =>
            s.d.stack[i] \in KidNumbers(s.node[s.d.stack[i - 1]].kids)

ForestInv(s, pending, taken) ==
  (s.d.end # "crash" /\ s.failed \cap {"set", "push"} = {}) =>
    /\ Forest(s.node, Roots(s.d.root, taken) \cup pending)
    /\ s.d.root \notin taken

ScanInv == sc.status = "more" /\ (sc.nesting = <<>> => sc.expecting = "value")

JsonInv ==
  /\ JsonType
  /\ Ordered(node)
  /\ phase = "parsing" => /\ ScanInv /\ d.end = "no" /\ StackInv(State, sc.nesting)
                          /\ d.stack = <<>> => d.root = 0
  /\ phase # "crashed" => d.end # "crash"
  /\ ForestInv(State, {}, loose)

-----------------------------------------------------------------------------
(* Sequences of kids.                                                      *)
LEMMA NodeType ==
  ASSUME NEW nodes \in Seq(NodeSet)
  PROVE  /\ Len(nodes) \in Nat /\ DOMAIN nodes = 1 .. Len(nodes)
         /\ \A n \in DOMAIN nodes :
              /\ nodes[n] \in NodeSet /\ nodes[n].freed \in Nat
              /\ nodes[n].kids \in Seq(KidSet)
              /\ DOMAIN nodes[n].kids = 1 .. Len(nodes[n].kids)
              /\ Len(nodes[n].kids) \in Nat
              /\ \A i \in DOMAIN nodes[n].kids :
                   nodes[n].kids[i] \in KidSet /\ nodes[n].kids[i].n \in Nat
<1>1. Len(nodes) \in Nat /\ DOMAIN nodes = 1 .. Len(nodes)
  BY LenProperties
<1>2. ASSUME NEW n \in DOMAIN nodes
      PROVE  /\ nodes[n] \in NodeSet /\ nodes[n].freed \in Nat
             /\ nodes[n].kids \in Seq(KidSet)
  <2>1. nodes[n] \in NodeSet
    BY <1>1, ElementOfSeq
  <2> QED
    BY <2>1 DEF NodeSet, KidSet
<1>3. ASSUME NEW kids \in Seq(KidSet)
      PROVE  /\ DOMAIN kids = 1 .. Len(kids) /\ Len(kids) \in Nat
             /\ \A i \in DOMAIN kids : kids[i] \in KidSet /\ kids[i].n \in Nat
  <2>1. DOMAIN kids = 1 .. Len(kids) /\ Len(kids) \in Nat
    BY LenProperties
  <2>2. \A i \in DOMAIN kids : kids[i] \in KidSet
    BY <2>1, ElementOfSeq
  <2> QED
    BY <2>1, <2>2 DEF KidSet
<1> QED
  BY <1>1, <1>2, <1>3

LEMMA UptoIsFinite ==
  ASSUME NEW n \in Nat
  PROVE  IsFiniteSet(1 .. n) /\ Cardinality(1 .. n) = n
<1>1. IsFiniteSet(1 .. n) /\ Cardinality(1 .. n) = IF 1 > n THEN 0 ELSE n - 1 + 1
  BY FS_Interval
<1> QED
  BY <1>1

LEMMA InsertedKids ==
  ASSUME NEW kids \in Seq(KidSet), NEW k \in 1 .. Len(kids) + 1, NEW e \in KidSet
  PROVE  /\ InsertAt(kids, k, e) \in Seq(KidSet)
         /\ Len(InsertAt(kids, k, e)) = Len(kids) + 1
         /\ \A j \in 1 .. Len(kids) + 1 :
              InsertAt(kids, k, e)[j] =
                IF j < k THEN kids[j] ELSE IF j = k THEN e ELSE kids[j - 1]
BY InsertAtProperties

LEMMA KidsInsert ==
  ASSUME NEW kids \in Seq(KidSet), NEW k \in 1 .. Len(kids) + 1, NEW key \in Int,
         NEW n \in Nat, n \notin KidNumbers(kids)
  PROVE  /\ InsertAt(kids, k, Kid(key, n)) \in Seq(KidSet)
         /\ Distinct(kids) => Distinct(InsertAt(kids, k, Kid(key, n)))
         /\ KidNumbers(InsertAt(kids, k, Kid(key, n))) = KidNumbers(kids) \cup {n}
<1> DEFINE new == InsertAt(kids, k, Kid(key, n))
<1>1. Kid(key, n) \in KidSet /\ Kid(key, n).n = n
  BY DEF Kid, KidSet
<1>2. /\ new \in Seq(KidSet) /\ Len(new) = Len(kids) + 1
      /\ \A j \in 1 .. Len(kids) + 1 :
           new[j] = IF j < k THEN kids[j] ELSE IF j = k THEN Kid(key, n) ELSE kids[j - 1]
  <2> DEFINE e == Kid(key, n)
  <2>1. e \in KidSet /\ k \in 1 .. Len(kids) + 1
    BY <1>1
  <2> HIDE DEF e
  <2>2. /\ InsertAt(kids, k, e) \in Seq(KidSet)
        /\ Len(InsertAt(kids, k, e)) = Len(kids) + 1
        /\ \A j \in 1 .. Len(kids) + 1 :
             InsertAt(kids, k, e)[j] =
               IF j < k THEN kids[j] ELSE IF j = k THEN e ELSE kids[j - 1]
    BY ONLY kids \in Seq(KidSet), <2>1, InsertedKids
  <2> QED
    BY <2>2 DEF e
<1>3. /\ DOMAIN kids = 1 .. Len(kids) /\ DOMAIN new = 1 .. Len(kids) + 1
      /\ Len(kids) \in Nat
  BY <1>2, LenProperties
<1> HIDE DEF new
<1> DEFINE old(j) == IF j < k THEN j ELSE j - 1
<1>a. \A j \in DOMAIN new : j # k => old(j) \in DOMAIN kids /\ new[j] = kids[old(j)]
  BY <1>2, <1>3
<1>b. \A i, j \in DOMAIN new : i # k /\ j # k /\ old(i) = old(j) => i = j
  BY <1>3
<1>c. new[k].n = n /\ \A j \in DOMAIN kids : kids[j].n # n
  BY <1>1, <1>2 DEF KidNumbers
<1> HIDE DEF old
<1>4. Distinct(kids) => Distinct(new)
  BY <1>a, <1>b, <1>c DEF Distinct
<1>5. KidNumbers(new) \subseteq KidNumbers(kids) \cup {n}
  BY <1>a, <1>c DEF KidNumbers
<1>6. ASSUME NEW i \in DOMAIN kids PROVE kids[i].n \in KidNumbers(new)
  <2>1. new[IF i < k THEN i ELSE i + 1] = kids[i]
    BY <1>2, <1>3
  <2>2. (IF i < k THEN i ELSE i + 1) \in DOMAIN new
    BY <1>3
  <2> QED
    BY <2>1, <2>2 DEF KidNumbers
<1>7. n \in KidNumbers(new)
  <2>1. k \in DOMAIN new /\ new[k] = Kid(key, n)
    BY <1>2, <1>3
  <2> QED
    BY <1>1, <2>1 DEF KidNumbers
<1>8. KidNumbers(kids) \subseteq KidNumbers(new)
  BY <1>6 DEF KidNumbers
<1> QED
  BY <1>2, <1>4, <1>5, <1>7, <1>8 DEF new

LEMMA KidsRemove ==
  ASSUME NEW kids \in Seq(KidSet), NEW k \in DOMAIN kids
  PROVE  /\ RemoveAt(kids, k) \in Seq(KidSet)
         /\ KidNumbers(RemoveAt(kids, k)) \subseteq KidNumbers(kids)
         /\ Distinct(kids) =>
              /\ Distinct(RemoveAt(kids, k))
              /\ KidNumbers(RemoveAt(kids, k)) = KidNumbers(kids) \ {kids[k].n}
<1> DEFINE new == RemoveAt(kids, k)
<1>1. DOMAIN kids = 1 .. Len(kids) /\ Len(kids) \in Nat
  BY LenProperties
<1>2. /\ new \in Seq(KidSet) /\ Len(new) = Len(kids) - 1
      /\ \A j \in 1 .. Len(kids) - 1 : new[j] = IF j < k THEN kids[j] ELSE kids[j + 1]
  BY <1>1, RemoveAtProperties
<1>3. DOMAIN new = 1 .. Len(kids) - 1
  BY <1>2, LenProperties
<1> HIDE DEF new
<1> DEFINE old(j) == IF j < k THEN j ELSE j + 1
<1>a. \A j \in DOMAIN new :
        old(j) \in DOMAIN kids /\ old(j) # k /\ new[j] = kids[old(j)]
  BY <1>1, <1>2, <1>3
<1>b. \A i, j \in DOMAIN new : old(i) = old(j) => i = j
  BY <1>1, <1>3
<1> HIDE DEF old
<1>9. KidNumbers(new) \subseteq KidNumbers(kids)
  BY <1>a DEF KidNumbers
<1>4. Distinct(kids) => Distinct(new)
  BY <1>a, <1>b DEF Distinct
<1>5. ASSUME Distinct(kids), NEW j \in DOMAIN new
      PROVE  new[j].n \in KidNumbers(kids) \ {kids[k].n}
  BY <1>5, <1>a DEF KidNumbers, Distinct
<1>6. ASSUME NEW i \in DOMAIN kids, i # k PROVE kids[i].n \in KidNumbers(new)
  <2>1. new[IF i < k THEN i ELSE i - 1] = kids[i]
    BY <1>1, <1>2, <1>6
  <2>2. (IF i < k THEN i ELSE i - 1) \in DOMAIN new
    BY <1>1, <1>3, <1>6
  <2> QED
    BY <2>1, <2>2 DEF KidNumbers
<1>7. KidNumbers(kids) \ {kids[k].n} \subseteq KidNumbers(new)
  BY <1>6 DEF KidNumbers
<1>8. Distinct(kids) => KidNumbers(new) \subseteq KidNumbers(kids) \ {kids[k].n}
  BY <1>5 DEF KidNumbers
<1> QED
  BY <1>2, <1>4, <1>7, <1>8, <1>9 DEF new

LEMMA KidsReplace ==
  ASSUME NEW kids \in Seq(KidSet), NEW k \in DOMAIN kids, NEW n \in Nat,
         n \notin KidNumbers(kids)
  PROVE  /\ WithKid(kids, k, n) \in Seq(KidSet)
         /\ n \in KidNumbers(WithKid(kids, k, n))
         /\ KidNumbers(WithKid(kids, k, n)) \subseteq KidNumbers(kids) \cup {n}
         /\ Distinct(kids) =>
              /\ Distinct(WithKid(kids, k, n))
              /\ KidNumbers(WithKid(kids, k, n)) = (KidNumbers(kids) \ {kids[k].n}) \cup {n}
<1> DEFINE e == [kids[k] EXCEPT !.n = n]
           new == [kids EXCEPT ![k] = e]
<1>1. DOMAIN kids = 1 .. Len(kids) /\ Len(kids) \in Nat /\ kids[k] \in KidSet
  BY LenProperties, ElementOfSeq
<1>2. e \in KidSet /\ e.n = n
  BY <1>1 DEF KidSet
<1>3. /\ new \in Seq(KidSet) /\ DOMAIN new = DOMAIN kids
      /\ \A j \in DOMAIN kids : new[j] = IF j = k THEN e ELSE kids[j]
  <2>1. new \in Seq(KidSet)
    BY <1>2, ExceptSeq
  <2> QED
    BY <2>1
<1>4. WithKid(kids, k, n) = new
  BY DEF WithKid
<1> HIDE DEF new, e
<1>5. Distinct(kids) => Distinct(new)
  BY <1>2, <1>3 DEF Distinct, KidNumbers
<1>6. Distinct(kids) => KidNumbers(new) \subseteq (KidNumbers(kids) \ {kids[k].n}) \cup {n}
  BY <1>2, <1>3 DEF KidNumbers, Distinct
<1>8. KidNumbers(new) \subseteq KidNumbers(kids) \cup {n}
  BY <1>2, <1>3 DEF KidNumbers
<1>7. (KidNumbers(kids) \ {kids[k].n}) \cup {n} \subseteq KidNumbers(new)
  BY <1>2, <1>3 DEF KidNumbers, Distinct
<1> QED
  BY <1>3, <1>4, <1>5, <1>6, <1>7, <1>8

-----------------------------------------------------------------------------
(* The nodes below a node.                                                 *)
LEMMA BelowIs ==
  ASSUME NEW nodes \in Seq(NodeSet), Ordered(nodes), NEW n \in DOMAIN nodes
  PROVE  /\ Below(nodes, n) \subseteq DOMAIN nodes /\ n \in Below(nodes, n)
         /\ Closed(nodes, Below(nodes, n))
         /\ \A S \in SUBSET DOMAIN nodes :
              n \in S /\ Closed(nodes, S) => Below(nodes, n) \subseteq S
<1>1. Below(nodes, n) \subseteq DOMAIN nodes /\ n \in Below(nodes, n)
  BY DEF Below
<1>2. \A S \in SUBSET DOMAIN nodes :
        n \in S /\ Closed(nodes, S) => Below(nodes, n) \subseteq S
  BY DEF Below
<1>3. ASSUME NEW p \in Below(nodes, n), NEW i \in DOMAIN nodes[p].kids
      PROVE  nodes[p].kids[i].n \in Below(nodes, n)
  <2>1. nodes[p].kids[i].n \in DOMAIN nodes
    BY <1>1, NodeType DEF Ordered
  <2>2. ASSUME NEW S \in SUBSET DOMAIN nodes, n \in S, Closed(nodes, S)
        PROVE  nodes[p].kids[i].n \in S
    BY <1>2, <2>2 DEF Closed
  <2> QED
    BY <2>1, <2>2 DEF Below
<1> QED
  BY <1>1, <1>2, <1>3 DEF Closed

LEMMA BelowIsAbove ==
  ASSUME NEW nodes \in Seq(NodeSet), Ordered(nodes), NEW n \in DOMAIN nodes
  PROVE  \A m \in Below(nodes, n) : m >= n
<1> DEFINE S == {m \in DOMAIN nodes : m >= n}
<1>1. n \in S /\ S \subseteq DOMAIN nodes
  BY NodeType
<1>2. Closed(nodes, S)
  <2> SUFFICES ASSUME NEW p \in S, NEW i \in DOMAIN nodes[p].kids
               PROVE  nodes[p].kids[i].n \in S
    BY DEF Closed
  <2>1. nodes[p].kids[i].n \in p + 1 .. Len(nodes)
    BY DEF Ordered
  <2> QED
    BY <2>1, NodeType
<1>3. Below(nodes, n) \subseteq S
  BY <1>1, <1>2, BelowIs
<1> QED
  BY <1>3

(* A node below another one is held by one of them.                        *)
LEMMA BelowIsHeld ==
  ASSUME NEW nodes \in Seq(NodeSet), Ordered(nodes), NEW n \in DOMAIN nodes
  PROVE  \A m \in Below(nodes, n) :
           m = n \/ \E q \in Below(nodes, n) : m \in KidNumbers(nodes[q].kids)
<1> DEFINE B == Below(nodes, n)
           S == {m \in B : m = n \/ \E q \in B : m \in KidNumbers(nodes[q].kids)}
<1>1. B \subseteq DOMAIN nodes /\ n \in B /\ Closed(nodes, B)
  BY BelowIs
<1> HIDE DEF B
<1>2. n \in S /\ S \subseteq DOMAIN nodes
  BY <1>1
<1>3. Closed(nodes, S)
  BY <1>1 DEF Closed, KidNumbers
<1>4. B \subseteq S
  BY <1>2, <1>3, BelowIs DEF B
<1> QED
  BY <1>4 DEF B

(* What is below a node that is alive is alive.                            *)
LEMMA BelowIsAlive ==
  ASSUME NEW nodes \in Seq(NodeSet), Ordered(nodes), NEW R, Forest(nodes, R),
         NEW n \in Alive(nodes)
  PROVE  Below(nodes, n) \subseteq Alive(nodes)
<1>1. n \in DOMAIN nodes /\ Alive(nodes) \subseteq DOMAIN nodes
  BY DEF Alive
<1>2. Closed(nodes, Alive(nodes))
  BY DEF Forest, Closed
<1> QED
  BY <1>1, <1>2, BelowIs

-----------------------------------------------------------------------------
(* What the operations do to the trees: a node is made, nodes are released,*)
(* and the kids of a container are others.                                 *)
LEMMA NodeMade ==
  ASSUME NEW nodes \in Seq(NodeSet), Ordered(nodes),
         NEW new \in NodeSet, new.kids = <<>>
  PROVE  /\ Append(nodes, new) \in Seq(NodeSet)
         /\ Len(Append(nodes, new)) = Len(nodes) + 1
         /\ DOMAIN Append(nodes, new) = DOMAIN nodes \cup {Len(nodes) + 1}
         /\ Len(nodes) + 1 \notin DOMAIN nodes
         /\ \A n \in DOMAIN nodes : Append(nodes, new)[n] = nodes[n]
         /\ Append(nodes, new)[Len(nodes) + 1] = new
         /\ Ordered(Append(nodes, new))
<1> DEFINE more == Append(nodes, new)
<1>1. /\ Len(nodes) \in Nat /\ DOMAIN nodes = 1 .. Len(nodes)
      /\ \A n \in DOMAIN nodes : \A i \in DOMAIN nodes[n].kids : nodes[n].kids[i].n \in Nat
  BY NodeType
<1>2. /\ more \in Seq(NodeSet) /\ Len(more) = Len(nodes) + 1
      /\ \A n \in 1 .. Len(nodes) : more[n] = nodes[n]
      /\ more[Len(nodes) + 1] = new
  BY <1>1, AppendProperties
<1>3. DOMAIN more = 1 .. Len(nodes) + 1
  BY <1>2, LenProperties
<1> HIDE DEF more
<1>4. DOMAIN more = DOMAIN nodes \cup {Len(nodes) + 1} /\ Len(nodes) + 1 \notin DOMAIN nodes
  BY <1>1, <1>3
<1>5. DOMAIN new.kids = {}
  OBVIOUS
<1>6. Ordered(more)
  <2> SUFFICES ASSUME NEW p \in DOMAIN more, NEW i \in DOMAIN more[p].kids
               PROVE  more[p].kids[i].n \in p + 1 .. Len(more)
    BY DEF Ordered
  <2>1. p \in DOMAIN nodes /\ more[p] = nodes[p]
    BY <1>1, <1>2, <1>4, <1>5
  <2>2. nodes[p].kids[i].n \in p + 1 .. Len(nodes)
    BY <2>1 DEF Ordered
  <2> QED
    BY <1>1, <1>2, <2>1, <2>2
<1> QED
  BY <1>1, <1>2, <1>4, <1>6 DEF more

LEMMA ForestGrows ==
  ASSUME NEW nodes \in Seq(NodeSet), Ordered(nodes),
         NEW new \in NodeSet, new.kids = <<>>, new.freed = 0,
         NEW R, Forest(nodes, R)
  PROVE  Forest(Append(nodes, new), R \cup {Len(nodes) + 1})
<1> DEFINE more == Append(nodes, new)
           fresh == Len(nodes) + 1
<1>1. /\ DOMAIN more = DOMAIN nodes \cup {fresh} /\ fresh \notin DOMAIN nodes
      /\ \A n \in DOMAIN nodes : more[n] = nodes[n]
      /\ more[fresh] = new
  BY NodeMade
<1> HIDE DEF more, fresh
<1>2. Alive(more) = Alive(nodes) \cup {fresh}
  BY <1>1 DEF Alive
<1>3. Alive(nodes) \subseteq DOMAIN nodes /\ DOMAIN more[fresh].kids = {}
  BY <1>1 DEF Alive
<1>4. R \cup {fresh} \subseteq Alive(more)
  BY <1>2 DEF Forest
<1>5. \A n \in DOMAIN more : more[n].freed \in {0, 1}
  BY <1>1 DEF Forest
<1>6. ASSUME NEW p \in Alive(more), NEW i \in DOMAIN more[p].kids
      PROVE  p \in Alive(nodes) /\ more[p] = nodes[p] /\ i \in DOMAIN nodes[p].kids
  BY <1>1, <1>2, <1>3
<1>7. \A p \in Alive(more) : \A i \in DOMAIN more[p].kids :
        more[p].kids[i].n \in Alive(more) \ (R \cup {fresh})
  BY <1>1, <1>2, <1>3, <1>6 DEF Forest
<1>8. \A p, q \in Alive(more) :
        \A i \in DOMAIN more[p].kids, j \in DOMAIN more[q].kids :
          more[p].kids[i].n = more[q].kids[j].n => p = q /\ i = j
  BY <1>6 DEF Forest
<1>9. \A n \in Alive(more) \ (R \cup {fresh}) :
        \E p \in Alive(more) : \E i \in DOMAIN more[p].kids : more[p].kids[i].n = n
  BY <1>1, <1>2, <1>3 DEF Forest
<1> QED
  BY <1>4, <1>5, <1>7, <1>8, <1>9 DEF Forest, more, fresh

LEMMA ReleaseType ==
  ASSUME NEW nodes \in Seq(NodeSet), Ordered(nodes), NEW D
  PROVE  /\ ReleaseAll(nodes, D) \in Seq(NodeSet)
         /\ Len(ReleaseAll(nodes, D)) = Len(nodes)
         /\ DOMAIN ReleaseAll(nodes, D) = DOMAIN nodes
         /\ \A n \in DOMAIN nodes :
              /\ ReleaseAll(nodes, D)[n].kids = nodes[n].kids
              /\ ReleaseAll(nodes, D)[n].kind = nodes[n].kind
              /\ ReleaseAll(nodes, D)[n].freed =
                   IF n \in D THEN nodes[n].freed + 1 ELSE nodes[n].freed
         /\ Ordered(ReleaseAll(nodes, D))
<1> DEFINE less == ReleaseAll(nodes, D)
<1>1. /\ Len(nodes) \in Nat /\ DOMAIN nodes = 1 .. Len(nodes)
      /\ \A n \in DOMAIN nodes : nodes[n] \in NodeSet
  BY NodeType
<1>2. DOMAIN less = 1 .. Len(nodes)
  BY <1>1 DEF ReleaseAll
<1>3. ASSUME NEW n \in DOMAIN nodes
      PROVE  /\ less[n] \in NodeSet
             /\ less[n].kids = nodes[n].kids /\ less[n].kind = nodes[n].kind
             /\ less[n].freed = IF n \in D THEN nodes[n].freed + 1 ELSE nodes[n].freed
  <2>1. less[n] = IF n \in D THEN [nodes[n] EXCEPT !.freed = @ + 1] ELSE nodes[n]
    BY DEF ReleaseAll
  <2> DEFINE e == nodes[n]
             f == [e EXCEPT !.freed = e.freed + 1]
  <2>2. e \in NodeSet
    BY <1>1
  <2>3. less[n] = IF n \in D THEN f ELSE e
    BY <2>1
  <2> HIDE DEF e
  <2>a. e.freed \in Nat
    BY <2>2 DEF NodeSet
  <2>b. e.freed + 1 \in Nat
    BY <2>a
  <2>c. /\ DOMAIN e = {"kind", "v", "kids", "hollow", "freed"}
        /\ e.kind \in JsonKinds /\ e.v \in Nat /\ e.kids \in Seq(KidSet) /\ e.hollow \in BOOLEAN
    BY <2>2 DEF NodeSet
  <2>4. f \in NodeSet /\ f.kids = e.kids /\ f.kind = e.kind /\ f.freed = e.freed + 1
    <3> DEFINE more == e.freed + 1
    <3> HIDE DEF more
    <3>1. more \in Nat
      BY <2>b DEF more
    <3>2. [e EXCEPT !.freed = more] \in NodeSet
      BY <2>2, <3>1 DEF NodeSet
    <3>3. [e EXCEPT !.freed = more].freed = more
      BY <2>c
    <3> QED
      BY <2>c, <3>2, <3>3 DEF more
  <2> HIDE DEF f
  <2> QED
    BY <2>2, <2>3, <2>4 DEF e
<1>4. less \in Seq(NodeSet) /\ Len(less) = Len(nodes)
  <2>1. less \in [1 .. Len(nodes) -> NodeSet]
    BY <1>1, <1>2, <1>3 DEF ReleaseAll
  <2>2. less \in Seq(NodeSet)
    BY <1>1, <2>1, SeqDef
  <2> QED
    BY <1>1, <1>2, <2>2, LenProperties
<1> HIDE DEF less
<1>5. Ordered(less)
  BY <1>1, <1>2, <1>3, <1>4 DEF Ordered
<1> QED
  BY <1>1, <1>2, <1>3, <1>4, <1>5 DEF less

(* Nodes that are alive, with what they hold, and held by each other or    *)
(* from outside.                                                           *)
LEMMA ForestReleases ==
  ASSUME NEW nodes \in Seq(NodeSet), Ordered(nodes), NEW R, Forest(nodes, R),
         NEW D, D \subseteq Alive(nodes), Closed(nodes, D),
         \A m \in D : m \in R \/ \E q \in D : m \in KidNumbers(nodes[q].kids)
  PROVE  Forest(ReleaseAll(nodes, D), R \ D)
<1> DEFINE less == ReleaseAll(nodes, D)
<1>1. /\ DOMAIN less = DOMAIN nodes
      /\ \A n \in DOMAIN nodes :
           /\ less[n].kids = nodes[n].kids
           /\ less[n].freed = IF n \in D THEN nodes[n].freed + 1 ELSE nodes[n].freed
  BY ReleaseType
<1> HIDE DEF less
<1>2. Alive(less) = Alive(nodes) \ D
  BY <1>1, NodeType DEF Alive
<1>3. ASSUME NEW p \in Alive(less)
      PROVE  p \in Alive(nodes) /\ p \notin D /\ less[p].kids = nodes[p].kids
  BY <1>1, <1>2 DEF Alive
<1>4. ASSUME NEW p \in Alive(less), NEW i \in DOMAIN nodes[p].kids
      PROVE  nodes[p].kids[i].n \notin D
  <2> SUFFICES ASSUME nodes[p].kids[i].n \in D PROVE FALSE
    OBVIOUS
  <2>1. nodes[p].kids[i].n \notin R
    BY <1>3 DEF Forest
  <2>2. PICK q \in D : nodes[p].kids[i].n \in KidNumbers(nodes[q].kids)
    BY <2>1
  <2> QED
    BY <1>3, <2>2 DEF Forest, KidNumbers
<1>5. R \ D \subseteq Alive(less)
  BY <1>2 DEF Forest
<1>6. \A n \in DOMAIN less : less[n].freed \in {0, 1}
  BY <1>1 DEF Forest, Alive
<1>7. \A p \in Alive(less) : \A i \in DOMAIN less[p].kids :
        less[p].kids[i].n \in Alive(less) \ (R \ D)
  BY <1>2, <1>3, <1>4 DEF Forest
<1>8. \A p, q \in Alive(less) :
        \A i \in DOMAIN less[p].kids, j \in DOMAIN less[q].kids :
          less[p].kids[i].n = less[q].kids[j].n => p = q /\ i = j
  BY <1>3 DEF Forest
<1>9. ASSUME NEW n \in Alive(less) \ (R \ D)
      PROVE  \E p \in Alive(less) : \E i \in DOMAIN less[p].kids : less[p].kids[i].n = n
  <2>1. n \in Alive(nodes) \ R /\ n \notin D
    BY <1>2
  <2>2. PICK p \in Alive(nodes) : \E i \in DOMAIN nodes[p].kids : nodes[p].kids[i].n = n
    BY <2>1 DEF Forest
  <2>3. p \notin D
    BY <2>1, <2>2 DEF Closed
  <2> QED
    BY <1>2, <1>3, <2>2, <2>3
<1> QED
  BY <1>5, <1>6, <1>7, <1>8, <1>9 DEF Forest, less

(* A container that is alive gets other kids: some that were its own or    *)
(* held from outside.  Those it gives up are held from outside.            *)
Rehung(nodes, more, p) ==
  /\ more \in Seq(NodeSet) /\ Len(more) = Len(nodes) /\ DOMAIN more = DOMAIN nodes
  /\ \A n \in DOMAIN nodes : more[n].freed = nodes[n].freed
  /\ \A n \in DOMAIN nodes : n # p => more[n].kids = nodes[n].kids

LEMMA ForestRehangs ==
  ASSUME NEW nodes \in Seq(NodeSet), NEW R, Forest(nodes, R),
         NEW p \in Alive(nodes), NEW more, Rehung(nodes, more, p),
         Distinct(more[p].kids),
         KidNumbers(more[p].kids) \subseteq R \cup KidNumbers(nodes[p].kids)
  PROVE  Forest(more, (R \cup KidNumbers(nodes[p].kids)) \ KidNumbers(more[p].kids))
<1> DEFINE old == KidNumbers(nodes[p].kids)
           new == KidNumbers(more[p].kids)
           S == (R \cup old) \ new
<1>1. /\ Alive(more) = Alive(nodes) /\ p \in DOMAIN nodes
      /\ \A q \in Alive(nodes) : q # p => more[q].kids = nodes[q].kids
  BY DEF Rehung, Alive
<1>2. /\ \A q \in Alive(nodes) : \A i \in DOMAIN nodes[q].kids :
           /\ nodes[q].kids[i].n \in Alive(nodes) \ R
           /\ q # p => nodes[q].kids[i].n \notin old
      /\ R \subseteq Alive(nodes) /\ old \subseteq Alive(nodes)
  BY DEF Forest, KidNumbers
<1>3. new \subseteq R \cup old
  OBVIOUS
<1>4. \A i \in DOMAIN more[p].kids : more[p].kids[i].n \in new
  BY DEF KidNumbers
<1>5. \A n \in new : \E i \in DOMAIN more[p].kids : more[p].kids[i].n = n
  BY DEF KidNumbers
<1> HIDE DEF new, old
<1>6. S \subseteq Alive(more)
  BY <1>1, <1>2
<1>7. \A n \in DOMAIN more : more[n].freed \in {0, 1}
  BY DEF Forest, Rehung
<1>8. ASSUME NEW q \in Alive(more), NEW i \in DOMAIN more[q].kids
      PROVE  more[q].kids[i].n \in Alive(more) \ S
  <2>1. CASE q = p
    BY <1>1, <1>2, <1>3, <1>4, <2>1
  <2>2. CASE q # p
    BY <1>1, <1>2, <1>3, <2>2
  <2> QED
    BY <2>1, <2>2
<1>9. ASSUME NEW q \in Alive(more), NEW r \in Alive(more),
             NEW i \in DOMAIN more[q].kids, NEW j \in DOMAIN more[r].kids,
             more[q].kids[i].n = more[r].kids[j].n
      PROVE  q = r /\ i = j
  <2>1. CASE q = p /\ r = p
    BY <1>9, <2>1 DEF Distinct
  <2>2. CASE q # p /\ r # p
    BY <1>1, <1>9, <2>2 DEF Forest
  <2>3. CASE q = p /\ r # p
    BY <1>1, <1>2, <1>3, <1>4, <1>9, <2>3
  <2>4. CASE q # p /\ r = p
    BY <1>1, <1>2, <1>3, <1>4, <1>9, <2>4
  <2> QED
    BY <2>1, <2>2, <2>3, <2>4
<1>10. ASSUME NEW n \in Alive(more) \ S
       PROVE  \E q \in Alive(more) : \E i \in DOMAIN more[q].kids : more[q].kids[i].n = n
  <2>1. CASE n \in new
    BY <1>1, <1>5, <2>1
  <2>2. CASE n \notin new
    <3>1. n \in Alive(nodes) /\ n \notin R /\ n \notin old
      BY <1>1, <2>2
    <3>2. PICK q \in Alive(nodes) : \E i \in DOMAIN nodes[q].kids : nodes[q].kids[i].n = n
      BY <3>1 DEF Forest
    <3>3. q # p
      BY <3>1, <3>2 DEF old, KidNumbers
    <3> QED
      BY <1>1, <3>2, <3>3
  <2> QED
    BY <2>1, <2>2
<1>11. Forest(more, S)
  BY <1>6, <1>7, <1>8, <1>9, <1>10 DEF Forest
<1> QED
  BY <1>11 DEF new, old

(* A container's kids are distinct, and none is held from outside.         *)
LEMMA ForestKids ==
  ASSUME NEW nodes \in Seq(NodeSet), NEW R, Forest(nodes, R), NEW p \in Alive(nodes)
  PROVE  /\ Distinct(nodes[p].kids)
         /\ KidNumbers(nodes[p].kids) \subseteq Alive(nodes) \ R
BY DEF Forest, Distinct, KidNumbers

(* The change itself: p gets the kids given.                               *)
LEMMA KidsChanged ==
  ASSUME NEW nodes \in Seq(NodeSet), Ordered(nodes), NEW p \in DOMAIN nodes,
         NEW kids \in Seq(KidSet), KidNumbers(kids) \subseteq p + 1 .. Len(nodes)
  PROVE  /\ WithKids(nodes, p, kids) \in Seq(NodeSet)
         /\ Rehung(nodes, WithKids(nodes, p, kids), p)
         /\ WithKids(nodes, p, kids)[p].kids = kids
         /\ Ordered(WithKids(nodes, p, kids))
         /\ \A n \in DOMAIN nodes :
              WithKids(nodes, p, kids)[n].kind = nodes[n].kind
<1> DEFINE e == [nodes[p] EXCEPT !.kids = kids]
           more == [nodes EXCEPT ![p] = e]
<1>1. nodes[p] \in NodeSet /\ Len(nodes) \in Nat /\ DOMAIN nodes = 1 .. Len(nodes)
  BY NodeType
<1>2. e \in NodeSet /\ e.kids = kids /\ e.freed = nodes[p].freed /\ e.kind = nodes[p].kind
  BY <1>1 DEF NodeSet
<1>3. more \in Seq(NodeSet)
  BY <1>2, ExceptSeq
<1>4. /\ DOMAIN more = DOMAIN nodes
      /\ \A n \in DOMAIN nodes : more[n] = IF n = p THEN e ELSE nodes[n]
  OBVIOUS
<1>5. WithKids(nodes, p, kids) = more
  BY DEF WithKids
<1> HIDE DEF more, e
<1>6. Len(more) = Len(nodes)
  BY <1>1, <1>3, <1>4, LenProperties
<1>7. Rehung(nodes, more, p)
  BY <1>2, <1>3, <1>4, <1>6 DEF Rehung
<1>8. Ordered(more)
  BY <1>2, <1>4, <1>6 DEF Ordered, KidNumbers
<1> QED
  BY <1>2, <1>3, <1>4, <1>5, <1>7, <1>8

(* A node held from outside is released with what is below it.             *)
LEMMA ForestReleasesTree ==
  ASSUME NEW nodes \in Seq(NodeSet), Ordered(nodes), NEW R, Forest(nodes, R),
         NEW n \in R, NEW D, D \subseteq Alive(nodes), Closed(nodes, D), n \in D,
         \A m \in D : m = n \/ \E q \in D : m \in KidNumbers(nodes[q].kids)
  PROVE  Forest(ReleaseAll(nodes, D), R \ {n})
<1>1. Forest(ReleaseAll(nodes, D), R \ D)
  BY ForestReleases
<1>2. ASSUME NEW m \in D, m # n PROVE m \notin R
  <2>1. PICK q \in D : m \in KidNumbers(nodes[q].kids)
    BY <1>2
  <2> QED
    BY <2>1, ForestKids
<1>3. R \ D = R \ {n}
  BY <1>2
<1> QED
  BY <1>1, <1>3

LEMMA ReleaseOfRoot ==
  ASSUME NEW nodes \in Seq(NodeSet), Ordered(nodes), NEW R, Forest(nodes, R), NEW n \in R
  PROVE  Forest(Release(nodes, n), R \ {n})
<1>1. n \in Alive(nodes) /\ n \in DOMAIN nodes
  BY DEF Forest, Alive
<1>2. Below(nodes, n) \subseteq Alive(nodes)
  BY <1>1, BelowIsAlive
<1>3. /\ Closed(nodes, Below(nodes, n)) /\ n \in Below(nodes, n)
      /\ \A m \in Below(nodes, n) :
           m = n \/ \E q \in Below(nodes, n) : m \in KidNumbers(nodes[q].kids)
  BY <1>1, BelowIs, BelowIsHeld
<1> QED
  BY <1>2, <1>3, ForestReleasesTree DEF Release

(* Releasing other nodes and changing a container's kids commute.          *)
LEMMA ReleaseCommutes ==
  ASSUME NEW nodes \in Seq(NodeSet), NEW D, NEW p \in DOMAIN nodes, p \notin D, NEW kids
  PROVE  WithKids(ReleaseAll(nodes, D), p, kids)
           = ReleaseAll(WithKids(nodes, p, kids), D)
<1> DEFINE less == ReleaseAll(nodes, D)
           more == WithKids(nodes, p, kids)
           left == WithKids(less, p, kids)
           right == ReleaseAll(more, D)
<1>1. DOMAIN less = DOMAIN nodes /\ DOMAIN more = DOMAIN nodes
  BY DEF ReleaseAll, WithKids
<1>2. left = [m \in DOMAIN nodes |-> left[m]] /\ right = [m \in DOMAIN nodes |-> right[m]]
  BY <1>1 DEF ReleaseAll, WithKids
<1>3. ASSUME NEW m \in DOMAIN nodes PROVE left[m] = right[m]
  <2>1. /\ left[m] = IF m = p THEN [less[m] EXCEPT !.kids = kids] ELSE less[m]
        /\ more[m] = IF m = p THEN [nodes[m] EXCEPT !.kids = kids] ELSE nodes[m]
    BY <1>1 DEF WithKids
  <2>2. /\ less[m] = IF m \in D THEN [nodes[m] EXCEPT !.freed = @ + 1] ELSE nodes[m]
        /\ right[m] = IF m \in D THEN [more[m] EXCEPT !.freed = @ + 1] ELSE more[m]
    BY <1>1 DEF ReleaseAll
  <2> QED
    BY <2>1, <2>2
<1> HIDE DEF left, right
<1> QED
  BY <1>2, <1>3 DEF left, right

(* A container loses a kid that is released, and may get one from outside. *)
LEMMA KidReleased ==
  ASSUME NEW nodes \in Seq(NodeSet), Ordered(nodes), NEW R, Forest(nodes, R),
         NEW p \in Alive(nodes), NEW i \in DOMAIN nodes[p].kids,
         NEW kids \in Seq(KidSet), Distinct(kids),
         KidNumbers(kids) \subseteq (p + 1 .. Len(nodes)) \ {nodes[p].kids[i].n},
         KidNumbers(kids) \subseteq R \cup KidNumbers(nodes[p].kids),
         KidNumbers(nodes[p].kids) \subseteq KidNumbers(kids) \cup {nodes[p].kids[i].n}
  PROVE  Forest(WithKids(Release(nodes, nodes[p].kids[i].n), p, kids),
                R \ KidNumbers(kids))
<1> DEFINE n == nodes[p].kids[i].n
           D == Below(nodes, n)
           more == WithKids(nodes, p, kids)
<1>1. p \in DOMAIN nodes /\ n \in Alive(nodes) \ R /\ n \in DOMAIN nodes /\ n > p
  BY NodeType DEF Forest, Alive, Ordered
<1>2. /\ D \subseteq Alive(nodes) /\ n \in D /\ Closed(nodes, D) /\ p \notin D
      /\ \A m \in D : m = n \/ \E q \in D : m \in KidNumbers(nodes[q].kids)
  <2>1. D \subseteq Alive(nodes)
    BY <1>1, BelowIsAlive
  <2>2. \A m \in D : m >= n
    BY <1>1, BelowIsAbove
  <2>3. p \notin D
    BY <1>1, <2>2, NodeType
  <2> QED
    BY <1>1, <2>1, <2>3, BelowIs, BelowIsHeld
<1>3. /\ more \in Seq(NodeSet) /\ Rehung(nodes, more, p) /\ more[p].kids = kids
      /\ Ordered(more)
  BY <1>1, KidsChanged
<1>4. n \in KidNumbers(nodes[p].kids) /\ n \notin KidNumbers(kids)
  BY DEF KidNumbers
<1> HIDE DEF n, D, more
<1>5. Forest(more, (R \cup KidNumbers(nodes[p].kids)) \ KidNumbers(kids))
  BY <1>3, ForestRehangs
<1>6. (R \cup KidNumbers(nodes[p].kids)) \ KidNumbers(kids) = (R \ KidNumbers(kids)) \cup {n}
  BY <1>4 DEF n
<1>7. Alive(more) = Alive(nodes) /\ \A q \in D : more[q].kids = nodes[q].kids
  BY <1>2, <1>3 DEF Rehung, Alive
<1>8. /\ D \subseteq Alive(more) /\ Closed(more, D)
      /\ \A m \in D : m = n \/ \E q \in D : m \in KidNumbers(more[q].kids)
  BY <1>2, <1>7 DEF Closed
<1>9. Forest(ReleaseAll(more, D), ((R \ KidNumbers(kids)) \cup {n}) \ {n})
  BY <1>2, <1>3, <1>5, <1>6, <1>8, ForestReleasesTree
<1>10. ((R \ KidNumbers(kids)) \cup {n}) \ {n} = R \ KidNumbers(kids)
  BY <1>1 DEF n
<1>11. WithKids(Release(nodes, n), p, kids) = ReleaseAll(more, D)
  <2>1. WithKids(ReleaseAll(nodes, D), p, kids) = ReleaseAll(WithKids(nodes, p, kids), D)
    BY <1>1, <1>2, ReleaseCommutes
  <2> QED
    BY <2>1 DEF more, D, Release
<1> QED
  BY <1>9, <1>10, <1>11 DEF n

-----------------------------------------------------------------------------
(* A container p gets the newest node n, perhaps in place of another value *)
(* that is released: nothing up to p, and not n, is released with it.      *)
Fresh(nodes, n) == \A q \in DOMAIN nodes : n \notin KidNumbers(nodes[q].kids)

Gets(nodes, more, p, n) ==
  /\ more \in Seq(NodeSet) /\ Len(more) = Len(nodes) /\ DOMAIN more = DOMAIN nodes
  /\ Ordered(more)
  /\ \A m \in DOMAIN nodes : more[m].kind = nodes[m].kind
  /\ \A m \in DOMAIN nodes : m <= p \/ m = n => more[m].freed = nodes[m].freed
  /\ \A m \in DOMAIN nodes : m # p => more[m].kids = nodes[m].kids
  /\ n \in KidNumbers(more[p].kids)

LEMMA KidInserted ==
  ASSUME NEW nodes \in Seq(NodeSet), Ordered(nodes), NEW p \in DOMAIN nodes,
         NEW n \in p + 1 .. Len(nodes), Fresh(nodes, n), NEW key \in Int,
         NEW k \in 1 .. Len(nodes[p].kids) + 1,
         NEW more, more = [nodes EXCEPT ![p].kids = InsertAt(@, k, Kid(key, n))]
  PROVE  /\ Gets(nodes, more, p, n)
         /\ \A R : Forest(nodes, R) /\ n \in R /\ p \in Alive(nodes)
                     => Forest(more, R \ {n})
<1> DEFINE old == nodes[p].kids
           kids == InsertAt(old, k, Kid(key, n))
<1>1. old \in Seq(KidSet) /\ n \in Nat /\ n \notin KidNumbers(old)
  BY NodeType DEF Fresh
<1>2. /\ kids \in Seq(KidSet)
      /\ Distinct(old) => Distinct(kids)
      /\ KidNumbers(kids) = KidNumbers(old) \cup {n}
  BY <1>1, KidsInsert
<1>3. KidNumbers(old) \subseteq p + 1 .. Len(nodes)
  BY DEF Ordered, KidNumbers
<1>4. more = WithKids(nodes, p, kids)
  BY DEF WithKids
<1> HIDE DEF kids
<1>5. /\ more \in Seq(NodeSet) /\ Rehung(nodes, more, p) /\ more[p].kids = kids
      /\ Ordered(more) /\ \A m \in DOMAIN nodes : more[m].kind = nodes[m].kind
  <2>1. KidNumbers(kids) \subseteq p + 1 .. Len(nodes)
    BY <1>2, <1>3
  <2> QED
    <3>1. /\ WithKids(nodes, p, kids) \in Seq(NodeSet)
          /\ Rehung(nodes, WithKids(nodes, p, kids), p)
          /\ WithKids(nodes, p, kids)[p].kids = kids
          /\ Ordered(WithKids(nodes, p, kids))
          /\ \A m \in DOMAIN nodes : WithKids(nodes, p, kids)[m].kind = nodes[m].kind
      BY <1>2, <2>1, KidsChanged
    <3> QED
      BY <1>4, <3>1
<1>6. Gets(nodes, more, p, n)
  BY <1>2, <1>5 DEF Gets, Rehung
<1>7. ASSUME NEW R, Forest(nodes, R), n \in R, p \in Alive(nodes) PROVE Forest(more, R \ {n})
  <2>1. Distinct(old) /\ KidNumbers(old) \subseteq Alive(nodes) \ R
    BY <1>7, ForestKids
  <2>2. Forest(more, (R \cup KidNumbers(old)) \ KidNumbers(kids))
    <3>1. Distinct(more[p].kids) /\ KidNumbers(more[p].kids) \subseteq R \cup KidNumbers(old)
      BY <1>2, <1>5, <1>7, <2>1
    <3> QED
      BY <1>5, <1>7, <3>1, ForestRehangs
  <2>3. (R \cup KidNumbers(old)) \ KidNumbers(kids) = R \ {n}
    BY <1>2, <2>1
  <2> QED
    BY <2>2, <2>3
<1> QED
  BY <1>6, <1>7

LEMMA MapSetGets ==
  ASSUME NEW nodes \in Seq(NodeSet), Ordered(nodes), NEW p \in DOMAIN nodes,
         NEW n \in p + 1 .. Len(nodes), Fresh(nodes, n), NEW key \in Int
  PROVE  /\ Gets(nodes, MapSet(nodes, p, key, n), p, n)
         /\ \A R : Forest(nodes, R) /\ n \in R /\ p \in Alive(nodes)
                     => Forest(MapSet(nodes, p, key, n), R \ {n})
<1> DEFINE old == nodes[p].kids
           smaller == {i \in DOMAIN old : old[i].key < key}
           at == Cardinality(smaller) + 1
<1>1. /\ old \in Seq(KidSet) /\ n \in Nat /\ n \notin KidNumbers(old) /\ Len(old) \in Nat
      /\ DOMAIN old = 1 .. Len(old) /\ n \in DOMAIN nodes
  BY NodeType DEF Fresh
<1>2. at \in 1 .. Len(old) + 1
  <2>1. IsFiniteSet(1 .. Len(old)) /\ Cardinality(1 .. Len(old)) = Len(old)
    BY <1>1, UptoIsFinite
  <2>2. smaller \subseteq 1 .. Len(old)
    BY <1>1
  <2>3. IsFiniteSet(smaller) /\ Cardinality(smaller) <= Len(old)
    BY <2>1, <2>2, FS_Subset
  <2>4. Cardinality(smaller) \in Nat
    BY <2>3, FS_CardinalityType
  <2> QED
    BY <1>1, <2>3, <2>4
<1>3. MapSet(nodes, p, key, n) =
        IF at \in DOMAIN old /\ old[at].key = key
        THEN [Release(nodes, old[at].n) EXCEPT ![p].kids[at].n = n]
        ELSE [nodes EXCEPT ![p].kids = InsertAt(@, at, Kid(key, n))]
  BY DEF MapSet
<1> HIDE DEF at, smaller
<1>4. CASE ~(at \in DOMAIN old /\ old[at].key = key)
  BY <1>2, <1>3, <1>4, KidInserted
<1>5. CASE at \in DOMAIN old /\ old[at].key = key
  <2> DEFINE x == old[at].n
             D == Below(nodes, x)
             less == Release(nodes, x)
             kids == WithKid(old, at, n)
             more == WithKids(less, p, kids)
  <2>1. /\ less \in Seq(NodeSet) /\ Len(less) = Len(nodes) /\ DOMAIN less = DOMAIN nodes
        /\ Ordered(less)
        /\ \A m \in DOMAIN nodes :
             /\ less[m].kids = nodes[m].kids /\ less[m].kind = nodes[m].kind
             /\ m \notin D => less[m].freed = nodes[m].freed
    BY ReleaseType DEF Release
  <2>2. MapSet(nodes, p, key, n) = more
    BY <1>3, <1>5, <2>1 DEF WithKids, WithKid
  <2>3. /\ kids \in Seq(KidSet) /\ n \in KidNumbers(kids)
        /\ KidNumbers(kids) \subseteq KidNumbers(old) \cup {n}
        /\ Distinct(old) => Distinct(kids)
        /\ Distinct(old) => KidNumbers(kids) = (KidNumbers(old) \ {x}) \cup {n}
    BY <1>1, <1>5, KidsReplace
  <2>4. KidNumbers(old) \subseteq p + 1 .. Len(nodes) /\ x \in KidNumbers(old)
    BY <1>5 DEF Ordered, KidNumbers
  <2>5. x \in DOMAIN nodes /\ x > p /\ x # n
    BY <1>1, <2>4, NodeType
  <2>6. \A m \in D : m > p
    <3>1. D \subseteq DOMAIN nodes /\ \A m \in D : m >= x
      BY <2>5, BelowIs, BelowIsAbove
    <3> QED
      BY <2>5, <3>1, NodeType
  <2>7. n \notin D
    <3> DEFINE S == DOMAIN nodes \ {n}
    <3>1. x \in S /\ S \subseteq DOMAIN nodes
      BY <2>5
    <3>2. Closed(nodes, S)
      BY NodeType DEF Closed, Ordered, Fresh, KidNumbers
    <3> QED
      BY <2>5, <3>1, <3>2, BelowIs
  <2> HIDE DEF x, D, less, kids
  <2>8. /\ more \in Seq(NodeSet) /\ Rehung(less, more, p) /\ more[p].kids = kids
        /\ Ordered(more) /\ \A m \in DOMAIN nodes : more[m].kind = less[m].kind
    <3>1. KidNumbers(kids) \subseteq p + 1 .. Len(less) /\ p \in DOMAIN less
      BY <2>1, <2>3, <2>4
    <3> QED
      <4>1. /\ more \in Seq(NodeSet) /\ Rehung(less, more, p) /\ more[p].kids = kids
            /\ Ordered(more) /\ \A m \in DOMAIN less : more[m].kind = less[m].kind
        BY <2>1, <2>3, <3>1, KidsChanged
      <4> QED
        BY <2>1, <4>1
  <2> HIDE DEF more
  <2>9. Gets(nodes, more, p, n)
    <3>1. \A m \in DOMAIN nodes : m <= p \/ m = n => more[m].freed = nodes[m].freed
      BY <1>1, <2>1, <2>6, <2>7, <2>8, NodeType DEF Rehung
    <3> QED
      BY <2>1, <2>3, <2>8, <3>1 DEF Gets, Rehung
  <2>10. ASSUME NEW R, Forest(nodes, R), n \in R, p \in Alive(nodes)
         PROVE  Forest(more, R \ {n})
    <3>1. Distinct(old) /\ KidNumbers(old) \subseteq Alive(nodes) \ R
      BY <2>10, ForestKids
    <3>2. /\ Distinct(kids) /\ KidNumbers(kids) = (KidNumbers(old) \ {x}) \cup {n}
          /\ KidNumbers(kids) \subseteq (p + 1 .. Len(nodes)) \ {x}
      BY <2>3, <2>4, <2>5, <3>1
    <3>3. Forest(more, R \ KidNumbers(kids))
      <4>1. /\ KidNumbers(kids) \subseteq R \cup KidNumbers(old)
            /\ KidNumbers(old) \subseteq KidNumbers(kids) \cup {x}
        BY <2>10, <3>2
      <4> QED
        BY <1>5, <2>3, <2>10, <3>2, <4>1, KidReleased DEF more, less, x
    <3>4. R \ KidNumbers(kids) = R \ {n}
      BY <3>1, <3>2
    <3> QED
      BY <3>3, <3>4
  <2> QED
    BY <2>2, <2>9, <2>10
<1> QED
  BY <1>4, <1>5

-----------------------------------------------------------------------------
(* The callback's states.                                                  *)
CallbackState == [node: Seq(NodeSet), d: ParseData, failed: SUBSET JsonPurposes]

CallbackInv(s, nesting) ==
  /\ s \in CallbackState /\ Ordered(s.node)
  /\ s.d.end = "no" => StackInv(s, nesting)
  /\ ForestInv(s, {}, loose)

(* A value was made and is about to be stored.                             *)
Pending(s, nesting) ==
  /\ s \in CallbackState /\ Ordered(s.node) /\ s.d.end = "no"
  /\ Len(s.node) \in Alive(s.node) /\ Fresh(s.node, Len(s.node))
  /\ s.node[Len(s.node)].kids = <<>>
  /\ StackInv(s, nesting)
  /\ \A i \in DOMAIN s.d.stack : s.d.stack[i] < Len(s.node)
  /\ ForestInv(s, {Len(s.node)}, loose)
  /\ s.failed \cap {"set", "push"} = {} =>
       Len(s.node) \notin loose /\ Len(s.node) # s.d.root

LEMMA StateFields ==
  ASSUME NEW s \in CallbackState
  PROVE  /\ s.node \in Seq(NodeSet) /\ s.d \in ParseData /\ s.failed \in SUBSET JsonPurposes
         /\ s.d.root \in Nat /\ s.d.stack \in Seq(Nat) /\ s.d.last_key \in Int
         /\ s.d.room \in Nat /\ s.d.last_alloc \in Nat
         /\ DOMAIN s.d.stack = 1 .. Len(s.d.stack) /\ Len(s.d.stack) \in Nat
         /\ \A i \in DOMAIN s.d.stack : s.d.stack[i] \in Nat
<1>1. s.node \in Seq(NodeSet) /\ s.d \in ParseData /\ s.failed \in SUBSET JsonPurposes
  BY DEF CallbackState
<1>2. /\ s.d.root \in Nat /\ s.d.stack \in Seq(Nat) /\ s.d.last_key \in Int
      /\ s.d.room \in Nat /\ s.d.last_alloc \in Nat
  BY <1>1 DEF ParseData
<1> QED
  BY <1>1, <1>2, LenProperties, ElementOfSeq

LEMMA EndsState ==
  ASSUME NEW s \in CallbackState, NEW end \in JsonEnds
  PROVE  /\ Ends(s, end) \in CallbackState /\ Ends(s, end).d.end = end
         /\ Ends(s, end).node = s.node /\ Ends(s, end).failed = s.failed
         /\ Ends(s, end).d.stack = s.d.stack /\ Ends(s, end).d.root = s.d.root
<1> DEFINE dd == [s.d EXCEPT !.end = end]
<1>1. dd \in ParseData /\ dd.end = end /\ dd.stack = s.d.stack /\ dd.root = s.d.root
  BY StateFields DEF ParseData
<1>2. Ends(s, end) = [s EXCEPT !.d = dd]
  BY DEF Ends
<1> HIDE DEF dd
<1> QED
  BY <1>1, <1>2 DEF CallbackState

LEMMA FailsState ==
  ASSUME NEW s \in CallbackState, NEW what \in JsonPurposes
  PROVE  /\ Fails(s, what) \in CallbackState /\ Fails(s, what).d.end = "stop"
         /\ Fails(s, what).node = s.node /\ Fails(s, what).failed = s.failed \cup {what}
         /\ Fails(s, what).d.stack = s.d.stack /\ Fails(s, what).d.root = s.d.root
<1> DEFINE e == Ends(s, "stop")
<1>0. "stop" \in JsonEnds
  BY DEF JsonEnds
<1>1. /\ e \in CallbackState /\ e.d.end = "stop" /\ e.node = s.node
      /\ e.failed = s.failed /\ e.d.stack = s.d.stack /\ e.d.root = s.d.root
  BY <1>0, EndsState
<1>2. Fails(s, what) = [e EXCEPT !.failed = e.failed \cup {what}]
  BY DEF Fails
<1> HIDE DEF e
<1> QED
  BY <1>1, <1>2 DEF CallbackState

LEMMA NodesState ==
  ASSUME NEW s \in CallbackState, NEW nodes \in Seq(NodeSet)
  PROVE  /\ [s EXCEPT !.node = nodes] \in CallbackState
         /\ [s EXCEPT !.node = nodes].node = nodes
         /\ [s EXCEPT !.node = nodes].d = s.d
         /\ [s EXCEPT !.node = nodes].failed = s.failed
BY DEF CallbackState

LEMMA FailedState ==
  ASSUME NEW s \in CallbackState, NEW what \in JsonPurposes
  PROVE  /\ [s EXCEPT !.failed = @ \cup {what}] \in CallbackState
         /\ [s EXCEPT !.failed = @ \cup {what}].node = s.node
         /\ [s EXCEPT !.failed = @ \cup {what}].d = s.d
         /\ [s EXCEPT !.failed = @ \cup {what}].failed = s.failed \cup {what}
BY DEF CallbackState

(* A value is made.                                                        *)
NewNode(nodes, more, new, n) ==
  /\ more \in Seq(NodeSet) /\ Ordered(more)
  /\ n = Len(more) /\ n \in Nat /\ n # 0 /\ n \notin DOMAIN nodes
  /\ DOMAIN more = DOMAIN nodes \cup {n}
  /\ \A k \in DOMAIN nodes : k < n /\ more[k] = nodes[k]
  /\ more[n] = new /\ Fresh(more, n)
  /\ Alive(more) = Alive(nodes) \cup {n} /\ Alive(nodes) \subseteq DOMAIN nodes
  /\ \A R : Forest(nodes, R) => Forest(more, R \cup {n})

LEMMA MadeNode ==
  ASSUME NEW nodes \in Seq(NodeSet), Ordered(nodes),
         NEW new \in NodeSet, new.kids = <<>>, new.freed = 0
  PROVE  NewNode(nodes, Append(nodes, new), new, Len(nodes) + 1)
<1> DEFINE more == Append(nodes, new)
           n == Len(nodes) + 1
<1>1. /\ Len(more) = Len(nodes) + 1 /\ DOMAIN more = DOMAIN nodes \cup {n}
      /\ n \notin DOMAIN nodes /\ more[n] = new /\ Ordered(more)
      /\ \A k \in DOMAIN nodes : more[k] = nodes[k]
      /\ n = Len(nodes) + 1 /\ n = Len(more)
  BY NodeMade
<1>0. more \in Seq(NodeSet)
  BY NodeMade
<1> HIDE DEF more, n
<1>2. /\ Len(nodes) \in Nat /\ DOMAIN nodes = 1 .. Len(nodes)
  BY NodeType
<1>3. n \in Nat /\ n # 0 /\ \A k \in DOMAIN nodes : k < n
  BY <1>1, <1>2
<1>4. Alive(nodes) \subseteq DOMAIN nodes /\ Alive(more) = Alive(nodes) \cup {n}
  BY <1>1 DEF Alive
<1>5. Fresh(more, n)
  <2> SUFFICES ASSUME NEW q \in DOMAIN more, NEW i \in DOMAIN more[q].kids,
                      more[q].kids[i].n = n
               PROVE  FALSE
    BY DEF Fresh, KidNumbers
  <2>1. q # n
    <3>1. DOMAIN new.kids = {}
      OBVIOUS
    <3> QED
      BY <1>1, <3>1
  <2>2. nodes[q].kids[i].n \in q + 1 .. Len(nodes) /\ q \in DOMAIN nodes
    BY <1>1, <2>1 DEF Ordered
  <2> QED
    BY <1>1, <1>2, <2>2
<1>6. \A R : Forest(nodes, R) => Forest(more, R \cup {n})
  BY ForestGrows DEF more, n
<1> QED
  BY <1>0, <1>1, <1>3, <1>4, <1>5, <1>6 DEF NewNode, more, n

LEMMA MadePending ==
  ASSUME NEW s \in CallbackState, NEW nesting \in Seq(Containers),
         CallbackInv(s, nesting), s.d.end = "no",
         NEW new \in NodeSet, new.kids = <<>>, new.freed = 0,
         NEW m \in CallbackState, m.node = Append(s.node, new), m.d = s.d,
         m.failed = s.failed \/ m.failed = s.failed \cup {"hollow"}
  PROVE  Pending(m, nesting) /\ m.node[Len(m.node)] = new
<1>1. s \in CallbackState /\ Ordered(s.node) /\ s.node \in Seq(NodeSet)
  BY StateFields DEF CallbackInv
<1> DEFINE n == Len(s.node) + 1
           old == s.node
           more == m.node
<1>0. old \in Seq(NodeSet) /\ Ordered(old) /\ more = Append(old, new) /\ n = Len(old) + 1
  BY <1>1
<1> HIDE DEF n, old, more
<1>a. NewNode(old, more, new, n)
  BY <1>0, MadeNode
<1>n. n = Len(m.node)
  BY <1>a DEF NewNode, more
<1>2. /\ Ordered(m.node) /\ n \in Nat /\ n # 0 /\ n \notin DOMAIN s.node
      /\ \A k \in DOMAIN s.node : k < n /\ m.node[k] = s.node[k]
      /\ m.node[n] = new /\ Fresh(m.node, n)
      /\ Alive(m.node) = Alive(s.node) \cup {n} /\ Alive(s.node) \subseteq DOMAIN s.node
      /\ \A R : Forest(s.node, R) => Forest(m.node, R \cup {n})
  BY <1>a DEF NewNode, old, more
<1>3. StackInv(s, nesting)
  BY DEF CallbackInv
<1>4. StackInv(m, nesting)
  <2>1. "set" \notin m.failed => "set" \notin s.failed
    OBVIOUS
  <2>2. \A i \in DOMAIN s.d.stack : i > 1 => i - 1 \in DOMAIN s.d.stack
    BY <1>1, StateFields
  <2> QED
    BY <1>2, <1>3, <2>1, <2>2 DEF StackInv
<1>5. \A i \in DOMAIN m.d.stack : m.d.stack[i] < n
  BY <1>2, <1>3 DEF StackInv
<1>6. ASSUME m.failed \cap {"set", "push"} = {}
      PROVE  /\ Forest(m.node, Roots(m.d.root, loose) \cup {n})
             /\ m.d.root \notin loose
             /\ n \notin loose /\ n # m.d.root
  <2>1. s.failed \cap {"set", "push"} = {} /\ s.d.end # "crash"
    BY <1>6
  <2>2. Forest(s.node, Roots(s.d.root, loose)) /\ s.d.root \notin loose
    <3>1. Forest(s.node, Roots(s.d.root, loose) \cup {}) /\ s.d.root \notin loose
      BY <2>1 DEF CallbackInv, ForestInv
    <3>2. Roots(s.d.root, loose) \cup {} = Roots(s.d.root, loose)
      OBVIOUS
    <3> QED
      BY <3>1, <3>2
  <2>3. Forest(m.node, Roots(s.d.root, loose) \cup {n})
    BY <1>2, <2>2
  <2>4. Roots(s.d.root, loose) \subseteq Alive(s.node)
    BY <2>2 DEF Forest
  <2>5. n \notin loose /\ n # s.d.root
    BY <1>2, <2>4 DEF Roots
  <2> QED
    BY <2>2, <2>3, <2>5
<1>7. ForestInv(m, {n}, loose)
  BY <1>6 DEF ForestInv
<1> QED
  BY <1>2, <1>4, <1>5, <1>6, <1>7, <1>n DEF Pending


(* The outermost container's parent is NULL: there is one otherwise.       *)
LEMMA ParentIs ==
  ASSUME NEW s \in CallbackState, NEW nesting, StackInv(s, nesting), s.d.stack # <<>>
  PROVE  /\ Len(s.d.stack) \in DOMAIN s.d.stack /\ Parent(s) = s.d.stack[Len(s.d.stack)]
         /\ Parent(s) \in Alive(s.node) /\ Parent(s) \in DOMAIN s.node
         /\ \A i \in DOMAIN s.d.stack : s.d.stack[i] <= Parent(s)
         /\ \A i \in DOMAIN s.d.stack : i # Len(s.d.stack) => s.d.stack[i] < Parent(s)
<1>1. /\ DOMAIN s.d.stack = 1 .. Len(s.d.stack) /\ Len(s.d.stack) \in Nat
      /\ \A i \in DOMAIN s.d.stack : s.d.stack[i] \in Nat
      /\ s.d.stack \in Seq(Nat)
  BY StateFields
<1>2. Len(s.d.stack) # 0
  BY <1>1, EmptySeq
<1>3. Parent(s) = s.d.stack[Len(s.d.stack)]
  BY DEF Parent, Last
<1>4. Len(s.d.stack) \in DOMAIN s.d.stack
  BY <1>1, <1>2
<1>5. \A i \in DOMAIN s.d.stack : i # Len(s.d.stack) => s.d.stack[i] < Parent(s)
  BY <1>1, <1>3, <1>4 DEF StackInv
<1> QED
  BY <1>1, <1>3, <1>4, <1>5 DEF StackInv, Alive

(* What json_parse_add_value leaves behind.                                *)
Stored(s, r, nesting) ==
  /\ CallbackInv(r, nesting)
  /\ r.d.end = "no" =>
       /\ r.d = s.d /\ s.d.stack # <<>>
       /\ Len(r.node) = Len(s.node) /\ Len(s.node) \in Alive(r.node)
       /\ r.node[Len(s.node)].kind = s.node[Len(s.node)].kind
       /\ \A i \in DOMAIN s.d.stack : s.d.stack[i] < Len(s.node)
       /\ "set" \notin r.failed =>
            Len(s.node) \in KidNumbers(r.node[Parent(s)].kids)

LEMMA GetsInv ==
  ASSUME NEW s \in CallbackState, NEW nesting, Pending(s, nesting), s.d.stack # <<>>,
         NEW r \in CallbackState, r.d = s.d, r.failed = s.failed,
         Gets(s.node, r.node, Parent(s), Len(s.node)),
         \A R : Forest(s.node, R) /\ Len(s.node) \in R /\ Parent(s) \in Alive(s.node)
                  => Forest(r.node, R \ {Len(s.node)})
  PROVE  Stored(s, r, nesting)
<1> DEFINE n == Len(s.node)
           p == Parent(s)
           old == s.node
           more == r.node
           stack == s.d.stack
<1>1. /\ n \in Alive(old) /\ \A i \in DOMAIN stack : stack[i] < n
      /\ StackInv(s, nesting) /\ ForestInv(s, {n}, loose) /\ s.d.end = "no"
      /\ s.failed \cap {"set", "push"} = {} => n \notin loose /\ n # s.d.root
  BY DEF Pending
<1>2. /\ Len(stack) \in DOMAIN stack /\ p = stack[Len(stack)]
      /\ p \in Alive(old) /\ p \in DOMAIN old
      /\ \A i \in DOMAIN stack : stack[i] <= p
      /\ \A i \in DOMAIN stack : i # Len(stack) => stack[i] < p
      /\ DOMAIN stack = 1 .. Len(stack) /\ Len(stack) \in Nat
      /\ \A i \in DOMAIN stack : stack[i] \in Nat
  BY <1>1, ParentIs, StateFields
<1>3. /\ Len(more) = Len(old) /\ DOMAIN more = DOMAIN old /\ Ordered(more)
      /\ \A m \in DOMAIN old : more[m].kind = old[m].kind
      /\ \A m \in DOMAIN old : m <= p \/ m = n => more[m].freed = old[m].freed
      /\ \A m \in DOMAIN old : m # p => more[m].kids = old[m].kids
      /\ n \in KidNumbers(more[p].kids)
  BY DEF Gets
<1>4. n \in Alive(more)
  BY <1>1, <1>3 DEF Alive
<1>5. StackInv(r, nesting)
  <2>1. /\ Len(stack) = Len(nesting)
        /\ \A i \in DOMAIN stack :
             /\ stack[i] \in Alive(old) /\ old[stack[i]].kind = nesting[i]
             /\ \A j \in DOMAIN stack : j < i => stack[j] < stack[i]
             /\ (i > 1 /\ "set" \notin s.failed) =>
                  stack[i] \in KidNumbers(old[stack[i - 1]].kids)
    BY <1>1 DEF StackInv
  <2>2. \A i \in DOMAIN stack :
          stack[i] \in Alive(more) /\ more[stack[i]].kind = nesting[i]
    BY <1>2, <1>3, <2>1 DEF Alive
  <2>3. ASSUME NEW i \in DOMAIN stack, i > 1
        PROVE  more[stack[i - 1]].kids = old[stack[i - 1]].kids
    <3>1. i - 1 \in DOMAIN stack /\ i - 1 # Len(stack)
      BY <1>2, <2>3
    <3>2. stack[i - 1] < p /\ stack[i - 1] \in DOMAIN old
      BY <1>2, <2>1, <3>1 DEF Alive
    <3>3. stack[i - 1] # p
      BY <1>2, <3>1, <3>2
    <3> QED
      BY <1>3, <3>2, <3>3
  <2> QED
    BY <2>1, <2>2, <2>3 DEF StackInv
<1>6. ForestInv(r, {}, loose)
  <2> SUFFICES ASSUME s.failed \cap {"set", "push"} = {}
               PROVE  /\ Forest(more, Roots(s.d.root, loose) \cup {})
                      /\ s.d.root \notin loose
    BY DEF ForestInv
  <2>1. Forest(old, Roots(s.d.root, loose) \cup {n}) /\ s.d.root \notin loose
    BY <1>1 DEF ForestInv
  <2>2. Forest(more, (Roots(s.d.root, loose) \cup {n}) \ {n})
    BY <1>2, <2>1
  <2>3. (Roots(s.d.root, loose) \cup {n}) \ {n} = Roots(s.d.root, loose) \cup {}
    BY <1>1 DEF Roots
  <2> QED
    BY <2>1, <2>2, <2>3
<1>7. CallbackInv(r, nesting)
  BY <1>3, <1>5, <1>6 DEF CallbackInv
<1> QED
  BY <1>1, <1>3, <1>4, <1>7 DEF Stored

(* The value cannot be stored: it is freed and the parser gives up ...     *)
LEMMA DroppedInv ==
  ASSUME NEW s \in CallbackState, NEW nesting, Pending(s, nesting),
         NEW r \in CallbackState, r.node = Release(s.node, Len(s.node)),
         r.d.end = "stop", r.d.root = s.d.root, s.failed \subseteq r.failed
  PROVE  Stored(s, r, nesting)
<1> DEFINE n == Len(s.node)
<1>1. /\ s.node \in Seq(NodeSet) /\ Ordered(s.node) /\ s.d.end = "no"
      /\ ForestInv(s, {n}, loose)
      /\ s.failed \cap {"set", "push"} = {} => n \notin loose /\ n # s.d.root
  BY StateFields DEF Pending
<1>2. Ordered(r.node)
  BY <1>1, ReleaseType DEF Release
<1>3. ForestInv(r, {}, loose)
  <2> SUFFICES ASSUME r.failed \cap {"set", "push"} = {}
               PROVE  /\ Forest(r.node, Roots(s.d.root, loose) \cup {})
                      /\ s.d.root \notin loose
    BY DEF ForestInv
  <2>1. s.failed \cap {"set", "push"} = {}
    OBVIOUS
  <2>2. Forest(s.node, Roots(s.d.root, loose) \cup {n}) /\ s.d.root \notin loose
    BY <1>1, <2>1 DEF ForestInv
  <2>3. Forest(Release(s.node, n), (Roots(s.d.root, loose) \cup {n}) \ {n})
    BY <1>1, <2>2, ReleaseOfRoot
  <2>4. (Roots(s.d.root, loose) \cup {n}) \ {n} = Roots(s.d.root, loose) \cup {}
    BY <1>1, <2>1 DEF Roots
  <2> QED
    BY <2>2, <2>3, <2>4
<1> QED
  BY <1>2, <1>3 DEF Stored, CallbackInv

(* ... or json_parse_add_value does not notice.                            *)
LEMMA LostInv ==
  ASSUME NEW s \in CallbackState, NEW nesting, Pending(s, nesting), s.d.stack # <<>>,
         NEW r \in CallbackState, r.node = s.node, r.d = s.d,
         r.failed = s.failed \cup {"set"}
  PROVE  Stored(s, r, nesting)
<1>1. "set" \in r.failed
  OBVIOUS
<1>2. StackInv(r, nesting)
  BY <1>1 DEF Pending, StackInv
<1>3. ForestInv(r, {}, loose)
  BY <1>1 DEF ForestInv
<1> QED
  BY <1>1, <1>2, <1>3 DEF Stored, CallbackInv, Pending

LEMMA CrashedInv ==
  ASSUME NEW s \in CallbackState, Ordered(s.node), NEW nesting,
         NEW r \in CallbackState, r.node = s.node, r.d.end = "crash"
  PROVE  CallbackInv(r, nesting) /\ Stored(s, r, nesting)
BY DEF Stored, CallbackInv, ForestInv


LEMMA AppendIsInsert ==
  ASSUME NEW kids \in Seq(KidSet), NEW e \in KidSet
  PROVE  Append(kids, e) = InsertAt(kids, Len(kids) + 1, e)
<1> DEFINE a == Append(kids, e)
           b == InsertAt(kids, Len(kids) + 1, e)
<1>1. Len(kids) \in Nat /\ DOMAIN kids = 1 .. Len(kids)
  BY LenProperties
<1>2. /\ a \in Seq(KidSet) /\ Len(a) = Len(kids) + 1
      /\ \A j \in 1 .. Len(kids) : a[j] = kids[j]
      /\ a[Len(kids) + 1] = e
  BY <1>1, AppendProperties
<1>3. /\ b \in Seq(KidSet) /\ Len(b) = Len(kids) + 1
      /\ \A j \in 1 .. Len(kids) + 1 :
           b[j] = IF j < Len(kids) + 1 THEN kids[j]
                  ELSE IF j = Len(kids) + 1 THEN e ELSE kids[j - 1]
  <2> DEFINE at == Len(kids) + 1
  <2>1. at \in 1 .. Len(kids) + 1
    BY <1>1
  <2> HIDE DEF at
  <2>2. /\ InsertAt(kids, at, e) \in Seq(KidSet)
        /\ Len(InsertAt(kids, at, e)) = Len(kids) + 1
        /\ \A j \in 1 .. Len(kids) + 1 :
             InsertAt(kids, at, e)[j] =
               IF j < at THEN kids[j] ELSE IF j = at THEN e ELSE kids[j - 1]
    BY ONLY kids \in Seq(KidSet), <2>1, InsertedKids
  <2> QED
    BY <2>2 DEF at
<1> HIDE DEF a, b
<1>4. \A j \in 1 .. Len(kids) + 1 : a[j] = b[j]
  BY <1>1, <1>2, <1>3
<1>5. a = b
  BY <1>2, <1>3, <1>4, SeqEqual
<1> QED
  BY <1>5 DEF a, b

LEMMA InOrFails ==
  ASSUME NEW states, NEW s, NEW what, NEW r \in OrFails(states, s, what)
  PROVE  r \in states \/ r = Fails(s, what)
BY DEF OrFails

LEMMA AddToArrayInv ==
  ASSUME NEW s \in CallbackState, NEW nesting, Pending(s, nesting), s.d.stack # <<>>,
         NEW r \in AddToArray(s, Len(s.node))
  PROVE  r \in CallbackState /\ r.d.root = s.d.root /\ Stored(s, r, nesting)
<1> DEFINE n == Len(s.node)
           p == Parent(s)
           kids == s.node[p].kids
           more == [s.node EXCEPT ![p].kids = InsertAt(@, Len(kids) + 1, Kid(0, n))]
           got == [s EXCEPT !.node = more]
           freed == [s EXCEPT !.node = Release(@, n)]
<1>1. /\ s.node \in Seq(NodeSet) /\ Ordered(s.node) /\ StackInv(s, nesting)
      /\ Fresh(s.node, n) /\ n \in Nat /\ \A i \in DOMAIN s.d.stack : s.d.stack[i] < n
  BY StateFields, NodeType DEF Pending
<1>2. p \in Alive(s.node) /\ p \in DOMAIN s.node /\ n \in p + 1 .. Len(s.node)
  <2>1. /\ p \in Alive(s.node) /\ p \in DOMAIN s.node
        /\ Len(s.d.stack) \in DOMAIN s.d.stack /\ p = s.d.stack[Len(s.d.stack)]
    BY <1>1, ParentIs
  <2>2. p < n
    BY <1>1, <2>1
  <2> QED
    BY <1>1, <2>1, <2>2, NodeType
<1>3. kids \in Seq(KidSet) /\ Len(kids) \in Nat
  BY <1>1, <1>2, NodeType
<1>4. /\ Gets(s.node, more, p, n)
      /\ \A R : Forest(s.node, R) /\ n \in R /\ p \in Alive(s.node)
                  => Forest(more, R \ {n})
  <2> DEFINE at == Len(kids) + 1
             is == [s.node EXCEPT ![p].kids = InsertAt(@, at, Kid(0, n))]
  <2>1. at \in 1 .. Len(s.node[p].kids) + 1 /\ more = is /\ 0 \in Int
    BY <1>3
  <2> HIDE DEF more, at, n, p
  <2> QED
    BY <1>1, <1>2, <2>1, KidInserted
<1>6. Kid(0, n) \in KidSet
  BY <1>1 DEF Kid, KidSet
<1>7. [s EXCEPT !.node[p].kids = Append(@, Kid(0, n))] = got
  <2>1. Append(kids, Kid(0, n)) = InsertAt(kids, Len(kids) + 1, Kid(0, n))
    BY <1>3, <1>6, AppendIsInsert
  <2> QED
    BY <2>1
<1>8. \/ s.node[p].hollow /\ r = Ends(s, "crash")
      \/ r = got
      \/ r = Fails(freed, "add")
  BY <1>7, InOrFails DEF AddToArray
<1> HIDE DEF n, p, kids, more, got, freed
<1>9. CASE r = Ends(s, "crash")
  <2>1. "crash" \in JsonEnds
    BY DEF JsonEnds
  <2> QED
    BY <1>1, <1>9, <2>1, EndsState, CrashedInv
<1>10. CASE r = got
  <2>1. more \in Seq(NodeSet)
    BY <1>4 DEF Gets
  <2>2. r \in CallbackState /\ r.node = more /\ r.d = s.d /\ r.failed = s.failed
    BY <1>10, <2>1, NodesState DEF got
  <2>3. /\ Gets(s.node, r.node, Parent(s), Len(s.node))
        /\ \A R : Forest(s.node, R) /\ Len(s.node) \in R /\ Parent(s) \in Alive(s.node)
                  => Forest(r.node, R \ {Len(s.node)})
    BY <1>4, <2>2 DEF n, p
  <2> QED
    BY <2>2, <2>3, GetsInv
<1>11. CASE r = Fails(freed, "add")
  <2>1. Release(s.node, n) \in Seq(NodeSet)
    BY <1>1, ReleaseType DEF Release
  <2>2. /\ freed \in CallbackState /\ freed.node = Release(s.node, n) /\ freed.d = s.d
        /\ freed.failed = s.failed
    BY <2>1, NodesState DEF freed
  <2>3. "add" \in JsonPurposes
    BY DEF JsonPurposes
  <2>4. /\ r \in CallbackState /\ r.node = Release(s.node, n) /\ r.d.end = "stop"
        /\ r.d.root = s.d.root /\ r.failed = s.failed \cup {"add"}
    BY <1>11, <2>2, <2>3, FailsState
  <2> QED
    BY <2>4, DroppedInv DEF n
<1> QED
  BY <1>8, <1>9, <1>10, <1>11

LEMMA AddToMapInv ==
  ASSUME NEW s \in CallbackState, NEW nesting, Pending(s, nesting), s.d.stack # <<>>,
         NEW r \in AddToMap(s, Len(s.node))
  PROVE  r \in CallbackState /\ r.d.root = s.d.root /\ Stored(s, r, nesting)
<1> DEFINE n == Len(s.node)
           p == Parent(s)
           key == s.d.last_key
           more == MapSet(s.node, p, key, n)
           got == [s EXCEPT !.node = more]
           freed == [s EXCEPT !.node = Release(@, n)]
           lost == [s EXCEPT !.failed = @ \cup {"set"}]
<1>1. /\ s.node \in Seq(NodeSet) /\ Ordered(s.node) /\ StackInv(s, nesting)
      /\ Fresh(s.node, n) /\ n \in Nat /\ \A i \in DOMAIN s.d.stack : s.d.stack[i] < n
      /\ key \in Int
  BY StateFields, NodeType DEF Pending
<1>2. p \in Alive(s.node) /\ p \in DOMAIN s.node /\ n \in p + 1 .. Len(s.node)
  <2>1. /\ p \in Alive(s.node) /\ p \in DOMAIN s.node
        /\ Len(s.d.stack) \in DOMAIN s.d.stack /\ p = s.d.stack[Len(s.d.stack)]
    BY <1>1, ParentIs
  <2>2. p < n
    BY <1>1, <2>1
  <2> QED
    BY <1>1, <2>1, <2>2, NodeType
<1>4. /\ Gets(s.node, more, p, n)
      /\ \A R : Forest(s.node, R) /\ n \in R /\ p \in Alive(s.node)
                  => Forest(more, R \ {n})
  BY <1>1, <1>2, MapSetGets
<1>8. r = Ends(freed, "stop") \/ r = got \/ r = lost
  BY DEF AddToMap
<1> HIDE DEF n, p, key, more, got, freed, lost
<1>9. CASE r = Ends(freed, "stop")
  <2>1. Release(s.node, n) \in Seq(NodeSet)
    BY <1>1, ReleaseType DEF Release
  <2>2. /\ freed \in CallbackState /\ freed.node = Release(s.node, n) /\ freed.d = s.d
        /\ freed.failed = s.failed
    BY <2>1, NodesState DEF freed
  <2>3. "stop" \in JsonEnds
    BY DEF JsonEnds
  <2>4. /\ r \in CallbackState /\ r.node = Release(s.node, n) /\ r.d.end = "stop"
        /\ r.d.root = s.d.root /\ r.failed = s.failed
    BY <1>9, <2>2, <2>3, EndsState
  <2> QED
    BY <2>4, DroppedInv DEF n
<1>10. CASE r = got
  <2>1. more \in Seq(NodeSet)
    BY <1>4 DEF Gets
  <2>2. r \in CallbackState /\ r.node = more /\ r.d = s.d /\ r.failed = s.failed
    BY <1>10, <2>1, NodesState DEF got
  <2>3. /\ Gets(s.node, r.node, Parent(s), Len(s.node))
        /\ \A R : Forest(s.node, R) /\ Len(s.node) \in R /\ Parent(s) \in Alive(s.node)
                  => Forest(r.node, R \ {Len(s.node)})
    BY <1>4, <2>2 DEF n, p
  <2> QED
    BY <2>2, <2>3, GetsInv
<1>11. CASE r = lost
  <2>1. "set" \in JsonPurposes
    BY DEF JsonPurposes
  <2>2. /\ r \in CallbackState /\ r.node = s.node /\ r.d = s.d
        /\ r.failed = s.failed \cup {"set"}
    BY <1>11, <2>1, FailedState DEF lost
  <2> QED
    BY <2>2, LostInv
<1> QED
  BY <1>8, <1>9, <1>10, <1>11

LEMMA AddValueInv ==
  ASSUME NEW s \in CallbackState, NEW nesting, Pending(s, nesting), NEW r \in AddValue(s)
  PROVE  r \in CallbackState /\ r.d.root = s.d.root /\ Stored(s, r, nesting)
<1>1. CASE s.d.stack = <<>>
  <2>1. r = Ends(s, "crash")
    BY <1>1 DEF AddValue
  <2>2. "crash" \in JsonEnds
    BY DEF JsonEnds
  <2> QED
    BY <2>1, <2>2, EndsState, CrashedInv DEF Pending
<1>2. CASE s.d.stack # <<>>
  <2>1. r \in AddToArray(s, Len(s.node)) \/ r \in AddToMap(s, Len(s.node))
    BY <1>2 DEF AddValue
  <2> QED
    BY <1>2, <2>1, AddToArrayInv, AddToMapInv
<1> QED
  BY <1>1, <1>2


(* The newest node, a container, is stored: it goes on the stack.          *)
Opened(o, nesting, kind) ==
  /\ o \in CallbackState /\ CallbackInv(o, nesting)
  /\ o.d.end = "no" =>
       /\ Len(o.node) \in Alive(o.node) /\ o.node[Len(o.node)].kind = kind
       /\ \A i \in DOMAIN o.d.stack : o.d.stack[i] < Len(o.node)
       /\ (o.d.stack # <<>> /\ "set" \notin o.failed) =>
            Len(o.node) \in KidNumbers(o.node[Parent(o)].kids)

LEMMA PushedStack ==
  ASSUME NEW s \in CallbackState, NEW nesting \in Seq(Containers), NEW kind \in Containers,
         StackInv(s, nesting), NEW n \in Alive(s.node), s.node[n].kind = kind,
         \A i \in DOMAIN s.d.stack : s.d.stack[i] < n,
         (s.d.stack # <<>> /\ "set" \notin s.failed) => n \in KidNumbers(s.node[Parent(s)].kids),
         NEW r \in CallbackState, r.node = s.node, r.failed = s.failed,
         r.d.stack = Append(s.d.stack, n)
  PROVE  StackInv(r, Append(nesting, kind))
<1> DEFINE stack == s.d.stack
           more == r.d.stack
           inner == Append(nesting, kind)
           len == Len(stack)
<1>1. /\ stack \in Seq(Nat) /\ len \in Nat /\ DOMAIN stack = 1 .. len
      /\ \A i \in DOMAIN stack : stack[i] \in Nat
      /\ s.node \in Seq(NodeSet)
  BY StateFields
<1>2. n \in Nat /\ n \in DOMAIN s.node
  BY <1>1, NodeType DEF Alive
<1>3. /\ Len(more) = len + 1 /\ more[len + 1] = n /\ \A i \in 1 .. len : more[i] = stack[i]
      /\ DOMAIN more = 1 .. len + 1
  <2>1. stack \in Seq(Nat) /\ n \in Nat /\ more = Append(stack, n)
    BY <1>1, <1>2
  <2> HIDE DEF stack, more
  <2>2. /\ more \in Seq(Nat) /\ Len(more) = len + 1 /\ more[len + 1] = n
        /\ \A i \in 1 .. len : more[i] = stack[i]
    BY <2>1, AppendProperties
  <2> QED
    BY <2>2, LenProperties
<1>4. /\ Len(inner) = Len(nesting) + 1 /\ inner[Len(nesting) + 1] = kind
      /\ \A i \in 1 .. Len(nesting) : inner[i] = nesting[i]
  BY AppendProperties
<1>5. Len(nesting) = len
  BY DEF StackInv
<1>6. \A i \in DOMAIN stack :
        /\ stack[i] \in Alive(s.node) /\ s.node[stack[i]].kind = nesting[i]
        /\ \A j \in DOMAIN stack : j < i => stack[j] < stack[i]
        /\ (i > 1 /\ "set" \notin s.failed) =>
             stack[i] \in KidNumbers(s.node[stack[i - 1]].kids)
  BY DEF StackInv
<1>7. (len # 0 /\ "set" \notin s.failed) => n \in KidNumbers(s.node[stack[len]].kids)
  <2> SUFFICES ASSUME len # 0, "set" \notin s.failed
               PROVE  n \in KidNumbers(s.node[stack[len]].kids)
    OBVIOUS
  <2>1. stack # <<>>
    BY <1>1
  <2>2. Parent(s) = stack[len]
    BY <2>1, ParentIs
  <2> QED
    BY <2>1, <2>2
<1>8. \A i \in DOMAIN stack : stack[i] < n
  OBVIOUS
<1> HIDE DEF stack, more, inner, len
<1>9. ASSUME NEW i \in DOMAIN more
      PROVE  /\ more[i] \in Alive(s.node) /\ s.node[more[i]].kind = inner[i]
             /\ \A j \in DOMAIN more : j < i => more[j] < more[i]
             /\ (i > 1 /\ "set" \notin s.failed) =>
                  more[i] \in KidNumbers(s.node[more[i - 1]].kids)
  <2>1. CASE i = len + 1
    <3>1. more[i] = n /\ inner[i] = kind /\ \A j \in DOMAIN more : j < i => more[j] < n
      BY <1>1, <1>3, <1>4, <1>5, <1>8, <2>1
    <3>2. i > 1 => len # 0 /\ more[i - 1] = stack[len]
      BY <1>1, <1>3, <2>1
    <3> QED
      BY <1>7, <3>1, <3>2
  <2>2. CASE i # len + 1
    <3>1. /\ i \in DOMAIN stack /\ more[i] = stack[i] /\ inner[i] = nesting[i]
          /\ i > 1 => more[i - 1] = stack[i - 1]
      BY <1>1, <1>3, <1>4, <1>5, <2>2
    <3>2. \A j \in DOMAIN more : j < i => j \in DOMAIN stack /\ more[j] = stack[j]
      BY <1>1, <1>3, <2>2
    <3> QED
      BY <1>6, <3>1, <3>2
  <2> QED
    BY <2>1, <2>2
<1>10. Len(more) = Len(inner)
  BY <1>3, <1>4, <1>5
<1> QED
  BY <1>9, <1>10 DEF StackInv, more, inner

LEMMA PushesInv ==
  ASSUME NEW nesting \in Seq(Containers), NEW kind \in Containers,
         NEW o, Opened(o, nesting, kind), o.d.end = "no", NEW r \in Pushes(o)
  PROVE  r \in CallbackState /\ CallbackInv(r, Append(nesting, kind))
         /\ (r.d.end = "no" => r.d.stack # <<>>)
<1> DEFINE n == Len(o.node)
           freed == [o EXCEPT !.node = Release(@, Len(o.node))]
           dd == [o.d EXCEPT !.stack = Append(@, n),
                             !.room = IF Len(o.d.stack) = @ THEN @ + 1 ELSE @]
           pushed == [o EXCEPT !.d = dd]
<1>1. /\ o \in CallbackState /\ CallbackInv(o, nesting) /\ StackInv(o, nesting)
      /\ o.node \in Seq(NodeSet) /\ Ordered(o.node) /\ n \in Alive(o.node)
      /\ n \in Nat
  BY StateFields, NodeType DEF Opened, CallbackInv
<1>2. r = pushed \/ r = Fails(freed, "push")
  <2>1. [Push(o) EXCEPT !.d.room = IF Len(o.d.stack) = @ THEN @ + 1 ELSE @] = pushed
    BY DEF Push
  <2> QED
    BY <2>1, InOrFails DEF Pushes
<1>3. dd \in ParseData /\ dd.stack = Append(o.d.stack, n) /\ dd.root = o.d.root /\ dd.end = "no"
  <2> DEFINE stack == Append(o.d.stack, n)
             room == IF Len(o.d.stack) = o.d.room THEN o.d.room + 1 ELSE o.d.room
  <2>1. stack \in Seq(Nat) /\ room \in Nat /\ o.d \in ParseData
    BY <1>1, StateFields
  <2>2. dd = [o.d EXCEPT !.stack = stack, !.room = room]
    OBVIOUS
  <2> HIDE DEF stack, room, dd
  <2>3. dd \in ParseData /\ dd.stack = stack /\ dd.root = o.d.root /\ dd.end = o.d.end
    BY <2>1, <2>2 DEF ParseData
  <2> QED
    BY <2>3 DEF stack
<1>4. CASE r = pushed
  <2>1. /\ r \in CallbackState /\ r.node = o.node /\ r.failed = o.failed /\ r.d = dd
    <3> HIDE DEF dd
    <3> QED
      BY <1>1, <1>3, <1>4 DEF CallbackState
  <2>2. /\ r.d.stack = Append(o.d.stack, n) /\ r.d.root = o.d.root /\ r.d.end = "no"
    BY <1>3, <2>1
  <2> HIDE DEF dd, pushed
  <2>3. StackInv(r, Append(nesting, kind))
    <3>1. /\ o.node[n].kind = kind /\ \A i \in DOMAIN o.d.stack : o.d.stack[i] < n
          /\ (o.d.stack # <<>> /\ "set" \notin o.failed) =>
               n \in KidNumbers(o.node[Parent(o)].kids)
      BY DEF Opened
    <3> HIDE DEF n
    <3> QED
      BY <1>1, <2>1, <2>2, <3>1, PushedStack
  <2>4. ForestInv(r, {}, loose)
    <3>1. ForestInv(o, {}, loose)
      BY <1>1 DEF CallbackInv
    <3> QED
      BY <2>1, <2>2, <3>1 DEF ForestInv
  <2>5. r.d.stack # <<>>
    <3>1. o.d.stack \in Seq(Nat)
      BY <1>1, StateFields
    <3>2. Len(Append(o.d.stack, n)) = Len(o.d.stack) + 1 /\ Len(o.d.stack) \in Nat
      <4> DEFINE stack == o.d.stack
      <4>1. stack \in Seq(Nat) /\ n \in Nat
        BY <1>1, <3>1
      <4> HIDE DEF stack, n
      <4> QED
        <5>1. Len(Append(stack, n)) = Len(stack) + 1 /\ Len(stack) \in Nat
          BY <4>1, AppendProperties, LenProperties
        <5> QED
          BY <5>1 DEF stack
    <3>3. Len(r.d.stack) # Len(<<>>)
      <4> DEFINE len == Len(o.d.stack)
      <4>1. Len(r.d.stack) = len + 1 /\ len \in Nat
        BY <2>2, <3>2
      <4> HIDE DEF len
      <4> QED
        BY <4>1
    <3> QED
      BY <3>3
  <2> QED
    BY <1>1, <2>1, <2>3, <2>4, <2>5 DEF CallbackInv
<1>5. CASE r = Fails(freed, "push")
  <2>1. Release(o.node, n) \in Seq(NodeSet) /\ Ordered(Release(o.node, n))
    BY <1>1, ReleaseType DEF Release
  <2>2. /\ freed \in CallbackState /\ freed.node = Release(o.node, n)
    BY <1>1, <2>1, NodesState
  <2>3. "push" \in JsonPurposes
    BY DEF JsonPurposes
  <2> HIDE DEF freed
  <2>4. /\ r \in CallbackState /\ r.node = Release(o.node, n) /\ r.d.end = "stop"
        /\ "push" \in r.failed
    BY <1>5, <2>2, <2>3, FailsState
  <2> QED
    BY <2>1, <2>4 DEF CallbackInv, ForestInv
<1> QED
  BY <1>2, <1>4, <1>5

(* Every value made, and every callback that makes one.                    *)
LEMMA MadeInv ==
  ASSUME NEW s \in CallbackState, NEW nesting \in Seq(Containers),
         CallbackInv(s, nesting), s.d.end = "no",
         NEW new \in NodeSet, new.kids = <<>>, new.freed = 0,
         NEW m, m = Made(s, new) \/ m = MadeHollow(s, new)
  PROVE  /\ m \in CallbackState /\ m.d = s.d /\ Len(m.node) \in Nat
         /\ Pending(m, nesting) /\ m.node[Len(m.node)].kind = new.kind
<1> DEFINE hollow == [new EXCEPT !.hollow = TRUE]
<1>1. /\ hollow \in NodeSet /\ hollow.kids = <<>> /\ hollow.freed = 0
      /\ hollow.kind = new.kind
  BY DEF NodeSet
<1>2. s.node \in Seq(NodeSet)
  BY StateFields
<1>3. ASSUME NEW e \in NodeSet
      PROVE  /\ Made(s, e) \in CallbackState /\ Made(s, e).node = Append(s.node, e)
             /\ Made(s, e).d = s.d /\ Made(s, e).failed = s.failed
  <2>1. Append(s.node, e) \in Seq(NodeSet)
    BY <1>2, AppendProperties
  <2> QED
    BY <2>1, NodesState DEF Made
<1> HIDE DEF hollow
<1>4. CASE m = Made(s, new)
  <2>1. m \in CallbackState /\ m.node = Append(s.node, new) /\ m.d = s.d /\ m.failed = s.failed
    BY <1>3, <1>4
  <2>2. Pending(m, nesting) /\ m.node[Len(m.node)] = new
    BY <2>1, MadePending
  <2> QED
    BY <2>1, <2>2 DEF Pending
<1>5. CASE m = MadeHollow(s, new)
  <2>1. "hollow" \in JsonPurposes
    BY DEF JsonPurposes
  <2>2. m = [Made(s, hollow) EXCEPT !.failed = @ \cup {"hollow"}]
    BY <1>5 DEF MadeHollow, hollow
  <2>3. /\ m \in CallbackState /\ m.node = Append(s.node, hollow) /\ m.d = s.d
        /\ m.failed = s.failed \cup {"hollow"}
    BY <1>1, <1>3, <2>1, <2>2, FailedState
  <2>4. Pending(m, nesting) /\ m.node[Len(m.node)] = hollow
    BY <1>1, <2>3, MadePending
  <2> QED
    BY <1>1, <2>3, <2>4
<1> QED
  BY <1>4, <1>5


-----------------------------------------------------------------------------
(* The callback's events.                                                  *)
LEMMA StoppedInv ==
  ASSUME NEW s \in CallbackState, NEW nesting, CallbackInv(s, nesting), s.d.end = "no",
         NEW r \in CallbackState, r.node = s.node, r.d.root = s.d.root, r.d.end = "stop",
         s.failed \subseteq r.failed, NEW inner
  PROVE  CallbackInv(r, inner)
BY DEF CallbackInv, ForestInv

LEMMA OpenedInv ==
  ASSUME NEW s \in CallbackState, NEW nesting \in Seq(Containers),
         CallbackInv(s, nesting), s.d.end = "no", s.d.stack = <<>> => s.d.root = 0,
         NEW kind \in Containers,
         NEW m \in CallbackState, Pending(m, nesting), m.d = s.d,
         m.node[Len(m.node)].kind = kind,
         NEW o \in IF s.d.stack = <<>> THEN {[m EXCEPT !.d.root = Len(m.node)]}
                   ELSE AddValue(m)
  PROVE  Opened(o, nesting, kind)
<1> DEFINE n == Len(m.node)
<1>1. /\ m.node \in Seq(NodeSet) /\ Ordered(m.node) /\ n \in Alive(m.node) /\ n \in Nat
      /\ StackInv(m, nesting) /\ \A i \in DOMAIN m.d.stack : m.d.stack[i] < n
  BY StateFields, NodeType DEF Pending
<1>2. CASE s.d.stack # <<>>
  <2>1. o \in AddValue(m)
    BY <1>2
  <2>2. o \in CallbackState /\ Stored(m, o, nesting)
    BY <2>1, AddValueInv
  <2>3. CallbackInv(o, nesting)
    BY <2>2 DEF Stored
  <2>4. ASSUME o.d.end = "no"
        PROVE  /\ Len(o.node) \in Alive(o.node) /\ o.node[Len(o.node)].kind = kind
               /\ \A i \in DOMAIN o.d.stack : o.d.stack[i] < Len(o.node)
               /\ "set" \notin o.failed =>
                    Len(o.node) \in KidNumbers(o.node[Parent(o)].kids)
    BY <2>2, <2>4 DEF Stored, Parent
  <2> QED
    BY <2>2, <2>3, <2>4 DEF Opened
<1>3. CASE s.d.stack = <<>>
  <2> DEFINE dd == [m.d EXCEPT !.root = n]
  <2>1. o = [m EXCEPT !.d = dd]
    BY <1>3
  <2>2. dd \in ParseData /\ dd.root = n /\ dd.stack = m.d.stack /\ dd.end = m.d.end
    BY <1>1, StateFields DEF ParseData
  <2> HIDE DEF dd, n
  <2>3. /\ o \in CallbackState /\ o.node = m.node /\ o.failed = m.failed
        /\ o.d.root = n /\ o.d.stack = m.d.stack /\ o.d.end = m.d.end
    BY <2>1, <2>2 DEF CallbackState
  <2>4. StackInv(o, nesting)
    BY <1>1, <2>3 DEF StackInv
  <2>5. ASSUME o.failed \cap {"set", "push"} = {}
        PROVE  Forest(o.node, Roots(n, loose) \cup {}) /\ n \notin loose
    <3>1. /\ Forest(m.node, Roots(m.d.root, loose) \cup {n}) /\ n \notin loose /\ n # 0
      BY <1>1, <2>3, <2>5, NodeType DEF Pending, ForestInv, n, Alive
    <3>2. m.d.root = 0
      BY <1>3
    <3>3. Roots(m.d.root, loose) \cup {n} = Roots(n, loose) \cup {}
      BY <3>1, <3>2 DEF Roots
    <3> QED
      BY <2>3, <3>1, <3>3
  <2>6. ForestInv(o, {}, loose)
    BY <2>3, <2>5 DEF ForestInv
  <2>7. CallbackInv(o, nesting)
    BY <1>1, <2>3, <2>4, <2>6 DEF CallbackInv
  <2>8. /\ Len(o.node) = n /\ n \in Alive(o.node) /\ o.node[n].kind = kind
        /\ \A i \in DOMAIN o.d.stack : o.d.stack[i] < n
    BY <1>1, <1>3, <2>3 DEF n
  <2> QED
    BY <1>3, <2>3, <2>7, <2>8 DEF Opened
<1> QED
  BY <1>2, <1>3

LEMMA OpenContainerInv ==
  ASSUME NEW s \in CallbackState, NEW nesting \in Seq(Containers),
         CallbackInv(s, nesting), s.d.end = "no", s.d.stack = <<>> => s.d.root = 0,
         NEW kind \in Containers, NEW r \in OpenContainer(s, kind)
  PROVE  r \in CallbackState /\ CallbackInv(r, Append(nesting, kind))
<1> DEFINE new == Node(kind, 0)
           made == {Made(s, new)} \cup (IF MayFail(s) THEN {MadeHollow(s, new)} ELSE {})
           added(m) == IF s.d.stack = <<>> THEN {[m EXCEPT !.d.root = Len(m.node)]}
                       ELSE AddValue(m)
           opened == UNION {added(m) : m \in made}
           pushed == UNION {IF o.d.end = "no" THEN Pushes(o) ELSE {o} : o \in opened}
<1>1. new \in NodeSet /\ new.kids = <<>> /\ new.freed = 0 /\ new.kind = kind
  BY DEF Node, NodeSet, JsonKinds
<1>2. r \in OrFails(pushed, s, "value")
  BY DEF OpenContainer
<1> HIDE DEF new, made, added, opened, pushed
<1>3. r \in pushed \/ r = Fails(s, "value")
  BY <1>2, InOrFails
<1>4. ASSUME NEW o \in opened PROVE Opened(o, nesting, kind)
  <2>1. PICK m \in made : o \in added(m)
    BY DEF opened
  <2>2. m = Made(s, new) \/ m = MadeHollow(s, new)
    BY DEF made
  <2>3. /\ m \in CallbackState /\ m.d = s.d /\ Pending(m, nesting)
        /\ m.node[Len(m.node)].kind = kind
    BY <1>1, <2>2, MadeInv
  <2> QED
    BY <2>1, <2>3, OpenedInv DEF added
<1>5. CASE r \in pushed
  <2>1. PICK o \in opened : r \in IF o.d.end = "no" THEN Pushes(o) ELSE {o}
    BY <1>5 DEF pushed
  <2>2. Opened(o, nesting, kind)
    BY <1>4
  <2>3. CASE o.d.end = "no"
    BY <2>1, <2>2, <2>3, PushesInv
  <2>4. CASE o.d.end # "no"
    <3>1. r = o /\ o \in CallbackState /\ CallbackInv(o, nesting)
      BY <2>1, <2>2, <2>4 DEF Opened
    <3> QED
      BY <2>4, <3>1 DEF CallbackInv
  <2> QED
    BY <2>3, <2>4
<1>6. CASE r = Fails(s, "value")
  <2>1. "value" \in JsonPurposes
    BY DEF JsonPurposes
  <2>2. /\ r \in CallbackState /\ r.node = s.node /\ r.d.root = s.d.root /\ r.d.end = "stop"
        /\ s.failed \subseteq r.failed
    BY <1>6, <2>1, FailsState
  <2> QED
    BY <2>2, StoppedInv
<1> QED
  BY <1>3, <1>5, <1>6

LEMMA AddScalarInv ==
  ASSUME NEW s \in CallbackState, NEW nesting \in Seq(Containers),
         CallbackInv(s, nesting), s.d.end = "no",
         NEW lexeme, lexeme.kind \in Scalars, lexeme.v \in Nat,
         NEW r \in AddScalar(s, lexeme)
  PROVE  r \in CallbackState /\ CallbackInv(r, nesting)
<1> DEFINE new == Node(lexeme.kind, Decoded(lexeme))
           m == Made(s, new)
           is_text == lexeme.kind = "string"
           copies == {m} \cup (IF MayFail(s) /\ is_text THEN {MadeHollow(s, new)} ELSE {})
           added == UNION {AddValue(c) : c \in copies}
           drops == [m EXCEPT !.node = Release(@, Len(@))]
           stored == IF is_text THEN OrFails(added, drops, "string") ELSE added
<1>1. new \in NodeSet /\ new.kids = <<>> /\ new.freed = 0
  <2>1. Decoded(lexeme) \in Nat
    BY DEF Decoded, Cut
  <2> QED
    BY <2>1 DEF Node, NodeSet, JsonKinds
<1>2. r \in OrFails(stored, s, "value")
  BY DEF AddScalar
<1>m. Pending(m, nesting) /\ m.d = s.d /\ m \in CallbackState
  <2> HIDE DEF new, m
  <2> QED
    BY <1>1, MadeInv DEF m
<1> HIDE DEF new, m, copies, added, drops, stored, is_text
<1>3. r \in stored \/ r = Fails(s, "value")
  BY <1>2, InOrFails
<1>4. r \in added \/ r = Fails(drops, "string") \/ r = Fails(s, "value")
  BY <1>3, InOrFails DEF stored
<1>5. CASE r \in added
  <2>1. PICK c \in copies : r \in AddValue(c)
    BY <1>5 DEF added
  <2>2. c = Made(s, new) \/ c = MadeHollow(s, new)
    BY DEF copies, m
  <2>3. c \in CallbackState /\ Pending(c, nesting)
    BY <1>1, <2>2, MadeInv
  <2>4. r \in CallbackState /\ Stored(c, r, nesting)
    BY <2>1, <2>3, AddValueInv
  <2> QED
    BY <2>4 DEF Stored
<1>6. CASE r = Fails(drops, "string")
  <2>1. m.node \in Seq(NodeSet) /\ Ordered(m.node)
    BY <1>m, StateFields DEF Pending
  <2>2. Release(m.node, Len(m.node)) \in Seq(NodeSet)
    BY <2>1, ReleaseType DEF Release
  <2>3. /\ drops \in CallbackState /\ drops.node = Release(m.node, Len(m.node))
        /\ drops.d = m.d /\ drops.failed = m.failed
    BY <1>m, <2>2, NodesState DEF drops
  <2>4. "string" \in JsonPurposes
    BY DEF JsonPurposes
  <2>5. /\ r \in CallbackState /\ r.node = Release(m.node, Len(m.node)) /\ r.d.end = "stop"
        /\ r.d.root = m.d.root /\ r.failed = m.failed \cup {"string"}
    BY <1>6, <2>3, <2>4, FailsState
  <2>6. Stored(m, r, nesting)
    BY <1>m, <2>5, DroppedInv
  <2> QED
    BY <2>5, <2>6 DEF Stored
<1>7. CASE r = Fails(s, "value")
  <2>1. "value" \in JsonPurposes
    BY DEF JsonPurposes
  <2>2. /\ r \in CallbackState /\ r.node = s.node /\ r.d.root = s.d.root /\ r.d.end = "stop"
        /\ s.failed \subseteq r.failed
    BY <1>7, <2>1, FailsState
  <2> QED
    BY <2>2, StoppedInv
<1> QED
  BY <1>4, <1>5, <1>6, <1>7


LEMMA FrontProperties ==
  ASSUME NEW S, NEW s \in Seq(S), s # <<>>
  PROVE  /\ Front(s) \in Seq(S) /\ Len(Front(s)) = Len(s) - 1
         /\ DOMAIN Front(s) = 1 .. Len(s) - 1
         /\ \A i \in 1 .. Len(s) - 1 : Front(s)[i] = s[i]
<1>1. Len(s) \in Nat /\ Len(s) # 0 /\ \A i \in 1 .. Len(s) : s[i] \in S
  BY EmptySeq, LenProperties, ElementOfSeq
<1> DEFINE n == Len(s) - 1
<1>2. n \in Nat /\ \A i \in 1 .. n : s[i] \in S
  BY <1>1
<1> HIDE DEF n
<1>3. /\ SubSeq(s, 1, n) \in Seq(S)
      /\ Len(SubSeq(s, 1, n)) = IF 1 <= n THEN n - 1 + 1 ELSE 0
      /\ \A i \in 1 .. n - 1 + 1 : SubSeq(s, 1, n)[i] = s[1 + i - 1]
  BY <1>2, SubSeqProperties
<1>4. Front(s) = SubSeq(s, 1, n)
  BY DEF Front, n
<1>5. Len(Front(s)) = n /\ \A i \in 1 .. n : Front(s)[i] = s[i]
  BY <1>2, <1>3, <1>4
<1>6. DOMAIN Front(s) = 1 .. n
  BY <1>3, <1>4, <1>5, LenProperties
<1> QED
  BY <1>3, <1>4, <1>5, <1>6 DEF n

LEMMA CloseContainerInv ==
  ASSUME NEW s \in CallbackState, NEW nesting \in Seq(Containers),
         CallbackInv(s, nesting), s.d.end = "no", nesting # <<>>,
         NEW r \in CloseContainer(s)
  PROVE  r \in CallbackState /\ CallbackInv(r, Front(nesting))
<1> DEFINE stack == s.d.stack
           inner == Front(nesting)
           dd == [s.d EXCEPT !.stack = Front(@)]
<1>1. /\ stack \in Seq(Nat) /\ DOMAIN stack = 1 .. Len(stack) /\ Len(stack) \in Nat
      /\ StackInv(s, nesting)
  BY StateFields DEF CallbackInv
<1>2. Len(stack) = Len(nesting) /\ stack # <<>>
  <2>1. Len(stack) = Len(nesting)
    BY <1>1 DEF StackInv
  <2>2. Len(nesting) # 0
    BY EmptySeq
  <2> QED
    BY <2>1, <2>2
<1>3. /\ Front(stack) \in Seq(Nat) /\ Len(Front(stack)) = Len(stack) - 1
      /\ DOMAIN Front(stack) = 1 .. Len(stack) - 1
      /\ \A i \in 1 .. Len(stack) - 1 : Front(stack)[i] = stack[i]
  <2> HIDE DEF stack
  <2> QED
    BY <1>1, <1>2, FrontProperties
<1>4. /\ Len(inner) = Len(nesting) - 1
      /\ \A i \in 1 .. Len(nesting) - 1 : inner[i] = nesting[i]
  BY FrontProperties
<1>5. r = [s EXCEPT !.d = dd]
  BY DEF CloseContainer
<1>6. dd \in ParseData /\ dd.stack = Front(stack) /\ dd.root = s.d.root /\ dd.end = s.d.end
  <2> DEFINE front == Front(stack)
  <2>1. front \in Seq(Nat) /\ s.d \in ParseData
    BY <1>3, StateFields
  <2>2. dd = [s.d EXCEPT !.stack = front]
    OBVIOUS
  <2> HIDE DEF dd, front
  <2> QED
    <3>1. dd \in ParseData /\ dd.stack = front /\ dd.root = s.d.root /\ dd.end = s.d.end
      BY <2>1, <2>2 DEF ParseData
    <3> QED
      BY <3>1 DEF front
<1> HIDE DEF dd, inner
<1>7. /\ r \in CallbackState /\ r.node = s.node /\ r.failed = s.failed
      /\ r.d.root = s.d.root /\ r.d.stack = Front(stack) /\ r.d.end = s.d.end
  BY <1>5, <1>6 DEF CallbackState
<1>8. StackInv(r, inner)
  <2>1. \A i \in DOMAIN stack :
          /\ stack[i] \in Alive(s.node) /\ s.node[stack[i]].kind = nesting[i]
          /\ \A j \in DOMAIN stack : j < i => stack[j] < stack[i]
          /\ (i > 1 /\ "set" \notin s.failed) =>
               stack[i] \in KidNumbers(s.node[stack[i - 1]].kids)
    BY <1>1 DEF StackInv
  <2> DEFINE front == Front(stack)
  <2>2. /\ Len(front) = Len(inner)
        /\ \A i \in DOMAIN front : i \in DOMAIN stack /\ front[i] = stack[i] /\ inner[i] = nesting[i]
        /\ \A i \in DOMAIN front : i > 1 => front[i - 1] = stack[i - 1]
    <3> DEFINE len == Len(stack)
    <3>1. /\ len \in Nat /\ Len(nesting) = len /\ DOMAIN stack = 1 .. len
          /\ Len(front) = len - 1 /\ DOMAIN front = 1 .. len - 1
          /\ \A i \in 1 .. len - 1 : front[i] = stack[i]
          /\ \A i \in 1 .. len - 1 : inner[i] = nesting[i]
          /\ Len(inner) = len - 1
      BY <1>1, <1>2, <1>3, <1>4
    <3> HIDE DEF len, front, stack
    <3>2. \A i \in 1 .. len - 1 : i \in 1 .. len /\ (i > 1 => i - 1 \in 1 .. len - 1)
      BY <3>1
    <3> QED
      BY <3>1, <3>2
  <2> HIDE DEF front, stack
  <2>3. ASSUME NEW i \in DOMAIN front
        PROVE  /\ front[i] \in Alive(s.node) /\ s.node[front[i]].kind = inner[i]
               /\ \A j \in DOMAIN front : j < i => front[j] < front[i]
               /\ (i > 1 /\ "set" \notin s.failed) =>
                    front[i] \in KidNumbers(s.node[front[i - 1]].kids)
    BY <2>1, <2>2
  <2> QED
    BY <1>7, <2>2, <2>3 DEF StackInv, front
<1>9. ForestInv(r, {}, loose)
  BY <1>7 DEF CallbackInv, ForestInv
<1> QED
  BY <1>7, <1>8, <1>9 DEF CallbackInv, inner

LEMMA SetKeyInv ==
  ASSUME NEW s \in CallbackState, NEW nesting, CallbackInv(s, nesting), s.d.end = "no",
         NEW v \in Nat, NEW r \in SetKey(s, v)
  PROVE  r \in CallbackState /\ CallbackInv(r, nesting)
<1> DEFINE grows == s.d.last_key = None \/ s.d.last_alloc <= TextLen(v) + 2
           e == IF grows THEN [s EXCEPT !.d.last_alloc = TextLen(v) + 3] ELSE s
           keys == IF v # 0 THEN {v} ELSE {Garbled} \cup ({s.d.last_key} \ {None})
           none == [e EXCEPT !.failed = @ \cup {"key"}, !.d.last_key = None]
<1>1. \/ \E k \in keys : r = [e EXCEPT !.d.last_key = k]
      \/ r = Ends(none, "crash")
      \/ r = none
  BY DEF SetKey
<1>2. TextLen(v) + 3 \in Nat
  BY DEF TextLen
<1>3. s.d \in ParseData /\ s.d.last_key \in Int
  BY StateFields
<1>4. /\ e \in CallbackState /\ e.node = s.node /\ e.failed = s.failed
      /\ e.d.root = s.d.root /\ e.d.stack = s.d.stack /\ e.d.end = s.d.end
      /\ e.d.last_key = s.d.last_key
  <2> DEFINE alloc == TextLen(v) + 3
             dd == [s.d EXCEPT !.last_alloc = alloc]
  <2>1. alloc \in Nat
    BY <1>2
  <2>2. e = [s EXCEPT !.d = dd] \/ e = s
    OBVIOUS
  <2> HIDE DEF alloc, e
  <2>3. /\ dd \in ParseData /\ dd.root = s.d.root /\ dd.stack = s.d.stack
        /\ dd.end = s.d.end /\ dd.last_key = s.d.last_key
    BY <1>3, <2>1 DEF ParseData
  <2> HIDE DEF dd
  <2> QED
    BY <2>2, <2>3 DEF CallbackState
<1>5. keys \subseteq Int
  BY <1>3 DEF Garbled
<1> HIDE DEF e, keys
<1>6. ASSUME NEW k \in Int, NEW f, f \in {e.failed, e.failed \cup {"key"}},
             NEW m, m = [e EXCEPT !.failed = f, !.d.last_key = k]
      PROVE  /\ m \in CallbackState /\ m.node = s.node /\ m.failed = f
             /\ m.d.root = s.d.root /\ m.d.stack = s.d.stack /\ m.d.end = s.d.end
  <2> DEFINE dd == [e.d EXCEPT !.last_key = k]
  <2>1. e.d \in ParseData /\ e.failed \in SUBSET JsonPurposes
    BY <1>4, StateFields
  <2>2. f \in SUBSET JsonPurposes
    BY <1>6, <2>1 DEF JsonPurposes
  <2>3. /\ dd \in ParseData /\ dd.root = s.d.root /\ dd.stack = s.d.stack
        /\ dd.end = s.d.end
    BY <1>4, <2>1 DEF ParseData
  <2>4. m = [e EXCEPT !.failed = f, !.d = dd]
    BY <1>6
  <2> HIDE DEF dd
  <2> QED
    BY <1>4, <2>2, <2>3, <2>4 DEF CallbackState
<1>7. ASSUME NEW m \in CallbackState, m.node = s.node, m.d.root = s.d.root,
             m.d.stack = s.d.stack, m.d.end = s.d.end,
             m.failed = s.failed \/ m.failed = s.failed \cup {"key"}
      PROVE  CallbackInv(m, nesting)
  <2>1. StackInv(m, nesting)
    BY <1>7 DEF CallbackInv, StackInv
  <2>2. ForestInv(m, {}, loose)
    BY <1>7 DEF CallbackInv, ForestInv
  <2> QED
    BY <1>7, <2>1, <2>2 DEF CallbackInv
<1>8. ASSUME NEW k \in keys, r = [e EXCEPT !.d.last_key = k]
      PROVE  r \in CallbackState /\ CallbackInv(r, nesting)
  <2>1. r = [e EXCEPT !.failed = e.failed, !.d.last_key = k]
    BY <1>4, <1>8 DEF CallbackState
  <2>2. /\ r \in CallbackState /\ r.node = s.node /\ r.failed = s.failed
        /\ r.d.root = s.d.root /\ r.d.stack = s.d.stack /\ r.d.end = s.d.end
    BY <1>4, <1>5, <1>6, <2>1
  <2> QED
    BY <1>7, <2>2
<1>9. /\ none \in CallbackState /\ none.node = s.node /\ none.failed = s.failed \cup {"key"}
      /\ none.d.root = s.d.root /\ none.d.stack = s.d.stack /\ none.d.end = s.d.end
  <2>1. None \in Int
    BY DEF None
  <2> QED
    BY <1>4, <1>6, <2>1
<1> HIDE DEF none
<1>10. CallbackInv(none, nesting)
  BY <1>7, <1>9
<1>11. Ends(none, "crash") \in CallbackState /\ CallbackInv(Ends(none, "crash"), nesting)
  <2>1. "crash" \in JsonEnds
    BY DEF JsonEnds
  <2> QED
    BY <1>9, <1>10, <2>1, EndsState, CrashedInv DEF CallbackInv
<1> QED
  BY <1>1, <1>8, <1>9, <1>10, <1>11


-----------------------------------------------------------------------------
(* A round of the scanner, and what the callback does with its event.      *)
Separators == {":", ","}

LEMMA EventsApart ==
  /\ \A e \in Containers : e \notin Closers /\ e \notin Separators /\ e \notin Scalars /\ e # "key"
  /\ \A e \in Closers : e \notin Separators /\ e \notin Scalars /\ e # "key"
  /\ \A e \in Scalars : e \notin Separators /\ e # "key"
  /\ "key" \notin Separators
BY Zenon DEF Containers, Closers, Separators, Scalars

LEMMA LexemeType ==
  ASSUME NEW lexeme \in Lexemes
  PROVE  lexeme.v \in Nat
<1>1. CASE lexeme \in {Mark(k) : k \in Structure \cup {"null", "?"}}
  BY <1>1 DEF Mark
<1>2. CASE lexeme \in [kind: {"string"}, v: Strings]
  BY <1>2, MJsonAssumption
<1>3. CASE lexeme \in [kind: {"number"}, v: Numbers]
  BY <1>3, MJsonAssumption
<1> QED
  BY <1>1, <1>2, <1>3 DEF Lexemes

LEMMA ScanCases ==
  ASSUME NEW s, s.expecting \in {"value", "key", "colon", "comma"}, NEW lexeme
  PROVE  \/ Scan(s, lexeme) = Invalid(s)
         \/ lexeme.kind \in Containers /\ Scan(s, lexeme) = Enter(s, lexeme.kind)
         \/ /\ lexeme.kind \in Closers /\ Scan(s, lexeme) = Leave(s, lexeme.kind)
            /\ s.nesting # <<>> \/ s.expecting # "value"
         \/ lexeme.kind \in Scalars /\ Scan(s, lexeme) = Value(s, lexeme.kind)
         \/ /\ Scan(s, lexeme) = Pass(s, "key", "colon")
            /\ s.expecting # "value"
         \/ \E c \in Separators, e \in {"key", "value"} :
              /\ Scan(s, lexeme) = Pass(s, c, e)
              /\ s.expecting # "value"
<1> DEFINE c == lexeme.kind
<1>1. CASE s.expecting = "value"
  <2>1. Scan(s, lexeme) = ValueExpected(s, c)
    BY <1>1 DEF Scan
  <2>2. \/ c \in Containers /\ ValueExpected(s, c) = Enter(s, c)
        \/ c = "]" /\ s.nesting # <<>> /\ ValueExpected(s, c) = Leave(s, c)
        \/ c \in Scalars /\ ValueExpected(s, c) = Value(s, c)
        \/ ValueExpected(s, c) = Invalid(s)
    <3>1. "]" \notin Containers /\ "]" \notin Scalars
      BY Zenon DEF Containers, Scalars
    <3>2. \A k \in Containers : k \notin Scalars
      BY EventsApart
    <3> QED
      BY <3>1, <3>2, Zenon DEF ValueExpected
  <2>3. "]" \in Closers
    BY Zenon DEF Closers
  <2> QED
    BY <2>1, <2>2, <2>3
<1>2. CASE s.expecting = "key"
  <2>1. Scan(s, lexeme) = KeyExpected(s, c)
    BY <1>2 DEF Scan
  <2>2. \/ KeyExpected(s, c) = Pass(s, "key", "colon")
        \/ c = "}" /\ KeyExpected(s, c) = Leave(s, c)
        \/ KeyExpected(s, c) = Invalid(s)
    BY Zenon DEF KeyExpected
  <2>3. "}" \in Closers
    BY Zenon DEF Closers
  <2> QED
    BY <1>2, <2>1, <2>2, <2>3
<1>3. CASE s.expecting = "colon"
  <2>1. Scan(s, lexeme) = ColonExpected(s, c)
    BY <1>3 DEF Scan
  <2>2. \/ c = ":" /\ ColonExpected(s, c) = Pass(s, c, "value")
        \/ ColonExpected(s, c) = Invalid(s)
    BY Zenon DEF ColonExpected
  <2>3. ":" \in Separators
    BY Zenon DEF Separators
  <2> QED
    BY <1>3, <2>1, <2>2, <2>3
<1>4. CASE s.expecting = "comma"
  <2> DEFINE next == Begin(Last(s.nesting))
  <2>1. Scan(s, lexeme) = CommaExpected(s, c)
    BY <1>4 DEF Scan
  <2>2. \/ c = "," /\ CommaExpected(s, c) = Pass(s, c, next)
        \/ c \in Closers /\ CommaExpected(s, c) = Leave(s, c)
        \/ CommaExpected(s, c) = Invalid(s)
    <3>1. "," \notin Closers
      BY Zenon DEF Closers
    <3> QED
      BY <3>1, Zenon DEF CommaExpected
  <2>3. "," \in Separators
    BY Zenon DEF Separators
  <2>4. next \in {"key", "value"}
    BY Zenon DEF Begin
  <2> HIDE DEF next
  <2> QED
    BY <1>4, <2>1, <2>2, <2>3, <2>4
<1> QED
  BY <1>1, <1>2, <1>3, <1>4


LEMMA EventsAre ==
  Containers \cup Closers \cup Separators \cup Scalars \cup {"none", "key"} \subseteq JsonEvents
BY Zenon DEF JsonEvents, Structure, Separators

(* What mjson calls back for is what it did to its nesting.                *)
Rounds(s, t, lexeme) ==
  \/ t.status = "error"
  \/ t.event \in Containers /\ t.nesting = Append(s.nesting, t.event)
  \/ t.event \in Closers /\ s.nesting # <<>> /\ t.nesting = Front(s.nesting)
  \/ t.event \in Scalars /\ t.event = lexeme.kind /\ t.nesting = s.nesting
  \/ t.event \in {"key"} \cup Separators /\ t.nesting = s.nesting

LEMMA ScanStep ==
  ASSUME NEW s \in ScanSet, s.status = "more", s.nesting = <<>> => s.expecting = "value",
         NEW lexeme
  PROVE  /\ Scan(s, lexeme) \in ScanSet
         /\ Scan(s, lexeme).status = "more" => Scan(s, lexeme).nesting # <<>>
         /\ Rounds(s, Scan(s, lexeme), lexeme)
<1> DEFINE t == Scan(s, lexeme)
<1>1. /\ s.expecting \in {"value", "key", "colon", "comma"} /\ s.nesting \in Seq(Containers)
      /\ s.event \in JsonEvents
      /\ DOMAIN s = {"expecting", "nesting", "status", "event"}
  BY DEF ScanSet
<1>2. \/ t = Invalid(s)
      \/ lexeme.kind \in Containers /\ t = Enter(s, lexeme.kind)
      \/ /\ lexeme.kind \in Closers /\ t = Leave(s, lexeme.kind)
         /\ s.nesting # <<>> \/ s.expecting # "value"
      \/ lexeme.kind \in Scalars /\ t = Value(s, lexeme.kind)
      \/ t = Pass(s, "key", "colon") /\ s.expecting # "value"
      \/ \E c \in Separators, e \in {"key", "value"} :
           t = Pass(s, c, e) /\ s.expecting # "value"
  BY <1>1, ScanCases
<1> HIDE DEF t
<1>3. CASE t = Invalid(s)
  <2>1. "none" \in JsonEvents
    BY EventsAre
  <2>2. t \in ScanSet /\ t.status = "error"
    BY <1>3, <2>1 DEF Invalid, ScanSet
  <2> QED
    BY <2>2 DEF Rounds, t
<1>4. CASE lexeme.kind \in Containers /\ t = Enter(s, lexeme.kind) /\ t # Invalid(s)
  <2> DEFINE c == lexeme.kind
             inner == Append(s.nesting, c)
  <2>1. t = [s EXCEPT !.nesting = inner, !.event = c, !.expecting = Begin(c)]
    BY <1>4 DEF Enter
  <2>2. inner \in Seq(Containers) /\ inner # <<>> /\ c \in JsonEvents
    <3>1. inner \in Seq(Containers) /\ Len(inner) = Len(s.nesting) + 1 /\ Len(s.nesting) \in Nat
      BY <1>1, <1>4, AppendProperties, LenProperties
    <3>2. Len(inner) # 0
      BY <3>1
    <3> QED
      BY <1>4, <3>1, <3>2, EventsAre
  <2>3. Begin(c) \in {"key", "value"}
    BY Zenon DEF Begin
  <2> HIDE DEF inner
  <2>4. t \in ScanSet /\ t.nesting = inner /\ t.event = c
    BY <2>1, <2>2, <2>3 DEF ScanSet
  <2> QED
    BY <1>4, <2>2, <2>4 DEF Rounds, t, inner
<1>5. CASE /\ lexeme.kind \in Closers /\ t = Leave(s, lexeme.kind) /\ t # Invalid(s)
           /\ s.nesting # <<>> \/ s.expecting # "value"
  <2> DEFINE c == lexeme.kind
             outer == Front(s.nesting)
             status == IF Len(s.nesting) = 1 THEN "done" ELSE "more"
  <2>1. t = [s EXCEPT !.nesting = outer, !.event = c, !.expecting = "comma", !.status = status]
    BY <1>5 DEF Leave
  <2>2. s.nesting # <<>> /\ c \in JsonEvents
    BY <1>5, EventsAre
  <2>3. outer \in Seq(Containers) /\ (status = "more" => outer # <<>>)
    <3> DEFINE nesting == s.nesting
    <3>1. nesting \in Seq(Containers) /\ nesting # <<>>
      BY <1>1, <2>2
    <3> HIDE DEF nesting
    <3>2. /\ Front(nesting) \in Seq(Containers) /\ Len(Front(nesting)) = Len(nesting) - 1
          /\ Len(nesting) \in Nat
      BY <3>1, FrontProperties, LenProperties
    <3>3. status = "more" => Len(Front(nesting)) # 0
      BY <3>2 DEF nesting
    <3>4. status = "more" => Front(nesting) # <<>>
      <4> DEFINE front == Front(nesting)
      <4>1. status = "more" => Len(front) # 0
        BY <3>3
      <4> HIDE DEF front, status
      <4>2. status = "more" => front # <<>>
        BY <4>1
      <4> QED
        BY <4>2 DEF front
    <3> HIDE DEF status
    <3> QED
      BY <3>2, <3>4 DEF nesting
  <2>4. status \in {"done", "more"}
    OBVIOUS
  <2> HIDE DEF outer, status
  <2>5. t \in ScanSet /\ t.nesting = outer /\ t.event = c /\ t.status = status
    BY <1>1, <2>1, <2>2, <2>3, <2>4 DEF ScanSet
  <2> QED
    BY <1>5, <2>2, <2>3, <2>5 DEF Rounds, t, outer
<1>6. CASE lexeme.kind \in Scalars /\ t = Value(s, lexeme.kind)
  <2> DEFINE status == IF s.nesting = <<>> THEN "done" ELSE "more"
  <2>1. lexeme.kind \in JsonEvents
    BY <1>6, EventsAre
  <2>2. t = [s EXCEPT !.event = lexeme.kind, !.expecting = "comma", !.status = status]
    BY <1>6 DEF Value
  <2>3. status \in {"done", "more"} /\ (status = "more" => s.nesting # <<>>)
    OBVIOUS
  <2> HIDE DEF status
  <2>4. t \in ScanSet /\ t.nesting = s.nesting /\ t.event = lexeme.kind /\ t.status = status
    BY <1>1, <2>1, <2>2, <2>3 DEF ScanSet
  <2> QED
    BY <1>6, <2>3, <2>4 DEF Rounds, t
<1>7. CASE \E c \in {"key"} \cup Separators, e \in {"key", "value", "colon"} :
             t = Pass(s, c, e) /\ s.expecting # "value"
  <2>1. PICK c \in {"key"} \cup Separators, e \in {"key", "value", "colon"} :
          t = Pass(s, c, e) /\ s.expecting # "value"
    BY <1>7
  <2>2. c \in JsonEvents
    BY EventsAre
  <2>3. t = [s EXCEPT !.event = c, !.expecting = e]
    BY <2>1 DEF Pass
  <2>4. t \in ScanSet /\ t.nesting = s.nesting /\ t.event = c
    BY <1>1, <2>2, <2>3 DEF ScanSet
  <2> QED
    BY <2>1, <2>4 DEF Rounds, t
<1> QED
  BY <1>2, <1>3, <1>4, <1>5, <1>6, <1>7

LEMMA CallbackCases ==
  ASSUME NEW s, NEW event, NEW lexeme, NEW r \in Callback(s, event, lexeme)
  PROVE  /\ event \in Containers => r \in OpenContainer(s, event)
         /\ event \in Closers => r \in CloseContainer(s)
         /\ event = "key" => r \in SetKey(s, lexeme.v)
         /\ event \in Scalars => r \in AddScalar(s, lexeme)
         /\ event \in Separators => r = s
BY EventsApart DEF Callback

LEMMA CallbackIsInv ==
  ASSUME NEW s \in CallbackState, NEW scan \in ScanSet,
         CallbackInv(s, scan.nesting), s.d.end = "no", s.d.stack = <<>> => s.d.root = 0,
         NEW lexeme \in Lexemes, NEW t \in ScanSet, Rounds(scan, t, lexeme), t.status # "error",
         NEW r \in Callback(s, t.event, lexeme)
  PROVE  r \in CallbackState /\ CallbackInv(r, t.nesting)
<1> DEFINE nesting == scan.nesting
<1>1. nesting \in Seq(Containers)
  BY DEF ScanSet
<1>2. CASE t.event \in Containers /\ t.nesting = Append(nesting, t.event)
  <2>1. r \in OpenContainer(s, t.event)
    BY <1>2, CallbackCases
  <2> QED
    BY <1>1, <1>2, <2>1, OpenContainerInv
<1>3. CASE t.event \in Closers /\ nesting # <<>> /\ t.nesting = Front(nesting)
  <2>1. r \in CloseContainer(s)
    BY <1>3, CallbackCases
  <2> QED
    BY <1>1, <1>3, <2>1, CloseContainerInv
<1>4. CASE t.event \in Scalars /\ t.event = lexeme.kind /\ t.nesting = nesting
  <2>1. r \in AddScalar(s, lexeme)
    BY <1>4, CallbackCases
  <2>2. lexeme.kind \in Scalars /\ lexeme.v \in Nat
    BY <1>4, LexemeType
  <2> QED
    BY <1>1, <1>4, <2>1, <2>2, AddScalarInv
<1>5. CASE t.event = "key" /\ t.nesting = nesting
  <2>1. r \in SetKey(s, lexeme.v) /\ lexeme.v \in Nat
    BY <1>5, CallbackCases, LexemeType
  <2> QED
    BY <1>5, <2>1, SetKeyInv
<1>6. CASE t.event \in Separators /\ t.nesting = nesting
  BY <1>6, CallbackCases
<1> QED
  BY <1>2, <1>3, <1>4, <1>5, <1>6 DEF Rounds


-----------------------------------------------------------------------------
(* The actions.                                                            *)
LEMMA InvState ==
  ASSUME JsonInv
  PROVE  /\ State \in CallbackState
         /\ State.node = node /\ State.d = d /\ State.failed = failed
         /\ phase = "parsing" => CallbackInv(State, sc.nesting)
<1>1. /\ State \in CallbackState
      /\ State.node = node /\ State.d = d /\ State.failed = failed
  BY DEF JsonInv, JsonType, State, CallbackState
<1> QED
  BY <1>1 DEF JsonInv, CallbackInv

(* What the invariant says of the trees.                                   *)
Trees == failed \cap {"set", "push"} = {} => Forest(node, Roots(d.root, loose)) /\ d.root \notin loose

LEMMA InvTrees ==
  ASSUME JsonInv
  PROVE  /\ node \in Seq(NodeSet) /\ Ordered(node) /\ d \in ParseData /\ d.root \in Nat
         /\ phase # "crashed" => Trees
<1>1. /\ node \in Seq(NodeSet) /\ Ordered(node) /\ d \in ParseData /\ d.root \in Nat
  BY DEF JsonInv, JsonType, ParseData
<1>2. ASSUME phase # "crashed", failed \cap {"set", "push"} = {}
      PROVE  Forest(node, Roots(d.root, loose)) /\ d.root \notin loose
  <2>1. Forest(node, Roots(d.root, loose) \cup {}) /\ d.root \notin loose
    BY <1>2 DEF JsonInv, ForestInv, State
  <2>2. Roots(d.root, loose) \cup {} = Roots(d.root, loose)
    OBVIOUS
  <2> QED
    BY <2>1, <2>2
<1> QED
  BY <1>1, <1>2 DEF Trees

LEMMA TreesInv ==
  ASSUME JsonInv, sc' \in ScanSet, d' \in ParseData, d'.end = d.end,
         phase # "crashed", phase' \notin {"parsing", "crashed"},
         node' \in Seq(NodeSet), Ordered(node'), failed' \in SUBSET JsonPurposes, Trees'
  PROVE  JsonInv'
<1>1. JsonType'
  BY DEF JsonType
<1>2. d'.end # "crash"
  BY DEF JsonInv
<1>3. ForestInv(State, {}, loose)'
  <2>1. Roots(d'.root, loose') \cup {} = Roots(d'.root, loose')
    OBVIOUS
  <2> QED
    BY <2>1 DEF ForestInv, State, Trees
<1> QED
  BY <1>1, <1>2, <1>3 DEF JsonInv

LEMMA InitInv == JInit => JsonInv
<1> SUFFICES ASSUME JInit PROVE JsonInv
  OBVIOUS
<1>1. /\ node = <<>> /\ sc = Start /\ failed = {} /\ loose = {} /\ phase = "parsing"
      /\ d.root = 0 /\ d.stack = <<>> /\ d.end = "no"
  BY DEF JInit
<1>2. <<>> \in Seq(NodeSet) /\ <<>> \in Seq(Nat) /\ <<>> \in Seq(Containers)
  OBVIOUS
<1>3. JsonType
  <2>1. d \in ParseData
    BY DEF JInit, ParseData, None, JsonEnds
  <2>2. sc \in ScanSet
    BY <1>1, <1>2, EventsAre DEF ScanSet, Start
  <2> QED
    BY <1>1, <1>2, <2>1, <2>2 DEF JsonType
<1>4. Ordered(node) /\ Alive(node) = {}
  BY <1>1 DEF Ordered, Alive
<1>5. ScanInv
  BY <1>1 DEF ScanInv, Start
<1>6. StackInv(State, sc.nesting)
  <2>1. State.d.stack = <<>> /\ sc.nesting = <<>>
    BY <1>1 DEF State, Start
  <2> QED
    BY <2>1 DEF StackInv
<1>7. ForestInv(State, {}, loose)
  <2>1. State.node = <<>> /\ State.d.root = 0
    BY <1>1 DEF State
  <2>2. Roots(0, {}) \cup {} = {}
    BY DEF Roots
  <2>3. Forest(node, {})
    BY <1>1, <1>4 DEF Forest
  <2> QED
    BY <1>1, <2>1, <2>2, <2>3 DEF ForestInv
<1> QED
  BY <1>1, <1>3, <1>4, <1>5, <1>6, <1>7 DEF JsonInv

(* A text that is not JSON: the root is freed.                             *)
LEMMA RejectedInv ==
  ASSUME JsonInv, phase = "parsing", Rejected, sc' \in ScanSet, UNCHANGED loose
  PROVE  JsonInv'
<1>1. /\ node \in Seq(NodeSet) /\ Ordered(node) /\ d \in ParseData /\ d.root \in Nat /\ Trees
  BY InvTrees
<1>2. /\ node' = IF d.root = 0 THEN node ELSE Release(node, d.root)
      /\ d' = [d EXCEPT !.root = 0] /\ phase' = "returned" /\ failed' = failed
  BY DEF Rejected, GiveUp
<1>3. d' \in ParseData /\ d'.end = d.end /\ d'.root = 0
  BY <1>1, <1>2 DEF ParseData
<1>4. node' \in Seq(NodeSet) /\ Ordered(node')
  BY <1>1, <1>2, ReleaseType DEF Release
<1>5. failed \in SUBSET JsonPurposes
  BY DEF JsonInv, JsonType
<1>6. ASSUME failed \cap {"set", "push"} = {}
      PROVE  Forest(node', Roots(0, loose)) /\ 0 \notin loose
  <2>1. Forest(node, Roots(d.root, loose)) /\ d.root \notin loose
    BY <1>1, <1>6 DEF Trees
  <2>2. 0 \notin loose
    BY <1>1, <2>1, NodeType DEF Forest, Alive, Roots
  <2>3. CASE d.root = 0
    BY <1>2, <2>1, <2>2, <2>3
  <2>4. CASE d.root # 0
    <3>1. d.root \in Roots(d.root, loose) /\ Roots(d.root, loose) \ {d.root} = Roots(0, loose)
      BY <2>1, <2>4 DEF Roots
    <3>2. Forest(Release(node, d.root), Roots(d.root, loose) \ {d.root})
      BY <1>1, <2>1, <3>1, ReleaseOfRoot
    <3> QED
      BY <1>2, <2>2, <2>4, <3>1, <3>2
  <2> QED
    BY <2>3, <2>4
<1>7. Trees'
  BY <1>2, <1>3, <1>6 DEF Trees
<1> QED
  BY <1>2, <1>3, <1>4, <1>5, <1>7, TreesInv

LEMMA StepInv ==
  ASSUME JsonInv, NEW lexeme \in Lexemes, Step(lexeme)
  PROVE  JsonInv'
<1>1. /\ phase = "parsing" /\ sc' = Scan(sc, lexeme) /\ loose' = loose
      /\ sc \in ScanSet /\ ScanInv /\ d.end = "no" /\ (d.stack = <<>> => d.root = 0)
  BY DEF Step, JsonInv, JsonType
<1>2. /\ sc' \in ScanSet /\ Rounds(sc, sc', lexeme)
      /\ sc'.status = "more" => sc'.nesting # <<>>
  <2>1. sc.status = "more" /\ (sc.nesting = <<>> => sc.expecting = "value")
    BY <1>1 DEF ScanInv
  <2> QED
    BY <1>1, <2>1, ScanStep
<1>3. CASE sc'.status = "error"
  BY <1>1, <1>2, <1>3, RejectedInv DEF Step
<1>4. CASE sc'.status # "error"
  <2>1. PICK r \in Callback(State, sc'.event, lexeme) :
          /\ node' = r.node /\ d' = r.d /\ failed' = r.failed
          /\ phase' = IF r.d.end = "crash" THEN "crashed"
                      ELSE IF r.d.end = "stop" \/ sc'.status = "done"
                      THEN "returned" ELSE "parsing"
    BY <1>4 DEF Step
  <2>2. /\ State \in CallbackState /\ State.d = d /\ CallbackInv(State, sc.nesting)
    BY <1>1, InvState
  <2>3. r \in CallbackState /\ CallbackInv(r, sc'.nesting)
    BY <1>1, <1>2, <1>4, <2>2, CallbackIsInv
  <2>4. State' = r
    BY <2>1, <2>3 DEF State, CallbackState
  <2>5. JsonType'
    BY <1>2, <2>1, <2>3, StateFields DEF JsonType
  <2>6. Ordered(node')
    BY <2>1, <2>3 DEF CallbackInv
  <2>7. ForestInv(State', {}, loose')
    BY <1>1, <2>3, <2>4 DEF CallbackInv
  <2>8. phase' # "crashed" => d'.end # "crash"
    BY <2>1
  <2>9. ASSUME phase' = "parsing"
        PROVE  /\ sc'.status = "more" /\ d'.end = "no" /\ sc'.nesting # <<>>
               /\ StackInv(State', sc'.nesting) /\ d'.stack # <<>>
    <3>1. sc'.status # "done" /\ r.d.end # "crash" /\ r.d.end # "stop"
      BY <2>1, <2>9
    <3>2. sc'.status \in {"more", "done", "error"} /\ r.d.end \in JsonEnds
          /\ sc'.nesting \in Seq(Containers)
      BY <1>2, <2>3, StateFields DEF ScanSet, ParseData
    <3>3. sc'.status = "more" /\ r.d.end = "no" /\ sc'.nesting # <<>>
      BY <1>2, <1>4, <3>1, <3>2 DEF JsonEnds
    <3>4. StackInv(r, sc'.nesting)
      BY <2>3, <3>3 DEF CallbackInv
    <3>5. Len(sc'.nesting) # 0 /\ Len(r.d.stack) = Len(sc'.nesting)
      BY <3>2, <3>3, <3>4, EmptySeq DEF StackInv
    <3>6. r.d.stack # <<>>
      BY <3>5
    <3> QED
      BY <2>1, <2>4, <3>3, <3>4, <3>6
  <2> QED
    BY <2>5, <2>6, <2>7, <2>8, <2>9 DEF JsonInv, ScanInv
<1> QED
  BY <1>3, <1>4

LEMMA EndOfTextInv ==
  ASSUME JsonInv, EndOfText
  PROVE  JsonInv'
<1>1. phase = "parsing" /\ sc' = Invalid(sc) /\ loose' = loose /\ sc \in ScanSet
  BY DEF EndOfText, JsonInv, JsonType
<1>2. "none" \in JsonEvents
  BY EventsAre
<1>3. sc' \in ScanSet
  BY <1>1, <1>2 DEF Invalid, ScanSet
<1> QED
  BY <1>1, <1>3, RejectedInv DEF EndOfText


-----------------------------------------------------------------------------
(* The client's edits.                                                     *)
LEMMA EditsAre ==
  ASSUME JsonInv, NEW p, Edits(p)
  PROVE  /\ phase = "returned" /\ phase' = "returned" /\ d' = d /\ sc' = sc /\ sc \in ScanSet
         /\ d \in ParseData /\ failed \in SUBSET JsonPurposes
         /\ node \in Seq(NodeSet) /\ Ordered(node) /\ Trees
         /\ p \in DOMAIN node /\ p \in Nat /\ node[p].kids \in Seq(KidSet)
         /\ KidNumbers(node[p].kids) \subseteq p + 1 .. Len(node)
         /\ Len(node[p].kids) \in Nat /\ d.root # 0
         /\ failed \cap {"set", "push"} = {} =>
              p \in Alive(node) /\ Roots(d.root, loose) = loose \cup {d.root}
<1>1. /\ phase = "returned" /\ phase' = "returned" /\ d' = d /\ sc' = sc /\ p \in DOMAIN node
      /\ d.root # 0 /\ p \in Below(node, d.root)
  BY DEF Edits
<1>2. node \in Seq(NodeSet) /\ Ordered(node) /\ d \in ParseData /\ Trees
  BY <1>1, InvTrees
<1>3. sc \in ScanSet /\ failed \in SUBSET JsonPurposes
  BY DEF JsonInv, JsonType
<1>4. ASSUME failed \cap {"set", "push"} = {} PROVE p \in Alive(node)
  <2>1. Forest(node, Roots(d.root, loose))
    BY <1>2, <1>4 DEF Trees
  <2>2. d.root \in Alive(node)
    BY <1>1, <2>1 DEF Forest, Roots
  <2> QED
    BY <1>1, <1>2, <2>1, <2>2, BelowIsAlive
<1>5. KidNumbers(node[p].kids) \subseteq p + 1 .. Len(node)
  BY <1>1, <1>2 DEF Ordered, KidNumbers
<1>6. Roots(d.root, loose) = loose \cup {d.root}
  BY <1>1 DEF Roots
<1>7. p \in Nat /\ node[p].kids \in Seq(KidSet) /\ Len(node[p].kids) \in Nat
  BY <1>1, <1>2, NodeType
<1> QED
  BY <1>1, <1>2, <1>3, <1>4, <1>5, <1>6, <1>7

LEMMA EditsInv ==
  ASSUME JsonInv, NEW p, Edits(p),
         node' \in Seq(NodeSet), Ordered(node'), failed' \in SUBSET JsonPurposes,
         failed' \cap {"set", "push"} = {} =>
           Forest(node', loose' \cup {d.root}) /\ d.root \notin loose'
  PROVE  JsonInv'
<1>1. /\ phase = "returned" /\ phase' = "returned" /\ d' = d /\ sc' = sc /\ sc \in ScanSet
      /\ d \in ParseData /\ d.root # 0
  BY EditsAre
<1>2. Roots(d.root, loose') = loose' \cup {d.root}
  BY <1>1 DEF Roots
<1>3. Trees'
  BY <1>1, <1>2 DEF Trees
<1> QED
  BY <1>1, <1>3, TreesInv

LEMMA NewLeafIs ==
  ASSUME JsonInv, NEW p, Edits(p)
  PROVE  /\ NewLeaf \in Seq(NodeSet) /\ Ordered(NewLeaf) /\ p \in DOMAIN NewLeaf
         /\ NewLeaf[p] = node[p]
         /\ Len(NewLeaf) \in p + 1 .. Len(NewLeaf) /\ Len(NewLeaf) \in Nat
         /\ Fresh(NewLeaf, Len(NewLeaf))
         /\ failed \cap {"set", "push"} = {} =>
              /\ Forest(NewLeaf, loose \cup {d.root} \cup {Len(NewLeaf)})
              /\ p \in Alive(NewLeaf) /\ Len(NewLeaf) \notin loose \cup {d.root}
              /\ d.root \notin loose
<1> DEFINE leaf == Node("number", 1)
           n == Len(node) + 1
<1>1. /\ node \in Seq(NodeSet) /\ Ordered(node) /\ p \in DOMAIN node /\ p \in Nat /\ Trees
      /\ failed \cap {"set", "push"} = {} =>
           p \in Alive(node) /\ Roots(d.root, loose) = loose \cup {d.root}
  BY EditsAre
<1>2. leaf \in NodeSet /\ leaf.kids = <<>> /\ leaf.freed = 0
  BY DEF Node, NodeSet, JsonKinds, Scalars
<1> HIDE DEF leaf
<1>3. NewNode(node, NewLeaf, leaf, n)
  <2>1. NewNode(node, Append(node, leaf), leaf, Len(node) + 1)
    BY <1>1, <1>2, MadeNode
  <2> QED
    BY <2>1 DEF NewLeaf, leaf
<1> HIDE DEF n
<1>4. /\ NewLeaf \in Seq(NodeSet) /\ Ordered(NewLeaf)
      /\ n = Len(NewLeaf) /\ n \in Nat /\ n # 0 /\ n \notin DOMAIN node
      /\ DOMAIN NewLeaf = DOMAIN node \cup {n}
      /\ \A k \in DOMAIN node : k < n /\ NewLeaf[k] = node[k]
      /\ Fresh(NewLeaf, n)
      /\ Alive(NewLeaf) = Alive(node) \cup {n} /\ Alive(node) \subseteq DOMAIN node
      /\ \A R : Forest(node, R) => Forest(NewLeaf, R \cup {n})
  BY <1>3 DEF NewNode
<1>5. n \in p + 1 .. n
  BY <1>1, <1>4
<1>6. ASSUME failed \cap {"set", "push"} = {}
      PROVE  /\ Forest(NewLeaf, loose \cup {d.root} \cup {n})
             /\ p \in Alive(NewLeaf) /\ n \notin loose \cup {d.root}
             /\ d.root \notin loose
  <2>1. Forest(node, loose \cup {d.root}) /\ d.root \notin loose
    BY <1>1, <1>6 DEF Trees
  <2>2. loose \cup {d.root} \subseteq DOMAIN node
    BY <1>4, <2>1 DEF Forest
  <2> QED
    BY <1>1, <1>4, <1>6, <2>1, <2>2
<1> QED
  BY <1>1, <1>4, <1>5, <1>6

LEMMA SetMemberInv ==
  ASSUME JsonInv, NEW p, NEW key \in Strings \ {0}, SetMember(p, key)
  PROVE  JsonInv'
<1> DEFINE n == Len(NewLeaf)
<1>1. Edits(p) /\ loose' = loose
  BY DEF SetMember
<1>2. /\ NewLeaf \in Seq(NodeSet) /\ Ordered(NewLeaf) /\ p \in DOMAIN NewLeaf
      /\ n \in p + 1 .. Len(NewLeaf) /\ Fresh(NewLeaf, n)
      /\ failed \cap {"set", "push"} = {} =>
           /\ Forest(NewLeaf, loose \cup {d.root} \cup {n})
           /\ p \in Alive(NewLeaf) /\ n \notin loose \cup {d.root}
           /\ d.root \notin loose
      /\ failed \in SUBSET JsonPurposes
  BY <1>1, NewLeafIs, EditsAre
<1>3. key \in Int
  BY MJsonAssumption
<1> HIDE DEF n
<1>4. CASE node' = MapSet(NewLeaf, p, key, n) /\ failed' = failed
  <2>1. /\ Gets(NewLeaf, node', p, n)
        /\ \A R : Forest(NewLeaf, R) /\ n \in R /\ p \in Alive(NewLeaf)
                    => Forest(node', R \ {n})
    BY <1>2, <1>3, <1>4, MapSetGets
  <2>2. node' \in Seq(NodeSet) /\ Ordered(node')
    BY <2>1 DEF Gets
  <2>3. ASSUME failed \cap {"set", "push"} = {}
        PROVE  Forest(node', loose \cup {d.root}) /\ d.root \notin loose
    <3>1. (loose \cup {d.root} \cup {n}) \ {n} = loose \cup {d.root}
      BY <1>2, <2>3
    <3>2. Forest(node', (loose \cup {d.root} \cup {n}) \ {n})
      BY <1>2, <2>1, <2>3
    <3> QED
      BY <1>2, <2>3, <3>1, <3>2
  <2> QED
    BY <1>1, <1>2, <1>4, <2>2, <2>3, EditsInv
<1>5. CASE node' = NewLeaf /\ failed' = failed \cup {"set"}
  <2>1. failed' \in SUBSET JsonPurposes
    BY <1>2, <1>5 DEF JsonPurposes
  <2> QED
    BY <1>1, <1>2, <1>5, <2>1, EditsInv
<1> QED
  BY <1>4, <1>5 DEF SetMember, n

LEMMA RemoveMemberInv ==
  ASSUME JsonInv, NEW p, NEW key, RemoveMember(p, key)
  PROVE  JsonInv'
<1> DEFINE kids == node[p].kids
           R == loose \cup {d.root}
<1>1. Edits(p) /\ loose' = loose /\ failed' = failed
  BY DEF RemoveMember
<1>2. PICK i \in DOMAIN kids :
        node' = [Release(node, kids[i].n) EXCEPT ![p].kids = RemoveAt(@, i)]
  BY DEF RemoveMember
<1>3. /\ node \in Seq(NodeSet) /\ Ordered(node) /\ p \in DOMAIN node
      /\ kids \in Seq(KidSet) /\ KidNumbers(kids) \subseteq p + 1 .. Len(node)
      /\ Trees /\ failed \in SUBSET JsonPurposes
      /\ failed \cap {"set", "push"} = {} => p \in Alive(node) /\ Roots(d.root, loose) = R
  BY <1>1, EditsAre
<1> DEFINE x == kids[i].n
           left == RemoveAt(kids, i)
           less == Release(node, x)
<1>4. /\ left \in Seq(KidSet) /\ KidNumbers(left) \subseteq KidNumbers(kids)
      /\ Distinct(kids) => Distinct(left) /\ KidNumbers(left) = KidNumbers(kids) \ {x}
  <2> HIDE DEF kids
  <2> QED
    BY <1>3, KidsRemove
<1>5. /\ less \in Seq(NodeSet) /\ Len(less) = Len(node) /\ DOMAIN less = DOMAIN node
      /\ Ordered(less) /\ less[p].kids = kids
  BY <1>3, ReleaseType DEF Release
<1>6. node' = WithKids(less, p, left)
  BY <1>2, <1>3, <1>5 DEF WithKids
<1> HIDE DEF left, less
<1>7. node' \in Seq(NodeSet) /\ Ordered(node')
  <2>1. KidNumbers(left) \subseteq p + 1 .. Len(less) /\ p \in DOMAIN less
    BY <1>3, <1>4, <1>5
  <2> QED
    BY <1>4, <1>5, <1>6, <2>1, KidsChanged
<1>8. ASSUME failed \cap {"set", "push"} = {}
      PROVE  Forest(node', R) /\ d.root \notin loose
  <2>1. Forest(node, R) /\ d.root \notin loose /\ p \in Alive(node)
    BY <1>3, <1>8 DEF Trees
  <2> HIDE DEF R
  <2>2. Distinct(kids) /\ KidNumbers(kids) \subseteq Alive(node) \ R
    BY <1>3, <2>1, ForestKids
  <2>3. /\ Distinct(left) /\ KidNumbers(left) = KidNumbers(kids) \ {x}
        /\ KidNumbers(left) \subseteq (p + 1 .. Len(node)) \ {x}
        /\ KidNumbers(left) \subseteq R \cup KidNumbers(kids)
        /\ KidNumbers(kids) \subseteq KidNumbers(left) \cup {x}
    BY <1>3, <1>4, <2>2
  <2>4. Forest(node', R \ KidNumbers(left))
    BY <1>3, <1>4, <1>6, <2>1, <2>3, KidReleased DEF less
  <2>5. R \ KidNumbers(left) = R
    BY <2>2, <2>3
  <2> QED
    BY <2>1, <2>4, <2>5
<1> QED
  BY <1>1, <1>3, <1>7, <1>8, EditsInv


(* A container's kids are released with what is below them.                *)
LEMMA KidsReleased ==
  ASSUME NEW nodes \in Seq(NodeSet), Ordered(nodes), NEW R, Forest(nodes, R),
         NEW p \in Alive(nodes), NEW more, more = WithKids(nodes, p, <<>>)
  PROVE  Forest(ReleaseAll(more, Below(nodes, p) \ {p}), R)
<1> DEFINE B == Below(nodes, p)
           D == B \ {p}
           K == KidNumbers(nodes[p].kids)
<1>1. p \in DOMAIN nodes /\ Alive(nodes) \subseteq DOMAIN nodes /\ p \in Nat
  BY NodeType DEF Alive
<1>2. /\ B \subseteq Alive(nodes) /\ p \in B /\ Closed(nodes, B)
      /\ \A m \in B : m >= p
      /\ \A m \in B : m = p \/ \E q \in B : m \in KidNumbers(nodes[q].kids)
  BY <1>1, BelowIs, BelowIsAlive, BelowIsAbove, BelowIsHeld
<1>3. Distinct(nodes[p].kids) /\ K \subseteq Alive(nodes) \ R
  BY ForestKids
<1>4. /\ more \in Seq(NodeSet) /\ Rehung(nodes, more, p) /\ more[p].kids = <<>>
      /\ Ordered(more)
  <2>1. <<>> \in Seq(KidSet) /\ KidNumbers(<<>>) \subseteq p + 1 .. Len(nodes)
    BY DEF KidNumbers
  <2> QED
    BY <1>1, <2>1, KidsChanged
<1> HIDE DEF B, K
<1>5. Forest(more, R \cup K)
  <2>1. KidNumbers(<<>>) = {} /\ Distinct(<<>>)
    BY DEF KidNumbers, Distinct
  <2>2. Forest(more, (R \cup K) \ KidNumbers(more[p].kids))
    BY <1>4, <2>1, ForestRehangs DEF K
  <2> QED
    BY <1>4, <2>1, <2>2
<1>6. D \subseteq Alive(more) /\ \A q \in D : more[q].kids = nodes[q].kids /\ q \in DOMAIN nodes
  BY <1>1, <1>2, <1>4 DEF Rehung, Alive
<1>7. Closed(more, D)
  <2> SUFFICES ASSUME NEW q \in D, NEW i \in DOMAIN nodes[q].kids
               PROVE  nodes[q].kids[i].n \in B /\ nodes[q].kids[i].n # p
    BY <1>6 DEF Closed
  <2>1. nodes[q].kids[i].n \in B
    BY <1>2 DEF Closed
  <2>2. nodes[q].kids[i].n \in q + 1 .. Len(nodes) /\ q >= p /\ q \in Nat
    BY <1>2, <1>6, NodeType DEF Ordered
  <2> QED
    BY <1>1, <2>1, <2>2
<1>8. ASSUME NEW m \in D
      PROVE  m \notin R /\ (m \in R \cup K \/ \E q \in D : m \in KidNumbers(more[q].kids))
  <2>1. PICK q \in B : m \in KidNumbers(nodes[q].kids)
    BY <1>2
  <2>2. m \notin R
    BY <1>2, <2>1, ForestKids
  <2> QED
    BY <1>6, <2>1, <2>2 DEF K
<1>9. Forest(ReleaseAll(more, D), (R \cup K) \ D)
  BY <1>4, <1>5, <1>6, <1>7, <1>8, ForestReleases
<1>10. K \subseteq D
  <2>1. \A i \in DOMAIN nodes[p].kids : nodes[p].kids[i].n \in B
    BY <1>2 DEF Closed
  <2>2. \A i \in DOMAIN nodes[p].kids : nodes[p].kids[i].n \in p + 1 .. Len(nodes)
    BY <1>1 DEF Ordered
  <2> QED
    BY <1>1, <2>1, <2>2 DEF K, KidNumbers
<1>11. (R \cup K) \ D = R
  BY <1>8, <1>10
<1> QED
  BY <1>9, <1>11 DEF B

LEMMA RemoveAllMembersInv ==
  ASSUME JsonInv, NEW p, RemoveAllMembers(p)
  PROVE  JsonInv'
<1> DEFINE R == loose \cup {d.root}
           D == Below(node, p) \ {p}
           less == ReleaseAll(node, D)
<1>1. /\ Edits(p) /\ loose' = loose /\ failed' = failed
      /\ node' = [less EXCEPT ![p].kids = <<>>]
  BY DEF RemoveAllMembers
<1>2. /\ node \in Seq(NodeSet) /\ Ordered(node) /\ p \in DOMAIN node
      /\ Trees /\ failed \in SUBSET JsonPurposes
      /\ failed \cap {"set", "push"} = {} => p \in Alive(node) /\ Roots(d.root, loose) = R
  BY <1>1, EditsAre
<1>3. less \in Seq(NodeSet) /\ Len(less) = Len(node) /\ DOMAIN less = DOMAIN node /\ Ordered(less)
  BY <1>2, ReleaseType
<1>4. node' = WithKids(less, p, <<>>)
  BY <1>1 DEF WithKids
<1>5. node' \in Seq(NodeSet) /\ Ordered(node')
  <2>1. <<>> \in Seq(KidSet) /\ KidNumbers(<<>>) \subseteq p + 1 .. Len(less)
    BY DEF KidNumbers
  <2> HIDE DEF less
  <2> QED
    BY <1>2, <1>3, <1>4, <2>1, KidsChanged
<1>6. ASSUME failed \cap {"set", "push"} = {}
      PROVE  Forest(node', R) /\ d.root \notin loose
  <2>1. Forest(node, R) /\ d.root \notin loose /\ p \in Alive(node)
    BY <1>2, <1>6 DEF Trees
  <2> DEFINE more == WithKids(node, p, <<>>)
  <2>2. WithKids(less, p, <<>>) = ReleaseAll(more, D)
    <3>1. p \notin D
      OBVIOUS
    <3> HIDE DEF D
    <3> QED
      BY <1>2, <3>1, ReleaseCommutes
  <2> HIDE DEF more, R
  <2>3. Forest(ReleaseAll(more, D), R)
    BY <1>2, <2>1, KidsReleased DEF more
  <2> QED
    BY <1>4, <2>1, <2>2, <2>3
<1> QED
  BY <1>1, <1>2, <1>5, <1>6, EditsInv

LEMMA InsertItemInv ==
  ASSUME JsonInv, NEW p, NEW i, InsertItem(p, i)
  PROVE  JsonInv'
<1> DEFINE n == Len(NewLeaf)
           k == i + 1
<1>1. Edits(p) /\ loose' = loose /\ i \in 0 .. Len(node[p].kids)
  BY DEF InsertItem
<1>2. /\ NewLeaf \in Seq(NodeSet) /\ Ordered(NewLeaf) /\ p \in DOMAIN NewLeaf
      /\ NewLeaf[p] = node[p]
      /\ n \in p + 1 .. Len(NewLeaf) /\ Fresh(NewLeaf, n)
      /\ failed \cap {"set", "push"} = {} =>
           /\ Forest(NewLeaf, loose \cup {d.root} \cup {n})
           /\ p \in Alive(NewLeaf) /\ n \notin loose \cup {d.root}
           /\ d.root \notin loose
      /\ failed \in SUBSET JsonPurposes /\ Len(node[p].kids) \in Nat
  BY <1>1, NewLeafIs, EditsAre
<1>3. k \in 1 .. Len(NewLeaf[p].kids) + 1 /\ 0 \in Int
  BY <1>1, <1>2
<1>e. ASSUME failed \cap {"set", "push"} = {}
      PROVE  (loose \cup {d.root} \cup {n}) \ {n} = loose \cup {d.root}
  BY <1>2, <1>e
<1>4. CASE /\ node' = [NewLeaf EXCEPT ![p].kids = InsertAt(@, i + 1, Kid(0, Len(NewLeaf)))]
           /\ failed' = failed
  <2>0. node' = [NewLeaf EXCEPT ![p].kids = InsertAt(@, k, Kid(0, n))]
    BY <1>4
  <2> HIDE DEF n, k
  <2>1. /\ Gets(NewLeaf, node', p, n)
        /\ \A R : Forest(NewLeaf, R) /\ n \in R /\ p \in Alive(NewLeaf)
                    => Forest(node', R \ {n})
    BY <1>2, <1>3, <2>0, KidInserted
  <2>2. node' \in Seq(NodeSet) /\ Ordered(node')
    BY <2>1 DEF Gets
  <2>3. ASSUME failed \cap {"set", "push"} = {}
        PROVE  Forest(node', loose \cup {d.root}) /\ d.root \notin loose
    <3>1. Forest(node', (loose \cup {d.root} \cup {n}) \ {n})
      BY <1>2, <2>1, <2>3
    <3> QED
      BY <1>2, <1>e, <2>3, <3>1
  <2> QED
    BY <1>1, <1>2, <1>4, <2>2, <2>3, EditsInv
<1>5. CASE node' = Release(NewLeaf, n) /\ failed' = failed \cup {"add"}
  <2>1. failed' \in SUBSET JsonPurposes
    BY <1>2, <1>5 DEF JsonPurposes
  <2>2. node' \in Seq(NodeSet) /\ Ordered(node')
    BY <1>2, <1>5, ReleaseType DEF Release
  <2> HIDE DEF n
  <2>3. ASSUME failed \cap {"set", "push"} = {}
        PROVE  Forest(node', loose \cup {d.root}) /\ d.root \notin loose
    <3>1. Forest(Release(NewLeaf, n), (loose \cup {d.root} \cup {n}) \ {n})
      BY <1>2, <2>3, ReleaseOfRoot
    <3> QED
      BY <1>2, <1>5, <1>e, <2>3, <3>1
  <2>4. failed' \cap {"set", "push"} = {} => failed \cap {"set", "push"} = {}
    BY <1>5
  <2> QED
    BY <1>1, <2>1, <2>2, <2>3, <2>4, EditsInv
<1> QED
  BY <1>4, <1>5 DEF InsertItem

LEMMA TakeItemInv ==
  ASSUME JsonInv, NEW p, NEW i, NEW replaces, TakeItem(p, i, replaces)
  PROVE  JsonInv'
<1> DEFINE kids == node[p].kids
           R == loose \cup {d.root}
           x == kids[i].n
           n == Len(NewLeaf)
<1>1. /\ Edits(p) /\ i \in DOMAIN kids /\ loose' = loose \cup {x} /\ failed' = failed
      /\ node' = IF replaces THEN [NewLeaf EXCEPT ![p].kids[i].n = n]
                 ELSE [node EXCEPT ![p].kids = RemoveAt(@, i)]
  BY DEF TakeItem
<1>2. /\ node \in Seq(NodeSet) /\ Ordered(node) /\ p \in DOMAIN node
      /\ kids \in Seq(KidSet) /\ KidNumbers(kids) \subseteq p + 1 .. Len(node)
      /\ Trees /\ failed \in SUBSET JsonPurposes
      /\ failed \cap {"set", "push"} = {} => p \in Alive(node) /\ Roots(d.root, loose) = R
  BY <1>1, EditsAre
<1>3. x \in KidNumbers(kids)
  BY <1>1 DEF KidNumbers
<1>4. ASSUME failed \cap {"set", "push"} = {}
      PROVE  /\ Forest(node, R) /\ d.root \notin loose /\ p \in Alive(node)
             /\ Distinct(kids) /\ KidNumbers(kids) \subseteq Alive(node) \ R
             /\ d.root \notin loose'
  <2>1. Forest(node, R) /\ d.root \notin loose /\ p \in Alive(node)
    BY <1>2, <1>4 DEF Trees
  <2>2. Distinct(kids) /\ KidNumbers(kids) \subseteq Alive(node) \ R
    BY <1>2, <2>1, ForestKids
  <2> QED
    BY <1>1, <1>3, <2>1, <2>2
<1> HIDE DEF x, n
<1>5. CASE replaces
  <2> DEFINE new == WithKid(kids, i, n)
  <2>1. /\ NewLeaf \in Seq(NodeSet) /\ Ordered(NewLeaf) /\ p \in DOMAIN NewLeaf
        /\ NewLeaf[p] = node[p] /\ n \in p + 1 .. Len(NewLeaf) /\ Fresh(NewLeaf, n)
        /\ n \in Nat
        /\ failed \cap {"set", "push"} = {} =>
             /\ Forest(NewLeaf, R \cup {n}) /\ p \in Alive(NewLeaf) /\ n \notin R
    BY <1>1, NewLeafIs DEF n
  <2>2. n \notin KidNumbers(kids)
    BY <2>1 DEF Fresh
  <2>3. /\ new \in Seq(KidSet)
        /\ KidNumbers(new) \subseteq KidNumbers(kids) \cup {n}
        /\ Distinct(kids) => Distinct(new) /\ KidNumbers(new) = (KidNumbers(kids) \ {x}) \cup {n}
    <3> HIDE DEF kids
    <3> QED
      BY <1>1, <1>2, <2>1, <2>2, KidsReplace DEF x
  <2>4. node' = WithKids(NewLeaf, p, new)
    BY <1>1, <1>5, <2>1 DEF WithKids, WithKid
  <2> HIDE DEF new
  <2>5. /\ node' \in Seq(NodeSet) /\ Ordered(node') /\ Rehung(NewLeaf, node', p)
        /\ node'[p].kids = new
    <3>1. KidNumbers(NewLeaf[p].kids) \subseteq p + 1 .. Len(NewLeaf)
      BY <2>1 DEF Ordered, KidNumbers
    <3>2. KidNumbers(new) \subseteq p + 1 .. Len(NewLeaf)
      BY <2>1, <2>3, <3>1
    <3> QED
      BY <2>1, <2>3, <2>4, <3>2, KidsChanged
  <2>6. ASSUME failed \cap {"set", "push"} = {}
        PROVE  Forest(node', loose' \cup {d.root})
    <3>1. /\ Distinct(new) /\ KidNumbers(new) = (KidNumbers(kids) \ {x}) \cup {n}
          /\ Forest(NewLeaf, R \cup {n}) /\ p \in Alive(NewLeaf) /\ n \notin R
          /\ KidNumbers(kids) \cap R = {}
      BY <1>4, <2>1, <2>3, <2>6
    <3>2. KidNumbers(new) \subseteq (R \cup {n}) \cup KidNumbers(kids)
      BY <3>1
    <3>3. Forest(node', ((R \cup {n}) \cup KidNumbers(kids)) \ KidNumbers(new))
      <4> HIDE DEF R
      <4> QED
        BY <2>1, <2>5, <3>1, <3>2, ForestRehangs
    <3>4. ((R \cup {n}) \cup KidNumbers(kids)) \ KidNumbers(new) = loose' \cup {d.root}
      BY <1>1, <1>3, <2>2, <3>1
    <3> QED
      BY <3>3, <3>4
  <2> QED
    BY <1>1, <1>2, <1>4, <2>5, <2>6, EditsInv
<1>6. CASE ~replaces
  <2> DEFINE new == RemoveAt(kids, i)
  <2>1. /\ new \in Seq(KidSet) /\ KidNumbers(new) \subseteq KidNumbers(kids)
        /\ Distinct(kids) => Distinct(new) /\ KidNumbers(new) = KidNumbers(kids) \ {x}
    <3> HIDE DEF kids
    <3> QED
      BY <1>1, <1>2, KidsRemove DEF x
  <2>2. node' = WithKids(node, p, new)
    BY <1>1, <1>6 DEF WithKids
  <2> HIDE DEF new
  <2>3. /\ node' \in Seq(NodeSet) /\ Ordered(node') /\ Rehung(node, node', p)
        /\ node'[p].kids = new
    <3>1. KidNumbers(new) \subseteq p + 1 .. Len(node)
      BY <1>2, <2>1
    <3> QED
      BY <1>2, <2>1, <2>2, <3>1, KidsChanged
  <2>4. ASSUME failed \cap {"set", "push"} = {}
        PROVE  Forest(node', loose' \cup {d.root})
    <3>1. /\ Distinct(new) /\ KidNumbers(new) = KidNumbers(kids) \ {x}
          /\ Forest(node, R) /\ p \in Alive(node) /\ KidNumbers(kids) \cap R = {}
      BY <1>4, <2>1, <2>4
    <3>2. KidNumbers(new) \subseteq R \cup KidNumbers(kids)
      BY <3>1
    <3>3. Forest(node', (R \cup KidNumbers(kids)) \ KidNumbers(new))
      <4> HIDE DEF R
      <4> QED
        BY <1>2, <2>3, <3>1, <3>2, ForestRehangs
    <3>4. (R \cup KidNumbers(kids)) \ KidNumbers(new) = loose' \cup {d.root}
      BY <1>1, <1>3, <3>1
    <3> QED
      BY <3>3, <3>4
  <2> QED
    BY <1>1, <1>2, <1>4, <2>3, <2>4, EditsInv
<1> QED
  BY <1>5, <1>6

LEMMA FreeLooseInv ==
  ASSUME JsonInv, NEW n, FreeLoose(n)
  PROVE  JsonInv'
<1>1. /\ phase \in {"returned", "freed"} /\ phase' = phase /\ n \in loose
      /\ node' = Release(node, n) /\ loose' = loose \ {n}
      /\ sc' = sc /\ d' = d /\ failed' = failed
  BY DEF FreeLoose
<1>2. /\ node \in Seq(NodeSet) /\ Ordered(node) /\ d \in ParseData /\ Trees
  BY <1>1, InvTrees
<1>3. sc \in ScanSet /\ failed \in SUBSET JsonPurposes
  BY DEF JsonInv, JsonType
<1>4. node' \in Seq(NodeSet) /\ Ordered(node')
  BY <1>1, <1>2, ReleaseType DEF Release
<1>5. ASSUME failed \cap {"set", "push"} = {}
      PROVE  Forest(node', Roots(d.root, loose')) /\ d.root \notin loose'
  <2>1. Forest(node, Roots(d.root, loose)) /\ d.root \notin loose
    BY <1>2, <1>5 DEF Trees
  <2>2. n \in Roots(d.root, loose) /\ Roots(d.root, loose) \ {n} = Roots(d.root, loose')
    BY <1>1, <2>1 DEF Roots
  <2>3. Forest(Release(node, n), Roots(d.root, loose) \ {n})
    BY <1>2, <2>1, <2>2, ReleaseOfRoot
  <2> QED
    BY <1>1, <2>1, <2>2, <2>3
<1>6. Trees'
  BY <1>1, <1>5 DEF Trees
<1>7. phase # "crashed" /\ phase' \notin {"parsing", "crashed"}
  BY <1>1
<1> QED
  BY <1>1, <1>2, <1>3, <1>4, <1>6, <1>7, TreesInv

LEMMA FreeRootInv ==
  ASSUME JsonInv, FreeRoot
  PROVE  JsonInv'
<1>1. /\ phase = "returned" /\ phase' = "freed" /\ d.root # 0
      /\ node' = Release(node, d.root) /\ d' = [d EXCEPT !.root = 0]
      /\ sc' = sc /\ loose' = loose /\ failed' = failed
  BY DEF FreeRoot
<1>2. /\ node \in Seq(NodeSet) /\ Ordered(node) /\ d \in ParseData /\ Trees
  BY <1>1, InvTrees
<1>3. sc \in ScanSet /\ failed \in SUBSET JsonPurposes
  BY DEF JsonInv, JsonType
<1>4. node' \in Seq(NodeSet) /\ Ordered(node')
  BY <1>1, <1>2, ReleaseType DEF Release
<1>5. d' \in ParseData /\ d'.end = d.end /\ d'.root = 0
  BY <1>1, <1>2 DEF ParseData
<1>6. ASSUME failed \cap {"set", "push"} = {}
      PROVE  Forest(node', Roots(0, loose)) /\ 0 \notin loose
  <2>1. Forest(node, Roots(d.root, loose)) /\ d.root \notin loose
    BY <1>2, <1>6 DEF Trees
  <2>2. 0 \notin loose
    BY <1>2, <2>1, NodeType DEF Forest, Alive, Roots
  <2>3. d.root \in Roots(d.root, loose) /\ Roots(d.root, loose) \ {d.root} = Roots(0, loose)
    BY <1>1, <2>1 DEF Roots
  <2>4. Forest(Release(node, d.root), Roots(d.root, loose) \ {d.root})
    BY <1>2, <2>1, <2>3, ReleaseOfRoot
  <2> QED
    BY <1>1, <2>2, <2>3, <2>4
<1>7. Trees'
  BY <1>1, <1>5, <1>6 DEF Trees
<1> QED
  BY <1>1, <1>2, <1>3, <1>4, <1>5, <1>7, TreesInv


LEMMA NextInv == JsonInv /\ [JNext]_jvars => JsonInv'
<1> SUFFICES ASSUME JsonInv, [JNext]_jvars PROVE JsonInv'
  OBVIOUS
<1>1. CASE UNCHANGED jvars
  <2>1. State' = State /\ sc' = sc
    BY <1>1 DEF jvars, State
  <2> QED
    BY <1>1, <2>1 DEF jvars, JsonInv, JsonType, ScanInv
<1>2. ASSUME NEW lexeme \in Lexemes, Step(lexeme) PROVE JsonInv'
  BY <1>2, StepInv
<1>3. CASE EndOfText
  BY <1>3, EndOfTextInv
<1>4. ASSUME NEW p \in DOMAIN node, NEW key \in Strings \ {0}, SetMember(p, key) PROVE JsonInv'
  BY <1>4, SetMemberInv
<1>5. ASSUME NEW p \in DOMAIN node, NEW key \in Strings \ {0}, RemoveMember(p, key)
      PROVE  JsonInv'
  BY <1>5, RemoveMemberInv
<1>6. ASSUME NEW p \in DOMAIN node, RemoveAllMembers(p) PROVE JsonInv'
  BY <1>6, RemoveAllMembersInv
<1>7. ASSUME NEW p \in DOMAIN node, NEW i, InsertItem(p, i) PROVE JsonInv'
  BY <1>7, InsertItemInv
<1>8. ASSUME NEW p \in DOMAIN node, NEW i, NEW replaces, TakeItem(p, i, replaces)
      PROVE  JsonInv'
  BY <1>8, TakeItemInv
<1>9. ASSUME NEW n \in loose, FreeLoose(n) PROVE JsonInv'
  BY <1>9, FreeLooseInv
<1>10. CASE FreeRoot
  BY <1>10, FreeRootInv
<1> QED
  BY <1>1, <1>2, <1>3, <1>4, <1>5, <1>6, <1>7, <1>8, <1>9, <1>10 DEF JNext

LEMMA JsonInvariance == JSpec => []JsonInv
<1>1. JInit => JsonInv
  BY InitInv
<1>2. JsonInv /\ [JNext]_jvars => JsonInv'
  BY NextInv
<1> QED
  BY <1>1, <1>2, PTL DEF JSpec

LEMMA ForestOwnership == JsonInv => ValuesHeldOrFreedOnce
<1> SUFFICES ASSUME JsonInv, phase # "crashed", failed \cap {"set", "push"} = {},
                    NEW n \in DOMAIN node
             PROVE  IF node[n].freed = 0 THEN Cardinality(Holders(n)) = 1
                    ELSE node[n].freed = 1 /\ Holders(n) = {}
  BY DEF ValuesHeldOrFreedOnce
<1> DEFINE R == Roots(d.root, loose)
           In == {p \in DOMAIN node : node[p].freed = 0
                                      /\ \E i \in DOMAIN node[p].kids : node[p].kids[i].n = n}
<1>1. node \in Seq(NodeSet) /\ Forest(node, R) /\ d.root \notin loose
  BY InvTrees DEF Trees
<1>2. n # 0 /\ n # -1 /\ 0 \notin DOMAIN node /\ -1 \notin DOMAIN node
  BY <1>1, NodeType
<1>3. Holders(n) = In \cup (IF d.root = n THEN {0} ELSE {}) \cup (IF n \in loose THEN {-1} ELSE {})
  BY DEF Holders
<1>4. /\ \A p \in In : n \in Alive(node) \ R
      /\ \A p, q \in In : p = q
      /\ n \in Alive(node) \ R => In # {}
  BY <1>1 DEF Forest, Alive
<1>5. (d.root = n \/ n \in loose) <=> n \in R
  BY <1>2 DEF Roots
<1>6. n \in R => n \in Alive(node)
  BY <1>1 DEF Forest
<1>7. n \in Alive(node) <=> node[n].freed = 0
  BY DEF Alive
<1> HIDE DEF In, R
<1>8. CASE node[n].freed = 0
  <2>1. \E h : Holders(n) = {h}
    <3>1. CASE n \in R
      <4>1. In = {}
        BY <1>4, <3>1
      <4>2. Holders(n) = {0} \/ Holders(n) = {-1}
        BY <1>1, <1>3, <1>5, <3>1, <4>1
      <4> QED
        BY <4>2
    <3>2. CASE n \notin R
      <4>1. PICK p \in In : In = {p}
        BY <1>4, <1>7, <1>8, <3>2
      <4>2. Holders(n) = {p}
        BY <1>3, <1>5, <3>2, <4>1
      <4> QED
        BY <4>2
    <3> QED
      BY <3>1, <3>2
  <2> QED
    BY <1>8, <2>1, FS_Singleton
<1>9. CASE node[n].freed # 0
  <2>1. node[n].freed = 1
    BY <1>1, <1>9 DEF Forest
  <2>2. n \notin R /\ In = {}
    BY <1>4, <1>6, <1>7, <1>9
  <2> QED
    BY <1>3, <1>5, <1>9, <2>1, <2>2
<1> QED
  BY <1>8, <1>9

(* Every value that g_json_parse and the client's calls make is held once, *)
(* or was freed once, in every text, at every depth and after any edits,   *)
(* whatever allocations fail, but for those of json_parse_cb's stack and   *)
(* of a map's entry.                                                       *)
THEOREM JsonOwnership == JSpec => []ValuesHeldOrFreedOnce
BY JsonInvariance, ForestOwnership, PTL

(* The containers on json_parse_cb's stack are those that mjson has open,  *)
(* alive and each held by the one around it.                               *)
THEOREM JsonStack == JSpec => []StacksAgree
<1>1. JsonInv => StacksAgree
  <2> SUFFICES ASSUME JsonInv, phase = "parsing" PROVE StacksAgree
    BY DEF StacksAgree
  <2>1. /\ Len(d.stack) = Len(sc.nesting)
        /\ \A i \in DOMAIN d.stack :
             /\ d.stack[i] \in Alive(node) /\ node[d.stack[i]].kind = sc.nesting[i]
             /\ (i > 1 /\ "set" \notin failed) =>
                  d.stack[i] \in KidNumbers(node[d.stack[i - 1]].kids)
    BY DEF JsonInv, StackInv, State
  <2>2. DOMAIN d.stack = 1 .. Len(d.stack) /\ Len(d.stack) \in Nat
    <3>1. d.stack \in Seq(Nat)
      BY DEF JsonInv, JsonType, ParseData
    <3> QED
      BY <3>1, LenProperties
  <2>3. ASSUME NEW i \in DOMAIN d.stack, i > 1, "set" \notin failed
        PROVE  d.stack[i - 1] \in Holders(d.stack[i])
    <3>1. i - 1 \in DOMAIN d.stack
      BY <2>2, <2>3
    <3>2. d.stack[i - 1] \in Alive(node)
      BY <2>1, <3>1
    <3>3. d.stack[i] \in KidNumbers(node[d.stack[i - 1]].kids)
      BY <2>1, <2>3
    <3> QED
      BY <3>2, <3>3 DEF Holders, Alive, KidNumbers
  <2> QED
    BY <2>1, <2>3 DEF StacksAgree, Alive
<1> QED
  BY <1>1, JsonInvariance, PTL

-----------------------------------------------------------------------------
(***************************************************************************)
(* WireFormat.  A loop that reads a varint is a total that grows byte by   *)
(* byte, and is taken as long as each byte is valid behind the others; the *)
(* total after n bytes is the number that n digits spell, so what is taken *)
(* is a bound on a number.  What is written are the groups of the number,  *)
(* of which there is one such sequence.                                    *)
(***************************************************************************)
(***************************************************************************)
(* Powers of two.                                                          *)
(***************************************************************************)
IsPow2(f, n) == f = [k \in 0 .. n |-> IF k = 0 THEN 1 ELSE 2 * f[k - 1]]

LEMMA Pow2Parts == \A n \in Nat : \E f : IsPow2(f, n)
<1> DEFINE Q == {n \in Nat : \E f : IsPow2(f, n)}
<1>1. 0 \in Q
  <2>1. IsPow2([k \in 0 .. 0 |-> 1], 0)
    BY DEF IsPow2
  <2> QED
    BY <2>1
<1>2. ASSUME NEW n \in Nat, n \in Q PROVE n + 1 \in Q
  <2>1. PICK f : IsPow2(f, n)
    BY <1>2
  <2> DEFINE g == [k \in 0 .. n + 1 |-> IF k <= n THEN f[k] ELSE 2 * f[n]]
  <2>2. \A k \in 0 .. n : f[k] = IF k = 0 THEN 1 ELSE 2 * f[k - 1]
    BY <2>1 DEF IsPow2
  <2>3. ASSUME NEW k \in 0 .. n + 1
        PROVE  g[k] = IF k = 0 THEN 1 ELSE 2 * g[k - 1]
    <3>1. CASE k <= n
      <4>1. k \in 0 .. n /\ (k # 0 => k - 1 \in 0 .. n /\ k - 1 \in 0 .. n + 1 /\ k - 1 <= n)
        BY <3>1
      <4> QED
        BY <2>2, <4>1
    <3>2. CASE k = n + 1
      BY <3>2
    <3> QED
      BY <3>1, <3>2
  <2>4. IsPow2(g, n + 1)
    <3>1. g = [k \in 0 .. n + 1 |-> g[k]]
      OBVIOUS
    <3> HIDE DEF g
    <3> QED
      BY <2>3, <3>1 DEF IsPow2
  <2> QED
    BY <2>4
<1> HIDE DEF Q
<1>3. \A n \in Nat : n \in Q
  BY <1>1, <1>2, NaturalInduction
<1> QED
  BY <1>3 DEF Q

LEMMA Pow2Unique ==
  ASSUME NEW m \in Nat, NEW n \in Nat, NEW f, NEW g, IsPow2(f, m), IsPow2(g, n)
  PROVE  \A k \in Nat : k <= m /\ k <= n => f[k] = g[k]
<1> DEFINE Q == {k \in Nat : k <= m /\ k <= n => f[k] = g[k]}
<1>1. /\ \A k \in 0 .. m : f[k] = IF k = 0 THEN 1 ELSE 2 * f[k - 1]
      /\ \A k \in 0 .. n : g[k] = IF k = 0 THEN 1 ELSE 2 * g[k - 1]
  BY DEF IsPow2
<1>2. 0 \in Q
  BY <1>1
<1>3. ASSUME NEW k \in Nat, k \in Q PROVE k + 1 \in Q
  BY <1>1, <1>3
<1> HIDE DEF Q
<1>4. \A k \in Nat : k \in Q
  BY <1>2, <1>3, NaturalInduction
<1> QED
  BY <1>4 DEF Q

LEMMA Pow2Is == Pow2[0] = 1 /\ \A n \in Nat : Pow2[n + 1] = 2 * Pow2[n]
<1> DEFINE part(n) == CHOOSE f : IsPow2(f, n)
           pow == [n \in Nat |-> part(n)[n]]
<1>1. \A n \in Nat : IsPow2(part(n), n)
  BY Pow2Parts
<1>2. \A n \in Nat : part(n + 1)[n] = part(n)[n]
  <2> SUFFICES ASSUME NEW n \in Nat PROVE part(n + 1)[n] = part(n)[n]
    OBVIOUS
  <2>1. IsPow2(part(n), n) /\ IsPow2(part(n + 1), n + 1) /\ n + 1 \in Nat /\ n <= n /\ n <= n + 1
    BY <1>1
  <2> HIDE DEF part
  <2> QED
    BY <2>1, Pow2Unique
<1>3. \A n \in Nat : part(n + 1)[n + 1] = 2 * part(n + 1)[n]
  <2> SUFFICES ASSUME NEW n \in Nat PROVE part(n + 1)[n + 1] = 2 * part(n + 1)[n]
    OBVIOUS
  <2>1. IsPow2(part(n + 1), n + 1)
    BY <1>1
  <2> HIDE DEF part
  <2>2. n + 1 \in 0 .. n + 1 /\ n + 1 # 0 /\ (n + 1) - 1 = n
    OBVIOUS
  <2> QED
    BY <2>1, <2>2 DEF IsPow2
<1>4. part(0)[0] = 1
  <2>1. IsPow2(part(0), 0)
    BY <1>1
  <2> HIDE DEF part
  <2> QED
    BY <2>1 DEF IsPow2
<1> HIDE DEF part
<1>5. pow = [n \in Nat |-> IF n = 0 THEN 1 ELSE 2 * pow[n - 1]]
  <2>1. ASSUME NEW n \in Nat PROVE pow[n] = IF n = 0 THEN 1 ELSE 2 * pow[n - 1]
    <3>1. CASE n = 0
      BY <1>4, <3>1
    <3>2. CASE n # 0
      <4>1. n - 1 \in Nat /\ (n - 1) + 1 = n
        BY <3>2
      <4> DEFINE m == n - 1
      <4>2. pow[m + 1] = 2 * pow[m]
        BY <1>2, <1>3, <4>1
      <4> QED
        BY <3>2, <4>1, <4>2
    <3> QED
      BY <3>1, <3>2
  <2>2. pow = [n \in Nat |-> pow[n]]
    OBVIOUS
  <2> HIDE DEF pow
  <2> QED
    BY <2>1, <2>2
<1> HIDE DEF pow
<1>6. Pow2 = [n \in Nat |-> IF n = 0 THEN 1 ELSE 2 * Pow2[n - 1]]
  BY <1>5 DEF Pow2
<1>7. \A n \in Nat : Pow2[n] = IF n = 0 THEN 1 ELSE 2 * Pow2[n - 1]
  BY <1>6
<1> QED
  BY <1>7

LEMMA Pow2Type == \A n \in Nat : Pow2[n] \in Nat /\ Pow2[n] > 0
<1> DEFINE Q == {n \in Nat : Pow2[n] \in Nat /\ Pow2[n] > 0}
<1>1. 0 \in Q /\ \A n \in Nat : n \in Q => n + 1 \in Q
  BY Pow2Is
<1> HIDE DEF Q
<1>2. \A n \in Nat : n \in Q
  BY <1>1, NaturalInduction
<1> QED
  BY <1>2 DEF Q

LEMMA Pow2Sum == \A m, n \in Nat : Pow2[m + n] = Pow2[m] * Pow2[n]
<1> SUFFICES ASSUME NEW m \in Nat PROVE \A n \in Nat : Pow2[m + n] = Pow2[m] * Pow2[n]
  OBVIOUS
<1> DEFINE Q == {n \in Nat : Pow2[m + n] = Pow2[m] * Pow2[n]}
<1>1. 0 \in Q
  <2>1. Pow2[m] \in Nat
    BY Pow2Type
  <2> QED
    BY <2>1, Pow2Is
<1>2. ASSUME NEW n \in Nat, n \in Q PROVE n + 1 \in Q
  <2>1. m + n \in Nat /\ m + (n + 1) = (m + n) + 1
    OBVIOUS
  <2>2. Pow2[m + (n + 1)] = 2 * Pow2[m + n] /\ Pow2[n + 1] = 2 * Pow2[n]
    BY <2>1, Pow2Is
  <2>3. Pow2[m + n] = Pow2[m] * Pow2[n] /\ Pow2[m] \in Nat /\ Pow2[n] \in Nat
    BY <1>2, Pow2Type
  <2>4. \A a, b \in Nat : 2 * (a * b) = a * (2 * b)
    OBVIOUS
  <2> QED
    BY <2>2, <2>3, <2>4
<1> HIDE DEF Q
<1>3. \A n \in Nat : n \in Q
  BY <1>1, <1>2, NaturalInduction
<1> QED
  BY <1>3 DEF Q

LEMMA Pow2Order ==
  ASSUME NEW m \in Nat, NEW n \in Nat, m <= n
  PROVE  /\ Pow2[m] <= Pow2[n]
         /\ Pow2[n] = Pow2[m] * Pow2[n - m]
         /\ m < n => 2 * Pow2[m] <= Pow2[n]
<1>1. n - m \in Nat /\ n = m + (n - m)
  OBVIOUS
<1>2. Pow2[n] = Pow2[m] * Pow2[n - m]
  BY <1>1, Pow2Sum
<1>3. Pow2[m] \in Nat /\ Pow2[n - m] \in Nat /\ Pow2[n - m] > 0
  BY <1>1, Pow2Type
<1>4. m < n => Pow2[n - m] >= 2
  <2> SUFFICES ASSUME m < n PROVE Pow2[n - m] >= 2
    OBVIOUS
  <2> DEFINE k == n - m - 1
  <2>1. k \in Nat /\ k + 1 = n - m
    OBVIOUS
  <2>2. Pow2[k + 1] = 2 * Pow2[k] /\ Pow2[k] \in Nat /\ Pow2[k] > 0
    BY <2>1, Pow2Is, Pow2Type
  <2> QED
    BY <2>1, <2>2
<1>5. \A a, c \in Nat : /\ c > 0 => a <= a * c
                        /\ c >= 2 => 2 * a <= a * c
  OBVIOUS
<1> QED
  BY <1>2, <1>3, <1>4, <1>5

(***************************************************************************)
(* Division.                                                               *)
(***************************************************************************)
LEMMA DivisionIs ==
  ASSUME NEW a \in Int, NEW b \in Nat, b > 0
  PROVE  /\ a \div b \in Int /\ a % b \in 0 .. b - 1
         /\ a = b * (a \div b) + (a % b)
         /\ a >= 0 => a \div b \in Nat
OBVIOUS

LEMMA DivisionUnique ==
  ASSUME NEW a \in Int, NEW b \in Nat, b > 0,
         NEW q \in Int, NEW r \in 0 .. b - 1, a = b * q + r
  PROVE  a \div b = q /\ a % b = r
OBVIOUS

(* A division in two steps, and its rest.                                  *)
LEMMA DivisionTwice ==
  ASSUME NEW a \in Int, NEW b \in Nat, b > 0, NEW c \in Nat, c > 0
  PROVE  /\ a \div (b * c) = (a \div b) \div c
         /\ a % (b * c) = (a % b) + b * ((a \div b) % c)
         /\ (a % (b * c)) % b = a % b
         /\ (a % (b * c)) \div b = (a \div b) % c
<1> DEFINE q == a \div b
           r == a % b
           p == q \div c
           s == q % c
<1>1. q \in Int /\ r \in 0 .. b - 1 /\ a = b * q + r
  BY DivisionIs
<1>2. p \in Int /\ s \in 0 .. c - 1 /\ q = c * p + s
  BY <1>1, DivisionIs
<1> HIDE DEF q, r, p, s
<1>3. b * c \in Nat /\ b * c > 0
  OBVIOUS
<1>4. a = (b * c) * p + (r + b * s)
  BY <1>1, <1>2
<1>5. r + b * s \in 0 .. (b * c) - 1
  <2>1. b * s <= b * (c - 1) /\ b * s >= 0 /\ b * s \in Int
    BY <1>2
  <2>2. b * (c - 1) = b * c - b
    OBVIOUS
  <2> QED
    BY <1>1, <1>3, <2>1, <2>2
<1>6. a \div (b * c) = p /\ a % (b * c) = r + b * s
  <2> DEFINE product == b * c
             t == r + b * s
  <2>1. product \in Nat /\ product > 0 /\ a = product * p + t /\ t \in 0 .. product - 1 /\ p \in Int
    BY <1>2, <1>3, <1>4, <1>5
  <2> HIDE DEF product, t
  <2>2. a \div product = p /\ a % product = t
    BY <2>1, DivisionUnique
  <2> QED
    BY <2>2 DEF product, t
<1>7. (r + b * s) % b = r /\ (r + b * s) \div b = s
  <2>1. r + b * s = b * s + r /\ r + b * s \in Int /\ s \in Int
    BY <1>1, <1>2, <1>5
  <2> QED
    BY <1>1, <2>1, DivisionUnique
<1> QED
  BY <1>6, <1>7 DEF q, r, p, s

LEMMA DivisionOrder ==
  ASSUME NEW a \in Int, NEW b \in Nat, b > 0
  PROVE  /\ (0 <= a /\ a < b) => (a \div b = 0 /\ a % b = a)
         /\ \A c \in Int : a < b * c <=> a \div b < c
         /\ \A c \in Int : b * c <= a <=> c <= a \div b
<1> DEFINE q == a \div b
           r == a % b
<1>1. q \in Int /\ r \in 0 .. b - 1 /\ a = b * q + r
  BY DivisionIs
<1>2. (0 <= a /\ a < b) => (q = 0 /\ r = a)
  OBVIOUS
<1> HIDE DEF q, r
<1>3. ASSUME NEW c \in Int PROVE a < b * c <=> q < c
  <2>1. CASE q < c
    <3>1. b * (q + 1) <= b * c /\ b * (q + 1) = b * q + b
      BY <1>1, <2>1
    <3>2. b * c \in Int /\ b * q \in Int
      BY <1>1
    <3> QED
      BY <1>1, <2>1, <3>1, <3>2
  <2>2. CASE c <= q
    <3>1. b * c <= b * q /\ b * c \in Int /\ b * q \in Int
      BY <1>1, <2>2
    <3> QED
      BY <1>1, <2>2, <3>1
  <2> QED
    BY <1>1, <2>1, <2>2
<1>4. \A c \in Int : b * c <= a <=> c <= q
  <2> SUFFICES ASSUME NEW c \in Int PROVE b * c <= a <=> c <= q
    OBVIOUS
  <2>1. a < b * c <=> q < c
    BY <1>3
  <2>2. b * c \in Int
    OBVIOUS
  <2> QED
    BY <1>1, <2>1, <2>2
<1> QED
  BY <1>2, <1>3, <1>4 DEF q, r

(* A multiple more.                                                        *)
LEMMA DivisionShift ==
  ASSUME NEW a \in Int, NEW b \in Nat, b > 0, NEW c \in Int
  PROVE  (a + b * c) % b = a % b /\ (a + b * c) \div b = (a \div b) + c
<1> DEFINE q == a \div b
           r == a % b
<1>1. q \in Int /\ r \in 0 .. b - 1 /\ a = b * q + r
  BY DivisionIs
<1> HIDE DEF q, r
<1> DEFINE sum == a + b * c
<1>2. sum \in Int /\ sum = b * (q + c) + r /\ q + c \in Int
  BY <1>1
<1> HIDE DEF sum
<1>3. sum \div b = q + c /\ sum % b = r
  BY <1>1, <1>2, DivisionUnique
<1> QED
  BY <1>3 DEF sum, q, r

(***************************************************************************)
(* Numbers from digits.                                                    *)
(***************************************************************************)
IsLowest(f, digits, bits, n) ==
  f = [k \in 0 .. n |-> IF k = 0 THEN 0 ELSE f[k - 1] + digits[k] * Pow2[bits * (k - 1)]]
Lowest(digits, bits) == CHOOSE f : IsLowest(f, digits, bits, Len(digits))

LEMMA LowestParts ==
  ASSUME NEW digits, NEW bits
  PROVE  \A n \in Nat : \E f : IsLowest(f, digits, bits, n)
<1> DEFINE Q == {n \in Nat : \E f : IsLowest(f, digits, bits, n)}
           Term(k) == digits[k] * Pow2[bits * (k - 1)]
<1>1. 0 \in Q
  <2>1. IsLowest([k \in 0 .. 0 |-> 0], digits, bits, 0)
    BY DEF IsLowest
  <2> QED
    BY <2>1
<1>2. ASSUME NEW n \in Nat, n \in Q PROVE n + 1 \in Q
  <2>1. PICK f : IsLowest(f, digits, bits, n)
    BY <1>2
  <2> DEFINE g == [k \in 0 .. n + 1 |-> IF k <= n THEN f[k] ELSE f[n] + Term(n + 1)]
  <2>2. \A k \in 0 .. n : f[k] = IF k = 0 THEN 0 ELSE f[k - 1] + Term(k)
    BY <2>1 DEF IsLowest
  <2> HIDE DEF Term
  <2>3. ASSUME NEW k \in 0 .. n + 1
        PROVE  g[k] = IF k = 0 THEN 0 ELSE g[k - 1] + Term(k)
    <3>1. CASE k <= n
      <4>1. k \in 0 .. n /\ (k # 0 => k - 1 \in 0 .. n /\ k - 1 \in 0 .. n + 1 /\ k - 1 <= n)
        BY <3>1
      <4> QED
        BY <2>2, <4>1
    <3>2. CASE k = n + 1
      BY <3>2
    <3> QED
      BY <3>1, <3>2
  <2>4. IsLowest(g, digits, bits, n + 1)
    <3>1. g = [k \in 0 .. n + 1 |-> g[k]]
      OBVIOUS
    <3> HIDE DEF g
    <3> QED
      BY <2>3, <3>1 DEF IsLowest, Term
  <2> QED
    BY <2>4
<1> HIDE DEF Q
<1>3. \A n \in Nat : n \in Q
  BY <1>1, <1>2, NaturalInduction
<1> QED
  BY <1>3 DEF Q

LEMMA FromDigitsIs ==
  ASSUME NEW digits, Len(digits) \in Nat, NEW bits
  PROVE  /\ FromDigits(digits, bits) = Lowest(digits, bits)[Len(digits)]
         /\ Lowest(digits, bits)[0] = 0
         /\ \A n \in 0 .. Len(digits) - 1 : Lowest(digits, bits)[n + 1] =
              Lowest(digits, bits)[n] + digits[n + 1] * Pow2[bits * n]
<1> DEFINE low == Lowest(digits, bits)
<1>1. FromDigits(digits, bits) = Lowest(digits, bits)[Len(digits)]
  BY DEF FromDigits, Lowest, IsLowest
<1>2. IsLowest(low, digits, bits, Len(digits))
  BY LowestParts DEF Lowest
<1> HIDE DEF low
<1>3. \A k \in 0 .. Len(digits) :
        low[k] = IF k = 0 THEN 0 ELSE low[k - 1] + digits[k] * Pow2[bits * (k - 1)]
  BY <1>2 DEF IsLowest
<1>4. low[0] = 0
  BY <1>3
<1>5. ASSUME NEW n \in 0 .. Len(digits) - 1
      PROVE  low[n + 1] = low[n] + digits[n + 1] * Pow2[bits * n]
  <2>1. n + 1 \in 0 .. Len(digits) /\ n + 1 # 0 /\ (n + 1) - 1 = n
    OBVIOUS
  <2> QED
    BY <1>3, <2>1
<1> QED
  BY <1>1, <1>4, <1>5 DEF low

(* What the lowest n digits stand for, and what they leave of the rest.    *)
AreDigits(digits, bits) ==
  /\ Len(digits) \in Nat
  /\ \A i \in 1 .. Len(digits) : digits[i] \in 0 .. Pow2[bits] - 1

LEMMA LowestBelow ==
  ASSUME NEW bits \in Nat, NEW digits, AreDigits(digits, bits)
  PROVE  \A n \in 0 .. Len(digits) :
           Lowest(digits, bits)[n] \in 0 .. Pow2[bits * n] - 1
<1> DEFINE low == Lowest(digits, bits)
           Q == {n \in Nat : n <= Len(digits) => low[n] \in 0 .. Pow2[bits * n] - 1}
<1>0. Len(digits) \in Nat /\ \A i \in 1 .. Len(digits) : digits[i] \in 0 .. Pow2[bits] - 1
  BY DEF AreDigits
<1>1. /\ low[0] = 0
      /\ \A n \in 0 .. Len(digits) - 1 : low[n + 1] = low[n] + digits[n + 1] * Pow2[bits * n]
  BY <1>0, FromDigitsIs
<1> HIDE DEF low
<1>2. 0 \in Q
  <2>1. bits * 0 = 0
    OBVIOUS
  <2>2. Pow2[bits * 0] = 1
    BY <2>1, Pow2Is
  <2>3. low[0] \in 0 .. Pow2[bits * 0] - 1
    BY <1>1, <2>2
  <2> QED
    BY <2>3
<1>3. ASSUME NEW n \in Nat, n \in Q PROVE n + 1 \in Q
  <2> SUFFICES ASSUME n + 1 <= Len(digits)
               PROVE  low[n + 1] \in 0 .. Pow2[bits * (n + 1)] - 1
    OBVIOUS
  <2> DEFINE p == Pow2[bits * n]
             r == Pow2[bits]
             digit == digits[n + 1]
  <2>1. low[n] \in 0 .. p - 1 /\ low[n + 1] = low[n] + digit * p
    BY <1>0, <1>1, <1>3
  <2>2. digit \in 0 .. r - 1
    BY <1>0
  <2>3. p \in Nat /\ r \in Nat /\ Pow2[bits * (n + 1)] = p * r
    <3>1. bits * n \in Nat /\ bits * (n + 1) = bits * n + bits
      OBVIOUS
    <3> QED
      BY <3>1, Pow2Type, Pow2Sum
  <2> HIDE DEF p, r, digit
  <2>4. \A a, x, y, z \in Int : 0 <= a /\ a <= x - 1 /\ 0 <= z /\ z <= y - 1 /\ x >= 0
          => 0 <= a + z * x /\ a + z * x <= x * y - 1
    <3> SUFFICES ASSUME NEW a \in Int, NEW x \in Int, NEW y \in Int, NEW z \in Int,
                        0 <= a, a <= x - 1, 0 <= z, z <= y - 1, x >= 0
                 PROVE  0 <= a + z * x /\ a + z * x <= x * y - 1
      OBVIOUS
    <3>1. 0 <= z * x /\ z * x <= (y - 1) * x /\ z * x \in Int
      OBVIOUS
    <3>2. (y - 1) * x = x * y - x /\ x * y \in Int
      OBVIOUS
    <3> QED
      BY <3>1, <3>2
  <2>5. 0 <= low[n] + digit * p /\ low[n] + digit * p <= p * r - 1
    <3>1. /\ low[n] \in Int /\ p \in Int /\ r \in Int /\ digit \in Int
          /\ 0 <= low[n] /\ low[n] <= p - 1 /\ 0 <= digit /\ digit <= r - 1 /\ p >= 0
      BY <2>1, <2>2, <2>3
    <3> HIDE DEF low
    <3> QED
      BY ONLY <2>4, <3>1
  <2>6. low[n] + digit * p \in Int /\ p * r \in Int
    BY <2>1, <2>2, <2>3
  <2> QED
    BY <2>1, <2>3, <2>5, <2>6
<1> HIDE DEF Q
<1>4. \A n \in Nat : n \in Q
  BY <1>2, <1>3, NaturalInduction
<1> QED
  BY <1>0, <1>4 DEF Q, low

LEMMA LowestOfDigit ==
  ASSUME NEW bits \in Nat, NEW v \in Nat, NEW digits, Len(digits) \in Nat,
         \A i \in 1 .. Len(digits) : digits[i] = Digit(v, bits, i)
  PROVE  \A n \in 0 .. Len(digits) : Lowest(digits, bits)[n] = v % Pow2[bits * n]
<1> DEFINE low == Lowest(digits, bits)
           Q == {n \in Nat : n <= Len(digits) => low[n] = v % Pow2[bits * n]}
<1>1. /\ low[0] = 0
      /\ \A n \in 0 .. Len(digits) - 1 : low[n + 1] = low[n] + digits[n + 1] * Pow2[bits * n]
  BY FromDigitsIs
<1> HIDE DEF low
<1>2. 0 \in Q
  <2>1. bits * 0 = 0
    OBVIOUS
  <2>2. Pow2[bits * 0] = 1
    BY <2>1, Pow2Is
  <2>3. v % 1 = 0
    OBVIOUS
  <2>4. low[0] = v % Pow2[bits * 0]
    BY <1>1, <2>2, <2>3
  <2> QED
    BY <2>4
<1>3. ASSUME NEW n \in Nat, n \in Q PROVE n + 1 \in Q
  <2> SUFFICES ASSUME n + 1 <= Len(digits)
               PROVE  low[n + 1] = v % Pow2[bits * (n + 1)]
    OBVIOUS
  <2> DEFINE p == Pow2[bits * n]
             r == Pow2[bits]
  <2>1. low[n] = v % p /\ low[n + 1] = low[n] + digits[n + 1] * p
    BY <1>1, <1>3
  <2>2. digits[n + 1] = (v \div p) % r
    <3>1. n + 1 \in 1 .. Len(digits) /\ (n + 1) - 1 = n
      OBVIOUS
    <3> QED
      BY <3>1 DEF Digit
  <2>3. p \in Nat /\ p > 0 /\ r \in Nat /\ r > 0 /\ Pow2[bits * (n + 1)] = p * r
    <3>1. bits * n \in Nat /\ bits * (n + 1) = bits * n + bits
      OBVIOUS
    <3> QED
      BY <3>1, Pow2Type, Pow2Sum
  <2> HIDE DEF p, r
  <2>4. v % (p * r) = (v % p) + p * ((v \div p) % r)
    BY <2>3, DivisionTwice
  <2>5. v \div p \in Int /\ (v \div p) % r \in Int
    BY <2>3, DivisionIs
  <2>6. p * ((v \div p) % r) = ((v \div p) % r) * p
    BY <2>3, <2>5
  <2> QED
    BY <2>1, <2>2, <2>3, <2>4, <2>6
<1> HIDE DEF Q
<1>4. \A n \in Nat : n \in Q
  BY <1>2, <1>3, NaturalInduction
<1> QED
  BY <1>4 DEF Q, low

LEMMA DigitType ==
  ASSUME NEW v \in Nat, NEW bits \in Nat, NEW i \in Nat, i >= 1
  PROVE  Digit(v, bits, i) \in 0 .. Pow2[bits] - 1
<1>1. bits * (i - 1) \in Nat
  <2>1. i - 1 \in Nat
    OBVIOUS
  <2> QED
    BY <2>1
<1>2. /\ Pow2[bits * (i - 1)] \in Nat /\ Pow2[bits * (i - 1)] > 0
      /\ Pow2[bits] \in Nat /\ Pow2[bits] > 0
  BY <1>1, Pow2Type
<1> DEFINE q == v \div Pow2[bits * (i - 1)]
<1>3. q \in Int
  BY <1>2, DivisionIs
<1> HIDE DEF q
<1>4. q % Pow2[bits] \in 0 .. Pow2[bits] - 1
  BY <1>2, <1>3, DivisionIs
<1> QED
  BY <1>4 DEF Digit, q

(* No digit counts for more than the number.                               *)
LEMMA LowestGrows ==
  ASSUME NEW bits \in Nat, NEW digits, AreDigits(digits, bits)
  PROVE  \A n \in 0 .. Len(digits) - 1 :
           /\ digits[n + 1] * Pow2[bits * n] <= FromDigits(digits, bits)
           /\ Lowest(digits, bits)[n] <= FromDigits(digits, bits)
           /\ FromDigits(digits, bits) \in Nat
<1> DEFINE low == Lowest(digits, bits)
           Q == {k \in Nat : \A n \in 0 .. Len(digits) : n + k <= Len(digits) => low[n] <= low[n + k]}
<1>0. Len(digits) \in Nat /\ \A i \in 1 .. Len(digits) : digits[i] \in 0 .. Pow2[bits] - 1
  BY DEF AreDigits
<1>1. /\ FromDigits(digits, bits) = low[Len(digits)]
      /\ \A n \in 0 .. Len(digits) - 1 : low[n + 1] = low[n] + digits[n + 1] * Pow2[bits * n]
  BY <1>0, FromDigitsIs
<1>2. \A n \in 0 .. Len(digits) : low[n] \in Nat
  BY LowestBelow
<1> HIDE DEF low
<1>3. \A n \in Nat : bits * n \in Nat /\ Pow2[bits * n] \in Nat
  BY Pow2Type
<1>4. ASSUME NEW n \in 0 .. Len(digits) - 1
      PROVE  /\ low[n] <= low[n + 1] /\ digits[n + 1] * Pow2[bits * n] <= low[n + 1]
             /\ low[n + 1] \in Nat /\ digits[n + 1] * Pow2[bits * n] \in Nat
  <2> DEFINE digit == digits[n + 1]
             p == Pow2[bits * n]
  <2>1. digit \in Nat /\ p \in Nat
    BY <1>0, <1>3, Pow2Type
  <2>2. low[n + 1] = low[n] + digit * p /\ low[n] \in Nat /\ low[n + 1] \in Nat
    BY <1>0, <1>1, <1>2
  <2> HIDE DEF digit, p
  <2>3. digit * p \in Nat
    BY <2>1
  <2> QED
    BY <2>2, <2>3 DEF digit, p
<1>5. 0 \in Q
  BY <1>0, <1>2
<1>6. ASSUME NEW k \in Nat, k \in Q PROVE k + 1 \in Q
  <2> SUFFICES ASSUME NEW n \in 0 .. Len(digits), n + (k + 1) <= Len(digits)
               PROVE  low[n] <= low[n + (k + 1)]
    OBVIOUS
  <2>1. n + k <= Len(digits) /\ n + k \in 0 .. Len(digits) - 1 /\ n + (k + 1) = (n + k) + 1
    BY <1>0
  <2>2. low[n] <= low[n + k]
    BY <1>6, <2>1
  <2>3. low[n + k] <= low[(n + k) + 1]
    BY <1>4, <2>1
  <2>4. low[n] \in Nat /\ low[n + k] \in Nat /\ low[(n + k) + 1] \in Nat
    BY <1>0, <1>2, <2>1
  <2> QED
    BY <2>1, <2>2, <2>3, <2>4
<1> HIDE DEF Q
<1>7. \A k \in Nat : k \in Q
  BY <1>5, <1>6, NaturalInduction
<1>8. \A n \in 0 .. Len(digits) : low[n] <= low[Len(digits)]
  <2> SUFFICES ASSUME NEW n \in 0 .. Len(digits) PROVE low[n] <= low[Len(digits)]
    OBVIOUS
  <2>1. Len(digits) - n \in Nat /\ n + (Len(digits) - n) = Len(digits)
        /\ Len(digits) <= Len(digits)
    BY <1>0
  <2>2. Len(digits) - n \in Q
    BY <1>7, <2>1
  <2> QED
    BY <2>1, <2>2 DEF Q
<1> SUFFICES ASSUME NEW n \in 0 .. Len(digits) - 1
             PROVE  /\ digits[n + 1] * Pow2[bits * n] <= FromDigits(digits, bits)
                    /\ low[n] <= FromDigits(digits, bits)
                    /\ FromDigits(digits, bits) \in Nat
  BY DEF low
<1>9. n \in 0 .. Len(digits) /\ n + 1 \in 0 .. Len(digits) /\ Len(digits) \in 0 .. Len(digits)
  BY <1>0
<1> QED
  BY <1>1, <1>2, <1>4, <1>8, <1>9

(***************************************************************************)
(* The loop that reads a varint.                                           *)
(***************************************************************************)
IsAfter(f, kind, b, s, n) ==
  f = [k \in 0 .. n |-> IF k = 0 THEN [ok |-> TRUE, s |-> s, v |-> 0, more |-> TRUE]
                        ELSE Round(kind, b, GroupBits * (k - 1), f[k - 1])]
After(kind, b, s) == CHOOSE f : IsAfter(f, kind, b, s, s.left + 1)

LEMMA AfterParts ==
  ASSUME NEW kind, NEW b, NEW s
  PROVE  \A n \in Nat : \E f : IsAfter(f, kind, b, s, n)
<1> DEFINE Q == {n \in Nat : \E f : IsAfter(f, kind, b, s, n)}
           start == [ok |-> TRUE, s |-> s, v |-> 0, more |-> TRUE]
           Next(k, r) == Round(kind, b, GroupBits * (k - 1), r)
<1>1. 0 \in Q
  <2>1. IsAfter([k \in 0 .. 0 |-> start], kind, b, s, 0)
    BY DEF IsAfter
  <2> QED
    BY <2>1
<1>2. ASSUME NEW n \in Nat, n \in Q PROVE n + 1 \in Q
  <2>1. PICK f : IsAfter(f, kind, b, s, n)
    BY <1>2
  <2> DEFINE new == Next(n + 1, f[n])
             g == [k \in 0 .. n + 1 |-> IF k <= n THEN f[k] ELSE new]
  <2>2. \A k \in 0 .. n : f[k] = IF k = 0 THEN start ELSE Next(k, f[k - 1])
    BY <2>1 DEF IsAfter
  <2> HIDE DEF Next, start
  <2>3. ASSUME NEW k \in 0 .. n + 1
        PROVE  g[k] = IF k = 0 THEN start ELSE Next(k, g[k - 1])
    <3>1. CASE k <= n
      <4>1. k \in 0 .. n /\ (k # 0 => k - 1 \in 0 .. n /\ k - 1 \in 0 .. n + 1 /\ k - 1 <= n)
        BY <3>1
      <4> QED
        BY <2>2, <4>1
    <3>2. CASE k = n + 1
      <4>1. k - 1 = n /\ g[k] = new /\ g[n] = f[n] /\ k # 0
        BY <3>2
      <4> QED
        BY <3>2, <4>1
    <3> QED
      BY <3>1, <3>2
  <2>4. IsAfter(g, kind, b, s, n + 1)
    <3>1. g = [k \in 0 .. n + 1 |-> g[k]]
      OBVIOUS
    <3> HIDE DEF g
    <3> QED
      BY <2>3, <3>1 DEF IsAfter, Next, start
  <2> QED
    BY <2>4
<1> HIDE DEF Q
<1>3. \A n \in Nat : n \in Q
  BY <1>1, <1>2, NaturalInduction
<1> QED
  BY <1>3 DEF Q

GoesRound(kind, b, s, after, r) ==
  /\ DecodeVarint(kind, b, s) = [ok |-> r.ok, s |-> r.s, v |-> r.v]
  /\ after[0] = [ok |-> TRUE, s |-> s, v |-> 0, more |-> TRUE]
  /\ \A n \in 0 .. s.left : after[n + 1] = Round(kind, b, GroupBits * n, after[n])

LEMMA DecodeVarintIs ==
  ASSUME NEW kind, NEW b, NEW s, s.left \in Nat
  PROVE  GoesRound(kind, b, s, After(kind, b, s), After(kind, b, s)[s.left + 1])
<1> DEFINE after == After(kind, b, s)
           r == after[s.left + 1]
<1>1. DecodeVarint(kind, b, s) = [ok |-> r.ok, s |-> r.s, v |-> r.v]
  BY DEF DecodeVarint, After, IsAfter
<1>2. IsAfter(after, kind, b, s, s.left + 1)
  <2>1. s.left + 1 \in Nat
    OBVIOUS
  <2> QED
    BY <2>1, AfterParts DEF After
<1> HIDE DEF after
<1>3. \A k \in 0 .. s.left + 1 :
        after[k] = IF k = 0 THEN [ok |-> TRUE, s |-> s, v |-> 0, more |-> TRUE]
                   ELSE Round(kind, b, GroupBits * (k - 1), after[k - 1])
  BY <1>2 DEF IsAfter
<1>4. after[0] = [ok |-> TRUE, s |-> s, v |-> 0, more |-> TRUE]
  <2>1. 0 \in 0 .. s.left + 1
    OBVIOUS
  <2> QED
    BY ONLY <1>3, <2>1
<1>5. ASSUME NEW n \in 0 .. s.left
      PROVE  after[n + 1] = Round(kind, b, GroupBits * n, after[n])
  <2>1. n + 1 \in 0 .. s.left + 1 /\ n + 1 # 0 /\ (n + 1) - 1 = n
    OBVIOUS
  <2> QED
    BY <1>3, <2>1
<1> QED
  BY <1>1, <1>4, <1>5 DEF after, GoesRound

(* The stream after n bytes of b.                                          *)
Behind(b, n) == [at |-> n, left |-> Len(b) - n, callback |-> FALSE, over |-> FALSE]

LEMMA ReadByteReads ==
  ASSUME NEW b, NEW s, NEW r, r = Read(b, s, 1)
  PROVE  ReadByte(b, s) = IF r.ok THEN Ok(r.s, r.v[1]) ELSE r
BY DEF ReadByte, Then

LEMMA ReadByteWithin ==
  ASSUME NEW b, Len(b) \in Nat, DOMAIN b = 1 .. Len(b), NEW n \in Nat, n < Len(b)
  PROVE  ReadByte(b, Behind(b, n)) = Ok(Behind(b, n + 1), b[n + 1])
<1> DEFINE t == Behind(b, n)
           u == Behind(b, n + 1)
           bytes == Slice(b, n, 1)
<1>0. t.at = n /\ t.left = Len(b) - n /\ t.callback = FALSE /\ t.over = FALSE
  BY DEF Behind
<1>1. ~(t.left < 1) /\ ~(t.at + 1 > Len(b))
  BY <1>0
<1>2. u = [at |-> t.at + 1, left |-> t.left - 1, callback |-> t.callback,
           over |-> t.over \/ t.at + 1 > Len(b)]
  <2>1. Len(b) - (n + 1) = (Len(b) - n) - 1
    OBVIOUS
  <2>2. (t.over \/ t.at + 1 > Len(b)) = FALSE
    BY <1>0, <1>1
  <2> HIDE DEF t
  <2> QED
    BY <1>0, <2>1, <2>2 DEF Behind
<1>3. bytes[1] = b[n + 1]
  BY DEF Slice
<1>4. Read(b, t, 1) = Ok(u, Slice(b, t.at, 1))
  <2> HIDE DEF t, u
  <2> QED
    BY <1>0, <1>1, <1>2 DEF Read
<1>5. Read(b, t, 1) = Ok(u, bytes)
  BY <1>0, <1>4
<1> HIDE DEF t, u, bytes
<1> DEFINE r == Ok(u, bytes)
<1>6. r.ok = TRUE /\ r.s = u /\ r.v = bytes
  BY DEF Ok
<1> HIDE DEF r
<1>7. ReadByte(b, t) = IF r.ok THEN Ok(r.s, r.v[1]) ELSE r
  BY <1>5, ReadByteReads DEF r
<1>8. ReadByte(b, t) = Ok(u, b[n + 1])
  BY ONLY <1>3, <1>6, <1>7
<1> QED
  BY ONLY <1>8 DEF t, u

LEMMA ReadByteAtEnd ==
  ASSUME NEW b, Len(b) \in Nat
  PROVE  ReadByte(b, Behind(b, Len(b))) = Fail(Behind(b, Len(b)))
<1> DEFINE t == Behind(b, Len(b))
<1>1. t.left < 1
  BY DEF Behind
<1> HIDE DEF t
<1>2. Read(b, t, 1) = Fail(t)
  BY <1>1 DEF Read
<1> DEFINE r == Fail(t)
<1>3. r.ok = FALSE
  BY DEF Fail
<1> HIDE DEF r
<1>4. ReadByte(b, t) = IF r.ok THEN Ok(r.s, r.v[1]) ELSE r
  BY <1>2, ReadByteReads DEF r
<1>5. ReadByte(b, t) = r
  BY ONLY <1>3, <1>4
<1> QED
  BY ONLY <1>5 DEF r, t

LEMMA RoundRefuses ==
  ASSUME NEW kind, NEW b, NEW bitpos, NEW r, NEW t, NEW x,
         r.more = TRUE, ReadByte(b, r.s) = Ok(t, x), ~Valid(kind, bitpos, r.v, x)
  PROVE  Round(kind, b, bitpos, r) = [ok |-> FALSE, s |-> t, v |-> 0, more |-> FALSE]
<1> DEFINE read == Ok(t, x)
<1>1. read.ok = TRUE /\ read.s = t /\ read.v = x
  BY DEF Ok
<1> HIDE DEF read
<1>2. ReadByte(b, r.s) = read
  BY DEF read
<1> QED
  BY <1>1, <1>2 DEF Round

LEMMA RoundFails ==
  ASSUME NEW kind, NEW b, NEW bitpos, NEW r, NEW t,
         r.more = TRUE, ReadByte(b, r.s) = Fail(t)
  PROVE  Round(kind, b, bitpos, r) = [ok |-> FALSE, s |-> t, v |-> 0, more |-> FALSE]
<1> DEFINE read == Fail(t)
<1>1. read.ok = FALSE /\ read.s = t
  BY DEF Fail
<1> HIDE DEF read
<1>2. ReadByte(b, r.s) = read
  BY DEF read
<1> QED
  BY <1>1, <1>2 DEF Round

(* A varint, or what has come of it: only its last byte may end it.        *)
Coming(b) == b \in Seq(Bytes) /\ \A i \in 1 .. Len(b) - 1 : More(b[i])

LEMMA ComingIs ==
  ASSUME NEW b, Coming(b)
  PROVE  /\ Len(b) \in Nat /\ DOMAIN b = 1 .. Len(b)
         /\ \A i \in 1 .. Len(b) : b[i] \in Bytes
         /\ \A i \in 1 .. Len(b) - 1 : More(b[i])
         /\ Complete(b) <=> Len(b) # 0 /\ ~More(b[Len(b)])
<1>1. b \in Seq(Bytes) /\ \A i \in 1 .. Len(b) - 1 : More(b[i])
  BY DEF Coming
<1>2. Len(b) \in Nat /\ DOMAIN b = 1 .. Len(b)
  BY <1>1, LenProperties
<1>3. \A i \in 1 .. Len(b) : b[i] \in Bytes
  BY <1>1, ElementOfSeq
<1>4. b = <<>> <=> Len(b) = 0
  BY <1>1, EmptySeq
<1> QED
  BY <1>1, <1>2, <1>3, <1>4 DEF Complete, Last

(* The numbers a loop has after n bytes, and whether it took all of them.  *)
Totals(f, kind, b) ==
  /\ f[0] = 0
  /\ \A n \in 0 .. Len(b) - 1 : f[n + 1] = Summed(kind, GroupBits * n, f[n], b[n + 1])
Taken(f, kind, b, n) ==
  \A m \in 0 .. n - 1 : Valid(kind, GroupBits * m, f[m], b[m + 1])

Went(b, v, more, n) == [ok |-> TRUE, s |-> Behind(b, n), v |-> v, more |-> more]
Gave(b, m) == [ok |-> FALSE, s |-> Behind(b, m), v |-> 0, more |-> FALSE]

Traced(f, kind, b, n, r) ==
  /\ Taken(f, kind, b, n) => \E more \in BOOLEAN :
       r = Went(b, f[n], more, n) /\ more = IF n = 0 THEN TRUE ELSE More(b[n])
  /\ ~Taken(f, kind, b, n) => \E m \in 0 .. Len(b) : r = Gave(b, m)

LEMMA VarintRounds ==
  ASSUME NEW kind, NEW b, Coming(b), NEW f, Totals(f, kind, b), NEW n \in 0 .. Len(b)
  PROVE  Traced(f, kind, b, n, After(kind, b, FromBuffer(b))[n])
<1> DEFINE s == FromBuffer(b)
           after == After(kind, b, s)
           Held(k) == \E more \in BOOLEAN :
                        after[k] = Went(b, f[k], more, k)
                        /\ more = IF k = 0 THEN TRUE ELSE More(b[k])
           Lost(k) == \E m \in 0 .. Len(b) : after[k] = Gave(b, m)
           Q == {k \in Nat : k <= Len(b) => /\ Taken(f, kind, b, k) => Held(k)
                                            /\ ~Taken(f, kind, b, k) => Lost(k)}
<1>0. /\ Len(b) \in Nat /\ DOMAIN b = 1 .. Len(b)
      /\ \A i \in 1 .. Len(b) : b[i] \in Bytes
      /\ \A i \in 1 .. Len(b) - 1 : More(b[i])
  BY ComingIs
<1>1. s = Behind(b, 0) /\ s.left = Len(b)
  <2>1. Len(b) - 0 = Len(b)
    BY <1>0
  <2> QED
    BY <2>1 DEF FromBuffer, Behind
<1>2. /\ after[0] = [ok |-> TRUE, s |-> s, v |-> 0, more |-> TRUE]
      /\ \A k \in 0 .. Len(b) : after[k + 1] = Round(kind, b, GroupBits * k, after[k])
  BY <1>0, <1>1, DecodeVarintIs DEF GoesRound
<1> HIDE DEF after
<1>3. Taken(f, kind, b, 0) /\ Held(0)
  <2>1. Taken(f, kind, b, 0)
    BY DEF Taken
  <2>2. after[0] = Went(b, f[0], TRUE, 0)
    BY <1>1, <1>2 DEF Went, Totals
  <2> QED
    BY <2>1, <2>2
<1> HIDE DEF Held, Lost
<1>4. 0 \in Q
  BY <1>3
<1>5. ASSUME NEW k \in Nat, k \in Q PROVE k + 1 \in Q
  <2> SUFFICES ASSUME k + 1 <= Len(b)
               PROVE  /\ Taken(f, kind, b, k + 1) => Held(k + 1)
                      /\ ~Taken(f, kind, b, k + 1) => Lost(k + 1)
    OBVIOUS
  <2> DEFINE bitpos == GroupBits * k
             x == b[k + 1]
  <2>1. Taken(f, kind, b, k + 1) <=> Taken(f, kind, b, k) /\ Valid(kind, bitpos, f[k], x)
    <3>1. \A m : m \in 0 .. (k + 1) - 1 <=> m \in 0 .. k - 1 \/ m = k
      OBVIOUS
    <3> QED
      BY <3>1 DEF Taken
  <2>2. after[k + 1] = Round(kind, b, bitpos, after[k])
    BY <1>0, <1>2
  <2>3. f[k + 1] = Summed(kind, bitpos, f[k], x)
    BY <1>0 DEF Totals
  <2>4. CASE Taken(f, kind, b, k)
    <3>1. k <= Len(b)
      BY <1>0
    <3>2. Held(k)
      BY <1>5, <2>4, <3>1
    <3>3. after[k] = Went(b, f[k], TRUE, k)
      <4>1. k # 0 => k \in 1 .. Len(b) - 1
        BY <1>0
      <4>2. k # 0 => More(b[k])
        BY <1>0, <4>1
      <4> QED
        BY ONLY <3>2, <4>2 DEF Held
    <3> DEFINE r == after[k]
               t == Behind(b, k + 1)
    <3>4. r.more = TRUE /\ r.s = Behind(b, k) /\ r.v = f[k]
      BY <3>3 DEF Went
    <3>5. ReadByte(b, r.s) = Ok(t, x)
      <4>1. k < Len(b)
        BY <1>0
      <4>2. ReadByte(b, Behind(b, k)) = Ok(Behind(b, k + 1), b[k + 1])
        BY <1>0, <4>1, ReadByteWithin
      <4> QED
        BY <3>4, <4>2
    <3> HIDE DEF r, t, bitpos, x
    <3>6. CASE Valid(kind, bitpos, f[k], x)
      <4> DEFINE v == Summed(kind, bitpos, r.v, x)
                 more == More(x)
      <4> HIDE DEF v, more
      <4>1. Round(kind, b, bitpos, r) = [ok |-> TRUE, s |-> t, v |-> v, more |-> more]
        <5> DEFINE read == Ok(t, x)
        <5>1. Valid(kind, bitpos, r.v, x)
          BY <3>4, <3>6
        <5>2. read.ok = TRUE /\ read.s = t /\ read.v = x
          BY DEF Ok
        <5> HIDE DEF read
        <5>3. ReadByte(b, r.s) = read
          BY <3>5 DEF read
        <5> QED
          BY ONLY <3>4, <5>1, <5>2, <5>3 DEF Round, v, more
      <4>2. after[k + 1] = Went(b, f[k + 1], More(x), k + 1)
        BY <2>2, <2>3, <3>4, <4>1 DEF Went, r, t, v, more
      <4>3. More(x) \in BOOLEAN
        BY DEF More
      <4>4. Held(k + 1)
        <5>1. k + 1 # 0
          OBVIOUS
        <5> QED
          BY <4>2, <4>3, <5>1 DEF x, Held
      <4> QED
        BY <2>1, <2>4, <3>6, <4>4 DEF bitpos, x
    <3>7. CASE ~Valid(kind, bitpos, f[k], x)
      <4>1. Round(kind, b, bitpos, r) = [ok |-> FALSE, s |-> t, v |-> 0, more |-> FALSE]
        <5>1. ~Valid(kind, bitpos, r.v, x)
          BY <3>4, <3>7
        <5> QED
          BY ONLY <3>4, <3>5, <5>1, RoundRefuses
      <4>2. after[k + 1] = Gave(b, k + 1)
        BY <2>2, <4>1 DEF Gave, r, t
      <4>3. k + 1 \in 0 .. Len(b)
        BY <1>0
      <4>4. Lost(k + 1)
        BY <4>2, <4>3 DEF Lost
      <4> QED
        BY <2>1, <3>7, <4>4 DEF bitpos, x
    <3> QED
      BY <3>6, <3>7
  <2>5. CASE ~Taken(f, kind, b, k)
    <3>1. k <= Len(b)
      BY <1>0
    <3>2. Lost(k)
      BY <1>5, <2>5, <3>1
    <3>3. PICK m \in 0 .. Len(b) : after[k] = Gave(b, m)
      BY <3>2 DEF Lost
    <3>4. after[k].more = FALSE
      BY <3>3 DEF Gave
    <3>5. after[k + 1] = after[k]
      BY <2>2, <3>4 DEF Round
    <3>6. Lost(k + 1)
      BY <3>3, <3>5 DEF Lost
    <3> QED
      BY <2>1, <2>5, <3>6
  <2> QED
    BY <2>4, <2>5
<1> HIDE DEF Q
<1>6. \A k \in Nat : k \in Q
  BY <1>4, <1>5, NaturalInduction
<1>7. /\ Taken(f, kind, b, n) => Held(n)
      /\ ~Taken(f, kind, b, n) => Lost(n)
  BY <1>0, <1>6 DEF Q
<1> QED
  BY <1>7 DEF after, Held, Lost, Traced

LEMMA VarintDecodes ==
  ASSUME NEW kind, NEW b, Coming(b), NEW f, Totals(f, kind, b)
  PROVE  LET r == DecodeVarint(kind, b, FromBuffer(b))
         IN  /\ r.ok \in BOOLEAN
             /\ r.ok <=> Complete(b) /\ Taken(f, kind, b, Len(b))
             /\ r.ok => Rereads(r, b, f[Len(b)])
             /\ r.s.over = FALSE
<1> DEFINE s == FromBuffer(b)
           after == After(kind, b, s)
           n == Len(b)
           last == after[n + 1]
           r == DecodeVarint(kind, b, s)
<1>1. n \in Nat /\ (Complete(b) <=> n # 0 /\ ~More(b[n]))
  BY ComingIs
<1>2. s.left = n
  BY DEF FromBuffer
<1>3. /\ r = [ok |-> last.ok, s |-> last.s, v |-> last.v]
      /\ last = Round(kind, b, GroupBits * n, after[n])
  <2> HIDE DEF s
  <2>1. s.left \in Nat
    BY <1>1, <1>2
  <2> DEFINE t == after[s.left + 1]
  <2>0. GoesRound(kind, b, s, after, t)
    BY ONLY <2>1, DecodeVarintIs
  <2> HIDE DEF after
  <2>2. /\ DecodeVarint(kind, b, s) = [ok |-> t.ok, s |-> t.s, v |-> t.v]
        /\ \A m \in 0 .. s.left : after[m + 1] = Round(kind, b, GroupBits * m, after[m])
    BY ONLY <2>0 DEF GoesRound
  <2>3. s.left \in 0 .. s.left
    BY <2>1
  <2>4. after[s.left + 1] = Round(kind, b, GroupBits * s.left, after[s.left])
    BY ONLY <2>2, <2>3
  <2> QED
    BY <1>2, <2>2, <2>4
<1>4. /\ Taken(f, kind, b, n) => \E more \in BOOLEAN :
           after[n] = Went(b, f[n], more, n) /\ more = IF n = 0 THEN TRUE ELSE More(b[n])
      /\ ~Taken(f, kind, b, n) => \E m \in 0 .. Len(b) : after[n] = Gave(b, m)
  <2>1. n \in 0 .. Len(b)
    BY <1>1
  <2>2. Traced(f, kind, b, n, after[n])
    BY ONLY <2>1, Coming(b), Totals(f, kind, b), VarintRounds
  <2> HIDE DEF after
  <2> QED
    BY ONLY <2>2 DEF Traced
<1> HIDE DEF after, r
<1>5. r.ok = last.ok /\ r.s = last.s /\ r.v = last.v
  BY <1>3
<1>6. \A m : Behind(b, m).at = m /\ Behind(b, m).left = n - m /\ Behind(b, m).over = FALSE
  BY DEF Behind
<1>7. CASE Taken(f, kind, b, n) /\ Complete(b)
  <2>1. after[n] = Went(b, f[n], FALSE, n)
    BY <1>1, <1>4, <1>7
  <2>2. last = Went(b, f[n], FALSE, n)
    <3>1. after[n].more = FALSE
      BY <2>1 DEF Went
    <3> QED
      BY <1>3, <2>1, <3>1 DEF Round
  <2>3. r.ok = TRUE /\ r.s = Behind(b, n) /\ r.v = f[n]
    BY <1>5, <2>2 DEF Went
  <2>4. n - n = 0
    BY <1>1
  <2> QED
    BY <1>6, <1>7, <2>3, <2>4 DEF Rereads, Consumes, r
<1>8. CASE Taken(f, kind, b, n) /\ ~Complete(b)
  <2>1. after[n] = Went(b, f[n], TRUE, n)
    BY <1>1, <1>4, <1>8
  <2>2. after[n].more = TRUE /\ after[n].s = Behind(b, n)
    BY <2>1 DEF Went
  <2>3. last = Gave(b, n)
    <3> DEFINE u == after[n]
               t == Behind(b, n)
    <3>1. u.more = TRUE /\ ReadByte(b, u.s) = Fail(t)
      BY <1>1, <2>2, ReadByteAtEnd
    <3> HIDE DEF u, t
    <3>2. Round(kind, b, GroupBits * n, u) = [ok |-> FALSE, s |-> t, v |-> 0, more |-> FALSE]
      BY ONLY <3>1, RoundFails
    <3> QED
      BY <1>3, <3>2 DEF Gave, u, t
  <2>4. r.ok = FALSE /\ r.s = Behind(b, n)
    BY <1>5, <2>3 DEF Gave
  <2> QED
    BY <1>6, <1>8, <2>4 DEF r
<1>9. CASE ~Taken(f, kind, b, n)
  <2>1. PICK m \in 0 .. Len(b) : after[n] = Gave(b, m)
    BY <1>4, <1>9
  <2>2. after[n].more = FALSE
    BY <2>1 DEF Gave
  <2>3. last = Gave(b, m)
    BY <1>3, <2>1, <2>2 DEF Round
  <2>4. r.ok = FALSE /\ r.s = Behind(b, m)
    BY <1>5, <2>3 DEF Gave
  <2> QED
    BY <1>6, <1>9, <2>4 DEF r
<1> QED
  BY <1>7, <1>8, <1>9

(***************************************************************************)
(* The widths, bytes and their groups.                                     *)
(***************************************************************************)
LEMMA MultipleAbove ==
  ASSUME NEW k \in Nat, k > 0, NEW a \in Nat, NEW c \in Nat,
         a % k = 0, c % k = 0, a < c
  PROVE  a + k <= c
<1> DEFINE p == a \div k
           q == c \div k
<1>1. p \in Int /\ q \in Int /\ a = k * p /\ c = k * q
  BY DivisionIs
<1> HIDE DEF p, q
<1>2. p < q
  <2>1. CASE q <= p
    <3>1. k * q <= k * p
      BY <1>1, <2>1
    <3> QED
      BY <1>1, <3>1
  <2> QED
    BY <1>1, <2>1
<1>3. k * (p + 1) <= k * q /\ k * (p + 1) = k * p + k
  BY <1>1, <1>2
<1> QED
  BY <1>1, <1>3

LEMMA Widths ==
  /\ GroupBits \in Nat /\ GroupBits >= 3 /\ IntBits \in Nat /\ LongBits \in Nat
  /\ GroupBits < IntBits /\ IntBits + GroupBits < LongBits
  /\ LowGroups \in Nat /\ LowGroups >= 1
  /\ GroupBits * LowGroups \in Nat
  /\ GroupBits * LowGroups < IntBits /\ IntBits < GroupBits * LowGroups + GroupBits
  /\ LongestVarint \in Nat /\ LongestVarint >= LowGroups + 2
  /\ LastLong \in Nat /\ LastLong = GroupBits * (LongestVarint - 1)
  /\ LastLong < LongBits /\ LongBits < LastLong + GroupBits
<1>1. /\ GroupBits \in Nat /\ GroupBits >= 3 /\ IntBits \in Nat /\ LongBits \in Nat
      /\ IntBits < LongBits /\ IntBits > 0
  <2>1. IntBits # 0
    <3>1. \A g \in Nat : g >= 3 => 0 % g = 0
      OBVIOUS
    <3> QED
      BY <3>1, PbWireAssumption
  <2> QED
    BY <2>1, PbWireAssumption
<1>2. GroupBits + 1 <= IntBits /\ IntBits + (GroupBits + 1) <= LongBits
  <2>1. GroupBits + 1 \in Nat /\ GroupBits + 1 > 0 /\ 0 % (GroupBits + 1) = 0
    BY <1>1
  <2>2. 0 + (GroupBits + 1) <= IntBits
    BY <1>1, <2>1, PbWireAssumption, MultipleAbove
  <2>3. IntBits + (GroupBits + 1) <= LongBits
    BY <1>1, <2>1, PbWireAssumption, MultipleAbove
  <2> QED
    BY <1>1, <2>2, <2>3
<1> DEFINE g == GroupBits
           p == IntBits \div g
           q == LongBits \div g
<1>3. /\ p \in Nat /\ q \in Nat
      /\ g * p \in Nat /\ g * p < IntBits /\ IntBits < g * p + g
      /\ g * q \in Nat /\ g * q < LongBits /\ LongBits < g * q + g
  <2> DEFINE r == IntBits % g
             s == LongBits % g
  <2>1. /\ p \in Nat /\ q \in Nat /\ r \in 0 .. g - 1 /\ s \in 0 .. g - 1
        /\ IntBits = g * p + r /\ LongBits = g * q + s /\ r # 0 /\ s # 0
    BY <1>1, DivisionIs, PbWireAssumption
  <2> HIDE DEF p, q, r, s
  <2>2. g * p \in Nat /\ g * q \in Nat
    BY <1>1, <2>1
  <2> QED
    BY <1>1, <2>1, <2>2
<1> HIDE DEF p, q
<1>4. p >= 1
  <2>1. CASE p = 0
    <3>1. g * p = 0
      BY <1>1, <2>1
    <3> QED
      BY <1>1, <1>2, <1>3, <3>1
  <2> QED
    BY <1>3, <2>1
<1>5. q >= p + 1
  <2>1. CASE q <= p
    <3>1. g * q <= g * p
      BY <1>1, <1>3, <2>1
    <3> QED
      BY <1>1, <1>2, <1>3, <3>1
  <2> QED
    BY <1>3, <2>1
<1>6. LowGroups = p /\ LongestVarint = q + 1 /\ LastLong = g * q
  BY DEF LowGroups, LongestVarint, LastLong, p, q
<1>7. LongestVarint - 1 = q
  BY <1>3, <1>6
<1> QED
  BY <1>1, <1>2, <1>3, <1>4, <1>5, <1>6, <1>7

LEMMA ByteIs ==
  ASSUME NEW x \in Bytes
  PROVE  /\ Pow2[GroupBits] \in Nat /\ Pow2[GroupBits] > 0
         /\ x \in Nat /\ Group(x) \in 0 .. Pow2[GroupBits] - 1
         /\ ~More(x) => Group(x) = x
         /\ More(x) => x = Group(x) + Pow2[GroupBits]
<1> DEFINE p == Pow2[GroupBits]
<1>1. p \in Nat /\ p > 0 /\ Pow2[GroupBits + 1] = 2 * p
  BY Widths, Pow2Type, Pow2Is
<1>2. x \in 0 .. 2 * p - 1
  BY <1>1 DEF Bytes
<1> HIDE DEF p
<1>3. x < p => x % p = x
  BY <1>1, <1>2, DivisionOrder
<1>4. x >= p => x % p = x - p
  <2> SUFFICES ASSUME x >= p PROVE x % p = x - p
    OBVIOUS
  <2>1. x = p * 1 + (x - p) /\ x - p \in 0 .. p - 1 /\ x \in Int
    BY <1>1, <1>2
  <2> QED
    BY <1>1, <2>1, DivisionUnique
<1>5. x % p \in 0 .. p - 1
  BY <1>1, <1>2, DivisionIs
<1> QED
  BY <1>1, <1>2, <1>3, <1>4, <1>5 DEF More, Group, p

LEMMA ByteOf ==
  ASSUME NEW digit \in 0 .. Pow2[GroupBits] - 1
  PROVE  /\ digit \in Bytes /\ ~More(digit) /\ Group(digit) = digit
         /\ Going(digit) \in Bytes /\ More(Going(digit)) /\ Group(Going(digit)) = digit
<1> DEFINE p == Pow2[GroupBits]
<1>1. p \in Nat /\ p > 0 /\ Pow2[GroupBits + 1] = 2 * p
  BY Widths, Pow2Type, Pow2Is
<1>2. digit \in 0 .. p - 1
  OBVIOUS
<1> HIDE DEF p
<1>3. digit % p = digit
  BY <1>1, <1>2, DivisionOrder
<1>4. (digit + p) % p = digit
  <2>1. digit + p = p * 1 + digit /\ digit + p \in Int
    BY <1>1, <1>2
  <2> QED
    BY <1>1, <1>2, <2>1, DivisionUnique
<1>5. digit \in 0 .. 2 * p - 1 /\ digit + p \in 0 .. 2 * p - 1 /\ ~(digit >= p) /\ digit + p >= p
  BY <1>1, <1>2
<1> QED
  BY <1>1, <1>3, <1>4, <1>5 DEF Bytes, More, Group, Going, p

LEMMA FunctionIsSequence ==
  ASSUME NEW n \in Nat, NEW S, NEW f \in [1 .. n -> S]
  PROVE  f \in Seq(S) /\ Len(f) = n /\ DOMAIN f = 1 .. n
<1>1. f \in Seq(S)
  BY SeqDef
<1>2. DOMAIN f = 1 .. n
  OBVIOUS
<1> QED
  BY <1>1, <1>2, LenProperties

GroupsOf(b) == [i \in DOMAIN b |-> Group(b[i])]
Low(b) == Lowest(GroupsOf(b), GroupBits)

LEMMA SpelledIs ==
  ASSUME NEW b \in Seq(Bytes)
  PROVE  /\ Spelled(b) = Low(b)[Len(b)] /\ Spelled(b) \in Nat
         /\ Low(b)[0] = 0
         /\ \A n \in 0 .. Len(b) : Low(b)[n] \in 0 .. Pow2[GroupBits * n] - 1
         /\ \A n \in 0 .. Len(b) - 1 :
              /\ Low(b)[n + 1] = Low(b)[n] + Group(b[n + 1]) * Pow2[GroupBits * n]
              /\ Group(b[n + 1]) * Pow2[GroupBits * n] <= Spelled(b)
              /\ Low(b)[n] <= Spelled(b)
<1> DEFINE digit == GroupsOf(b)
<1>1. Len(b) \in Nat /\ DOMAIN b = 1 .. Len(b) /\ \A i \in 1 .. Len(b) : b[i] \in Bytes
  BY LenProperties, ElementOfSeq
<1>2. \A i \in 1 .. Len(b) : digit[i] = Group(b[i]) /\ digit[i] \in 0 .. Pow2[GroupBits] - 1
  BY <1>1, ByteIs DEF GroupsOf
<1>3. Len(digit) = Len(b)
  <2>1. digit = [i \in 1 .. Len(b) |-> Group(b[i])]
    BY <1>1 DEF GroupsOf
  <2>2. digit \in [1 .. Len(b) -> 0 .. Pow2[GroupBits] - 1]
    <3> HIDE DEF digit
    <3>1. \A i \in 1 .. Len(b) : Group(b[i]) \in 0 .. Pow2[GroupBits] - 1
      BY <1>2
    <3> QED
      BY <2>1, <3>1
  <2> HIDE DEF digit
  <2> QED
    BY <1>1, <2>2, FunctionIsSequence
<1>4. Spelled(b) = FromDigits(digit, GroupBits)
  BY DEF Spelled, GroupsOf
<1>5. AreDigits(digit, GroupBits) /\ GroupBits \in Nat
  BY <1>1, <1>2, <1>3, Widths DEF AreDigits
<1> HIDE DEF digit
<1>6. /\ FromDigits(digit, GroupBits) = Lowest(digit, GroupBits)[Len(b)]
      /\ Lowest(digit, GroupBits)[0] = 0
      /\ \A n \in 0 .. Len(b) - 1 : Lowest(digit, GroupBits)[n + 1] =
           Lowest(digit, GroupBits)[n] + digit[n + 1] * Pow2[GroupBits * n]
  BY <1>1, <1>3, FromDigitsIs
<1>7. \A n \in 0 .. Len(b) : Lowest(digit, GroupBits)[n] \in 0 .. Pow2[GroupBits * n] - 1
  BY <1>3, <1>5, LowestBelow
<1>8. \A n \in 0 .. Len(b) - 1 :
        /\ digit[n + 1] * Pow2[GroupBits * n] <= FromDigits(digit, GroupBits)
        /\ Lowest(digit, GroupBits)[n] <= FromDigits(digit, GroupBits)
  BY <1>3, <1>5, LowestGrows
<1>9. \A n \in 0 .. Len(b) - 1 : digit[n + 1] = Group(b[n + 1])
  BY <1>1, <1>2
<1>10. Low(b) = Lowest(digit, GroupBits)
  BY DEF Low, digit
<1>11. FromDigits(digit, GroupBits) \in Nat
  BY <1>1, <1>6, <1>7
<1> QED
  BY <1>4, <1>6, <1>7, <1>8, <1>9, <1>10, <1>11

(***************************************************************************)
(* A long is read when its groups spell one.                               *)
(***************************************************************************)
LEMMA BitposBelow ==
  ASSUME NEW m \in Nat, NEW n \in Nat
  PROVE  /\ GroupBits * m \in Nat /\ GroupBits * (m + 1) = GroupBits * m + GroupBits
         /\ m < n <=> GroupBits * m < GroupBits * n
         /\ m <= n <=> GroupBits * m <= GroupBits * n
<1>1. GroupBits \in Nat /\ GroupBits > 0
  BY Widths
<1>2. \A g, x, y \in Nat : g > 0 => /\ x < y => g * x < g * y
                                    /\ x <= y => g * x <= g * y
  <2> SUFFICES ASSUME NEW g \in Nat, NEW x \in Nat, NEW y \in Nat, g > 0
               PROVE  /\ x < y => g * x < g * y
                      /\ x <= y => g * x <= g * y
    OBVIOUS
  <2>1. g * (y - x) = g * y - g * x /\ g * x \in Int /\ g * y \in Int
    OBVIOUS
  <2>2. x < y => g * (y - x) > 0
    OBVIOUS
  <2>3. x <= y => g * (y - x) >= 0
    OBVIOUS
  <2> QED
    BY <2>1, <2>2, <2>3
<1>3. GroupBits * m \in Nat /\ GroupBits * n \in Nat
  BY <1>1
<1>4. GroupBits * (m + 1) = GroupBits * m + GroupBits
  BY <1>1
<1>5. (m < n => GroupBits * m < GroupBits * n) /\ (m <= n => GroupBits * m <= GroupBits * n)
      /\ (n < m => GroupBits * n < GroupBits * m) /\ (n <= m => GroupBits * n <= GroupBits * m)
  BY <1>1, <1>2
<1> QED
  BY <1>3, <1>4, <1>5

LEMMA LongTotals == ASSUME NEW b, Coming(b) PROVE Totals(Low(b), "long", b)
<1>1. b \in Seq(Bytes)
  BY DEF Coming
<1>2. \A bitpos, v, x : Summed("long", bitpos, v, x) = v + Group(x) * Pow2[bitpos]
  BY DEF Summed
<1> QED
  BY <1>1, <1>2, SpelledIs DEF Totals

LEMMA LongTaken ==
  ASSUME NEW b, Coming(b), Complete(b)
  PROVE  Taken(Low(b), "long", b, Len(b)) <=>
           Len(b) <= LongestVarint /\ Spelled(b) < Pow2[LongBits]
<1> DEFINE n == Len(b)
           last == LongestVarint - 1
           rest == Pow2[LongBits - LastLong]
           place == Pow2[LastLong]
<1>1. /\ b \in Seq(Bytes) /\ n \in Nat /\ n # 0 /\ ~More(b[n])
      /\ \A i \in 1 .. n : b[i] \in Bytes
      /\ \A i \in 1 .. n - 1 : More(b[i])
  BY ComingIs DEF Coming
<1>2. Taken(Low(b), "long", b, n) <=>
        \A m \in 0 .. n - 1 : GroupBits * m < LastLong \/ b[m + 1] < rest
  BY DEF Taken, Valid, LongValid
<1>3. /\ last \in Nat /\ LongestVarint = last + 1 /\ LastLong = GroupBits * last
      /\ LastLong \in Nat /\ LongBits \in Nat /\ LastLong < LongBits
      /\ LongBits - LastLong \in Nat /\ LongBits - LastLong < GroupBits /\ GroupBits \in Nat
  BY Widths
<1>4. /\ rest \in Nat /\ place \in Nat /\ place > 0 /\ rest > 0
      /\ Pow2[LongBits] = place * rest /\ Pow2[LongBits] \in Nat
      /\ rest <= Pow2[GroupBits] /\ Pow2[GroupBits] \in Nat
  <2>1. /\ rest \in Nat /\ place \in Nat /\ place > 0 /\ rest > 0
        /\ Pow2[LongBits] \in Nat /\ Pow2[GroupBits] \in Nat
    BY <1>3, Pow2Type
  <2>2. Pow2[LongBits] = place * rest
    BY <1>3, Pow2Order
  <2>3. rest <= Pow2[GroupBits]
    <3>1. LongBits - LastLong <= GroupBits
      BY <1>3
    <3> QED
      BY <1>3, <3>1, Pow2Order
  <2> QED
    BY <2>1, <2>2, <2>3
<1>5. \A m \in Nat : GroupBits * m < LastLong <=> m < last
  BY <1>3, BitposBelow
<1> HIDE DEF last, rest, place
<1>6. ASSUME Taken(Low(b), "long", b, n)
      PROVE  n <= LongestVarint /\ Spelled(b) < Pow2[LongBits]
  <2>1. \A m \in 0 .. n - 1 : m < last \/ b[m + 1] < rest
    <3>1. \A m \in 0 .. n - 1 : m \in Nat
      BY <1>1
    <3> QED
      BY <1>2, <1>5, <1>6, <3>1
  <2>2. n <= last + 1
    <3> SUFFICES ASSUME n > last + 1 PROVE FALSE
      BY <1>1, <1>3
    <3>1. last \in 0 .. n - 1 /\ ~(last < last) /\ last + 1 \in 1 .. n - 1 /\ last + 1 \in 1 .. n
      BY <1>1, <1>3
    <3>2. b[last + 1] < rest /\ More(b[last + 1]) /\ b[last + 1] \in Bytes
      BY <1>1, <2>1, <3>1
    <3>3. b[last + 1] >= Pow2[GroupBits] /\ b[last + 1] \in Nat
      BY <3>2, ByteIs DEF More
    <3> QED
      BY <1>4, <3>2, <3>3
  <2>3. CASE n = last + 1
    <3>1. last \in 0 .. n - 1 /\ last \in 0 .. n /\ ~(last < last) /\ n \in 1 .. n
      BY <1>1, <1>3, <2>3
    <3> DEFINE x == b[n]
               low == Low(b)[last]
    <3>2. x < rest /\ x \in Bytes
      BY <1>1, <2>1, <2>3, <3>1
    <3>3. Group(x) = x /\ x \in Nat
      BY <1>1, <3>2, ByteIs
    <3>4. Spelled(b) = low + Group(x) * place /\ low \in 0 .. place - 1
      BY <1>1, <1>3, <2>3, <3>1, SpelledIs DEF place
    <3> HIDE DEF x, low
    <3>5. \A a, digit, p, r \in Nat : a <= p - 1 /\ digit < r => a + digit * p < p * r
      <4> SUFFICES ASSUME NEW a \in Nat, NEW digit \in Nat, NEW p \in Nat, NEW r \in Nat,
                          a <= p - 1, digit < r
                   PROVE  a + digit * p < p * r
        OBVIOUS
      <4>1. digit * p <= (r - 1) * p /\ digit * p \in Int
        OBVIOUS
      <4>2. (r - 1) * p = p * r - p /\ p * r \in Int
        OBVIOUS
      <4> QED
        BY <4>1, <4>2
    <3>6. low + x * place < place * rest
      BY <1>4, <3>2, <3>3, <3>4, <3>5
    <3> QED
      BY <1>3, <1>4, <2>3, <3>3, <3>4, <3>6
  <2>4. CASE n <= last
    <3>1. GroupBits * n \in Nat /\ GroupBits * n <= LastLong /\ GroupBits * n <= LongBits
      <4>1. GroupBits * n \in Nat /\ GroupBits * n <= GroupBits * last
        BY <1>1, <1>3, <2>4, BitposBelow
      <4> QED
        BY <1>3, <4>1
    <3>2. Pow2[GroupBits * n] <= Pow2[LongBits] /\ Pow2[GroupBits * n] \in Nat
      BY <1>3, <3>1, Pow2Order, Pow2Type
    <3>3. Spelled(b) \in 0 .. Pow2[GroupBits * n] - 1
      <4>1. n \in 0 .. n
        BY <1>1
      <4> QED
        BY <1>1, <4>1, SpelledIs
    <3> QED
      BY <1>3, <1>4, <2>2, <3>2, <3>3
  <2> QED
    BY <1>1, <1>3, <2>2, <2>3, <2>4
<1>7. ASSUME n <= LongestVarint, Spelled(b) < Pow2[LongBits]
      PROVE  Taken(Low(b), "long", b, n)
  <2> SUFFICES ASSUME NEW m \in 0 .. n - 1, ~(m < last) PROVE b[m + 1] < rest
    BY <1>1, <1>2, <1>5
  <2>1. m = last /\ n = last + 1 /\ n \in 1 .. n
    BY <1>1, <1>3, <1>7
  <2> DEFINE x == b[n]
  <2>2. Group(x) = x /\ x \in Nat
    BY <1>1, <2>1, ByteIs
  <2>3. Group(x) * place <= Spelled(b) /\ Spelled(b) \in Nat
    BY <1>1, <1>3, <2>1, SpelledIs DEF place
  <2> HIDE DEF x
  <2>4. place * x < place * rest
    <3>1. Group(x) * place = place * x /\ place * x \in Int /\ place * rest \in Int
      BY <1>4, <2>2
    <3> QED
      BY <1>4, <1>7, <2>3, <3>1
  <2>5. x < rest
    <3>1. \A p, y, r \in Nat : p * y < p * r => y < r
      <4> SUFFICES ASSUME NEW p \in Nat, NEW y \in Nat, NEW r \in Nat, r <= y
                   PROVE  p * r <= p * y
        OBVIOUS
      <4> QED
        OBVIOUS
    <3> QED
      BY <1>4, <2>2, <2>4, <3>1
  <2> QED
    BY <2>1, <2>5 DEF x
<1> QED
  BY <1>6, <1>7

(***************************************************************************)
(* An int has the low bits of what is read.                                *)
(***************************************************************************)
LowOfInt(b) == [n \in 0 .. Len(b) |-> Low(b)[n] % Pow2[IntBits]]

LEMMA IntTotals == ASSUME NEW b, Coming(b) PROVE Totals(LowOfInt(b), "int", b)
<1> DEFINE p == Pow2[IntBits]
           low == Low(b)
<1>1. b \in Seq(Bytes) /\ Len(b) \in Nat /\ \A i \in 1 .. Len(b) : b[i] \in Bytes
  BY ComingIs DEF Coming
<1>2. p \in Nat /\ p > 0 /\ IntBits \in Nat
  BY Widths, Pow2Type
<1>3. /\ low[0] = 0
      /\ \A n \in 0 .. Len(b) : low[n] \in Nat
      /\ \A n \in 0 .. Len(b) - 1 :
           low[n + 1] = low[n] + Group(b[n + 1]) * Pow2[GroupBits * n]
  BY <1>1, SpelledIs
<1>4. \A bitpos, v, x : Summed("int", bitpos, v, x) =
        IF bitpos >= IntBits THEN v ELSE (v + Group(x) * Pow2[bitpos]) % p
  BY DEF Summed, IntSum
<1>5. \A n \in 0 .. Len(b) : LowOfInt(b)[n] = low[n] % p
  BY DEF LowOfInt
<1> HIDE DEF p, low
<1>6. LowOfInt(b)[0] = 0
  BY <1>1, <1>2, <1>3, <1>5, DivisionOrder
<1>7. ASSUME NEW n \in 0 .. Len(b) - 1
      PROVE  LowOfInt(b)[n + 1] = Summed("int", GroupBits * n, LowOfInt(b)[n], b[n + 1])
  <2> DEFINE bitpos == GroupBits * n
             digit == Group(b[n + 1])
             u == Pow2[bitpos]
             a == low[n]
  <2>1. n \in Nat /\ n \in 0 .. Len(b) /\ n + 1 \in 0 .. Len(b) /\ n + 1 \in 1 .. Len(b)
    BY <1>1
  <2>2. bitpos \in Nat
    BY <2>1, BitposBelow
  <2>3. u \in Nat /\ digit \in Nat /\ a \in Nat
    BY <1>1, <1>3, <2>1, <2>2, ByteIs, Pow2Type
  <2>4. LowOfInt(b)[n] = a % p /\ LowOfInt(b)[n + 1] = (a + digit * u) % p
    BY <1>3, <1>5, <2>1
  <2>5. bitpos >= IntBits => \E c \in Nat : u = p * c
    <3> SUFFICES ASSUME bitpos >= IntBits PROVE \E c \in Nat : u = p * c
      OBVIOUS
    <3>1. bitpos - IntBits \in Nat /\ IntBits <= bitpos
      BY <1>2, <2>2
    <3>2. u = p * Pow2[bitpos - IntBits] /\ Pow2[bitpos - IntBits] \in Nat
      BY <1>2, <2>2, <3>1, Pow2Order, Pow2Type DEF p
    <3> QED
      BY <3>2
  <2> HIDE DEF bitpos, digit, u, a
  <2>6. CASE bitpos >= IntBits
    <3>1. PICK c \in Nat : u = p * c
      BY <2>5, <2>6
    <3> DEFINE e == digit * c
    <3>2. digit * u = p * e /\ e \in Int
      BY <1>2, <2>3, <3>1
    <3> HIDE DEF e
    <3>3. (a + p * e) % p = a % p
      <4>1. a \in Int /\ p \in Nat /\ p > 0 /\ e \in Int
        BY <1>2, <2>3, <3>2
      <4> QED
        BY ONLY <4>1, DivisionShift
    <3> QED
      BY <1>4, <2>4, <2>6, <3>2, <3>3 DEF bitpos
  <2>7. CASE ~(bitpos >= IntBits)
    <3> DEFINE q == a \div p
               r == a % p
               t == digit * u
    <3>1. q \in Int /\ r \in Int /\ a = p * q + r /\ t \in Int
      BY <1>2, <2>3, DivisionIs
    <3> HIDE DEF q, r, t
    <3>2. a + t = (r + t) + p * q /\ r + t \in Int
      BY <1>2, <3>1
    <3>3. ((r + t) + p * q) % p = (r + t) % p
      BY <1>2, <3>1, <3>2, DivisionShift
    <3>4. LowOfInt(b)[n] = r /\ LowOfInt(b)[n + 1] = (r + t) % p
      BY <2>4, <3>2, <3>3 DEF r, t
    <3> QED
      BY <1>4, <2>7, <3>4 DEF bitpos, t, digit, u
  <2> QED
    BY <2>6, <2>7
<1> QED
  BY <1>6, <1>7 DEF Totals

LEMMA IntTaken ==
  ASSUME NEW b, Coming(b), Len(b) <= LongestVarint, Spelled(b) < Pow2[IntBits], NEW f
  PROVE  Taken(f, "int", b, Len(b))
<1>1. b \in Seq(Bytes) /\ Len(b) \in Nat /\ \A i \in 1 .. Len(b) : b[i] \in Bytes
  BY ComingIs DEF Coming
<1>2. \A bitpos, v, x : Valid("int", bitpos, v, x) =
        IF bitpos >= IntBits THEN Extends(bitpos, v, x) ELSE Splits(bitpos, x)
  BY DEF Valid, IntValid
<1> SUFFICES ASSUME NEW n \in 0 .. Len(b) - 1
             PROVE  Valid("int", GroupBits * n, f[n], b[n + 1])
  BY DEF Taken
<1> DEFINE bitpos == GroupBits * n
           x == b[n + 1]
           digit == Group(x)
           u == Pow2[bitpos]
<1>3. n \in Nat /\ n + 1 \in 1 .. Len(b)
  BY <1>1
<1>4. bitpos \in Nat /\ u \in Nat /\ u > 0 /\ digit \in Nat /\ IntBits \in Nat
  BY <1>1, <1>3, BitposBelow, ByteIs, Pow2Type, Widths
<1>5. digit * u < Pow2[IntBits]
  <2>1. digit * u <= Spelled(b) /\ Spelled(b) \in Nat
    BY <1>1, SpelledIs
  <2>2. digit * u \in Int /\ Pow2[IntBits] \in Nat
    BY <1>4, Pow2Type
  <2> QED
    BY <2>1, <2>2
<1>6. bitpos < LongBits
  <2>1. n <= LongestVarint - 1 /\ LongestVarint - 1 \in Nat
    BY <1>1, <1>3, Widths
  <2>2. bitpos <= GroupBits * (LongestVarint - 1)
    BY <1>3, <2>1, BitposBelow
  <2> QED
    BY <1>4, <2>2, Widths
<1> HIDE DEF bitpos, x, digit, u
<1>7. CASE bitpos >= IntBits
  <2>1. Pow2[IntBits] <= u /\ Pow2[IntBits] \in Nat
    BY <1>4, <1>7, Pow2Order, Pow2Type DEF u
  <2>2. digit * u < 1 * u
    <3>1. digit * u \in Int
      BY <1>4
    <3> QED
      BY <1>4, <1>5, <2>1, <3>1
  <2>3. digit = 0
    <3>1. \A y, z \in Nat : y # 0 => y * z >= 1 * z
      OBVIOUS
    <3>2. digit * u \in Int
      BY <1>4
    <3> QED
      BY <1>4, <2>2, <3>1, <3>2
  <2>4. Extends(bitpos, f[n], x)
    BY <1>6, <2>3 DEF Extends, digit
  <2> QED
    BY <1>2, <1>7, <2>4 DEF bitpos, x
<1>8. CASE ~(bitpos >= IntBits)
  <2> DEFINE kept == IntBits - bitpos
             w == Pow2[kept]
  <2>1. kept \in Nat /\ bitpos <= IntBits
    BY <1>4, <1>8
  <2>2. w \in Nat /\ w > 0 /\ Pow2[IntBits] = u * w
    BY <1>4, <2>1, Pow2Order, Pow2Type DEF u
  <2> HIDE DEF w
  <2>3. digit < w
    <3>1. \A y, z, p \in Nat : p <= y => p * z <= y * z
      OBVIOUS
    <3>2. digit * u < w * u
      BY <1>4, <1>5, <2>2
    <3>3. digit * u \in Int /\ w * u \in Int
      BY <1>4, <2>2
    <3> QED
      BY <1>4, <2>2, <3>1, <3>2, <3>3
  <2>4. digit \div w = 0
    BY <1>4, <2>2, <2>3, DivisionOrder
  <2>5. Splits(bitpos, x)
    BY <2>4 DEF Splits, digit, w
  <2> QED
    BY <1>2, <1>8, <2>5 DEF bitpos, x
<1> QED
  BY <1>7, <1>8

(***************************************************************************)
(* What is read from a buffer.                                             *)
(***************************************************************************)
Reader(r, b, v, taken) ==
  /\ r.ok \in BOOLEAN
  /\ r.ok <=> Complete(b) /\ taken
  /\ r.ok => Rereads(r, b, v)
  /\ r.s.over = FALSE

LEMMA LongReader ==
  ASSUME NEW b, Coming(b)
  PROVE  Reader(DecodeLong(b, FromBuffer(b)), b, Spelled(b),
                Len(b) <= LongestVarint /\ Spelled(b) < Pow2[LongBits])
<1> DEFINE r == DecodeVarint("long", b, FromBuffer(b))
<1>1. Totals(Low(b), "long", b)
  BY LongTotals
<1>2. /\ r.ok \in BOOLEAN
      /\ r.ok <=> Complete(b) /\ Taken(Low(b), "long", b, Len(b))
      /\ r.ok => Rereads(r, b, Low(b)[Len(b)])
      /\ r.s.over = FALSE
  BY <1>1, VarintDecodes
<1> HIDE DEF r
<1>3. Spelled(b) = Low(b)[Len(b)]
  BY SpelledIs DEF Coming
<1>4. Complete(b) => (Taken(Low(b), "long", b, Len(b)) <=>
                        Len(b) <= LongestVarint /\ Spelled(b) < Pow2[LongBits])
  BY LongTaken
<1>5. Reader(r, b, Spelled(b), Len(b) <= LongestVarint /\ Spelled(b) < Pow2[LongBits])
  BY ONLY <1>2, <1>3, <1>4 DEF Reader
<1> QED
  BY <1>5 DEF r, DecodeLong

LEMMA IntReader ==
  ASSUME NEW b, Coming(b)
  PROVE  Reader(DecodeInt(b, FromBuffer(b)), b, Bits(IntBits, Spelled(b)),
                Taken(LowOfInt(b), "int", b, Len(b)))
<1> DEFINE r == DecodeVarint("int", b, FromBuffer(b))
<1>1. Totals(LowOfInt(b), "int", b)
  BY IntTotals
<1>2. /\ r.ok \in BOOLEAN
      /\ r.ok <=> Complete(b) /\ Taken(LowOfInt(b), "int", b, Len(b))
      /\ r.ok => Rereads(r, b, LowOfInt(b)[Len(b)])
      /\ r.s.over = FALSE
  BY <1>1, VarintDecodes
<1> HIDE DEF r
<1>3. Bits(IntBits, Spelled(b)) = LowOfInt(b)[Len(b)]
  <2>1. Len(b) \in Nat /\ Len(b) \in 0 .. Len(b)
    BY ComingIs
  <2>2. Spelled(b) = Low(b)[Len(b)]
    BY SpelledIs DEF Coming
  <2> QED
    BY <2>1, <2>2 DEF LowOfInt, Bits
<1>4. Reader(r, b, Bits(IntBits, Spelled(b)), Taken(LowOfInt(b), "int", b, Len(b)))
  BY ONLY <1>2, <1>3 DEF Reader
<1> QED
  BY <1>4 DEF r, DecodeInt

LEMMA SkipReader ==
  ASSUME NEW b, Coming(b)
  PROVE  Reader(SkipVarint(b, FromBuffer(b)), b, 0, TRUE)
<1> DEFINE r == DecodeVarint("skip", b, FromBuffer(b))
           f == [n \in 0 .. Len(b) |-> 0]
<1>0. Len(b) \in Nat
  BY ComingIs
<1>1. Totals(f, "skip", b)
  BY <1>0 DEF Totals, Summed
<1>2. Taken(f, "skip", b, Len(b)) /\ f[Len(b)] = 0
  BY <1>0 DEF Taken, Valid
<1> HIDE DEF f
<1>3. /\ r.ok \in BOOLEAN
      /\ r.ok <=> Complete(b) /\ Taken(f, "skip", b, Len(b))
      /\ r.ok => Rereads(r, b, f[Len(b)])
      /\ r.s.over = FALSE
  BY <1>1, VarintDecodes
<1> HIDE DEF r
<1>4. Reader(r, b, 0, TRUE)
  BY ONLY <1>2, <1>3 DEF Reader
<1> QED
  BY <1>4 DEF r, SkipVarint

LEMMA ReadExactly == ASSUME NEW b, Coming(b) PROVE ReadsExactly(b)
<1> DEFINE long == DecodeLong(b, FromBuffer(b))
           int == DecodeInt(b, FromBuffer(b))
           skipped == SkipVarint(b, FromBuffer(b))
           fits == Len(b) <= LongestVarint /\ Spelled(b) < Pow2[LongBits]
           taken == Taken(LowOfInt(b), "int", b, Len(b))
<1>1. /\ Reader(long, b, Spelled(b), fits)
      /\ Reader(int, b, Bits(IntBits, Spelled(b)), taken)
      /\ Reader(skipped, b, 0, TRUE)
  BY LongReader, IntReader, SkipReader
<1>2. Len(b) <= LongestVarint /\ Spelled(b) < Pow2[IntBits] => taken
  BY IntTaken
<1>3. Spelled(b) \in Longs <=> Spelled(b) < Pow2[LongBits]
  <2>1. Spelled(b) \in Nat
    BY SpelledIs DEF Coming
  <2>2. Pow2[LongBits] \in Nat
    BY Widths, Pow2Type
  <2> QED
    BY <2>1, <2>2 DEF Longs
<1> HIDE DEF long, int, skipped, taken
<1>4. /\ long.ok <=> /\ Complete(b) /\ Len(b) <= LongestVarint
                     /\ Spelled(b) \in Longs
      /\ long.ok => Rereads(long, b, Spelled(b))
      /\ long.ok /\ Spelled(b) < Pow2[IntBits] => int.ok
      /\ int.ok => Rereads(int, b, Bits(IntBits, Spelled(b)))
      /\ skipped.ok <=> Complete(b)
      /\ \A r \in {long, int, skipped} : ~r.s.over
  BY <1>1, <1>2, <1>3 DEF Reader
<1> QED
  BY <1>4 DEF ReadsExactly, long, int, skipped

(***************************************************************************)
(* The groups of a long.                                                   *)
(***************************************************************************)
IsLast(v, k) ==
  /\ k \in 1 .. LongBits
  /\ v < Pow2[GroupBits * k]
  /\ k > 1 => v >= Pow2[GroupBits * (k - 1)]
LastGroup(v) == CHOOSE k : IsLast(v, k)

LEMMA PlaceIs ==
  ASSUME NEW m \in Nat, NEW n \in Nat
  PROVE  /\ Pow2[GroupBits * m] \in Nat /\ Pow2[GroupBits * m] > 0
         /\ m <= n => Pow2[GroupBits * m] <= Pow2[GroupBits * n]
         /\ Pow2[GroupBits * (m + n)] = Pow2[GroupBits * m] * Pow2[GroupBits * n]
<1>1. /\ GroupBits * m \in Nat /\ GroupBits * n \in Nat
      /\ m <= n => GroupBits * m <= GroupBits * n
  BY BitposBelow
<1>2. GroupBits * (m + n) = GroupBits * m + GroupBits * n
  BY Widths
<1>3. m <= n => Pow2[GroupBits * m] <= Pow2[GroupBits * n]
  BY <1>1, Pow2Order
<1>4. Pow2[GroupBits * (m + n)] = Pow2[GroupBits * m] * Pow2[GroupBits * n]
  BY <1>1, <1>2, Pow2Sum
<1> QED
  BY <1>1, <1>3, <1>4, Pow2Type

LEMMA LongestIs ==
  /\ LongestVarint \in 1 .. LongBits
  /\ Pow2[LongBits] \in Nat /\ Pow2[LongBits] > 0
  /\ Pow2[LongBits] <= Pow2[GroupBits * LongestVarint]
<1> DEFINE q == LongestVarint - 1
           g == GroupBits
<1>1. /\ q \in Nat /\ q >= 1 /\ LongestVarint = q + 1 /\ g \in Nat /\ g >= 3 /\ g * q = LastLong
      /\ LastLong \in Nat /\ LongBits \in Nat /\ LastLong < LongBits /\ LongBits < LastLong + g
  BY Widths
<1> HIDE DEF q
<1>2. q <= g * q
  BY <1>1
<1>3. LongestVarint \in 1 .. LongBits
  BY <1>1, <1>2
<1>4. g * LongestVarint \in Nat /\ LongBits <= g * LongestVarint
  <2>1. g * (q + 1) = g * q + g
    BY <1>1, BitposBelow
  <2> QED
    BY <1>1, <2>1
<1> QED
  BY <1>1, <1>3, <1>4, Pow2Order, Pow2Type

LEMMA LastGroupUnique ==
  ASSUME NEW v \in Nat, NEW k, IsLast(v, k), NEW l, IsLast(v, l)
  PROVE  k = l
<1>1. ASSUME NEW m, NEW n, IsLast(v, m), IsLast(v, n), m < n PROVE FALSE
  <2>1. m \in Nat /\ n \in Nat /\ n > 1 /\ n - 1 \in Nat /\ m <= n - 1
    BY <1>1, Widths DEF IsLast
  <2>2. v < Pow2[GroupBits * m] /\ v >= Pow2[GroupBits * (n - 1)]
    BY <1>1, <2>1 DEF IsLast
  <2>3. /\ Pow2[GroupBits * m] <= Pow2[GroupBits * (n - 1)]
        /\ Pow2[GroupBits * m] \in Nat /\ Pow2[GroupBits * (n - 1)] \in Nat
    BY <2>1, PlaceIs
  <2> QED
    BY <2>2, <2>3
<1>2. ~(k < l) /\ ~(l < k)
  BY <1>1
<1>3. k \in Int /\ l \in Int
  BY Widths DEF IsLast
<1> QED
  BY <1>2, <1>3

LEMMA LastGroupExists ==
  ASSUME NEW v \in Nat, v < Pow2[LongBits]
  PROVE  IsLast(v, LastGroup(v)) /\ LastGroup(v) <= LongestVarint
<1> DEFINE Fits(k) == v < Pow2[GroupBits * k]
           Q == {n \in Nat : \A k \in 1 .. n : ~Fits(k)}
<1>1. /\ Fits(LongestVarint) /\ LongestVarint \in 1 .. LongBits
      /\ LongestVarint \in Nat /\ LongBits \in Nat
  <2>1. Pow2[GroupBits * LongestVarint] \in Nat
    BY Widths, PlaceIs
  <2> QED
    BY <2>1, LongestIs, Widths
<1>2. \E k \in 1 .. LongestVarint : Fits(k) /\ (k > 1 => ~Fits(k - 1))
  <2> HIDE DEF Fits
  <2> SUFFICES ASSUME \A k \in 1 .. LongestVarint : Fits(k) => k > 1 /\ Fits(k - 1) PROVE FALSE
    OBVIOUS
  <2> DEFINE R == {n \in Nat : n < LongestVarint => Fits(LongestVarint - n)}
  <2>1. 0 \in R
    <3>1. LongestVarint - 0 = LongestVarint
      BY <1>1
    <3> QED
      BY <1>1, <3>1
  <2>2. ASSUME NEW n \in Nat, n \in R PROVE n + 1 \in R
    <3> SUFFICES ASSUME n + 1 < LongestVarint PROVE Fits(LongestVarint - (n + 1))
      OBVIOUS
    <3>1. LongestVarint - n \in 1 .. LongestVarint /\ n < LongestVarint
          /\ (LongestVarint - n) - 1 = LongestVarint - (n + 1)
      BY <1>1
    <3>2. Fits((LongestVarint - n) - 1)
      BY <2>2, <3>1
    <3> QED
      BY <3>1, <3>2
  <2> HIDE DEF R
  <2>3. \A n \in Nat : n \in R
    BY <2>1, <2>2, NaturalInduction
  <2>4. LongestVarint - 1 \in Nat /\ LongestVarint - 1 < LongestVarint
        /\ LongestVarint - (LongestVarint - 1) = 1
    BY <1>1
  <2>5. Fits(1)
    BY <2>3, <2>4 DEF R
  <2> QED
    BY <1>1, <2>5
<1>3. PICK k \in 1 .. LongestVarint : Fits(k) /\ (k > 1 => ~Fits(k - 1))
  BY <1>2
<1>4. IsLast(v, k)
  <2>1. k \in 1 .. LongBits /\ k \in Nat
    BY <1>1
  <2>2. k - 1 \in Nat
    BY <1>1
  <2>3. Pow2[GroupBits * (k - 1)] \in Nat
    BY <2>2, PlaceIs
  <2> QED
    BY <1>3, <2>1, <2>3 DEF IsLast
<1>5. IsLast(v, LastGroup(v))
  BY <1>4 DEF LastGroup
<1>6. LastGroup(v) = k
  BY <1>4, <1>5, LastGroupUnique
<1> QED
  BY <1>1, <1>5, <1>6

(* The bytes that are the groups of v, the last of which ends them.        *)
AreGroups(b, v, k) ==
  b = [i \in 1 .. k |-> IF i < k THEN Going(Digit(v, GroupBits, i)) ELSE Digit(v, GroupBits, i)]

LEMMA GroupsAre ==
  ASSUME NEW v \in Nat, v < Pow2[LongBits]
  PROVE  AreGroups(Groups(v), v, LastGroup(v))
<1>1. \E k : IsLast(v, k)
  BY LastGroupExists
<1> DEFINE last == CHOOSE k \in 1 .. LongBits :
                     /\ v < Pow2[GroupBits * k]
                     /\ k > 1 => v >= Pow2[GroupBits * (k - 1)]
<1>2. IsLast(v, last)
  BY <1>1 DEF IsLast
<1>3. last = LastGroup(v)
  BY <1>2, LastGroupExists, LastGroupUnique
<1>4. AreGroups(Groups(v), v, last)
  BY DEF AreGroups, Groups
<1> QED
  BY <1>3, <1>4

LEMMA GroupsProperties ==
  ASSUME NEW v \in Nat, v < Pow2[LongBits], NEW k, IsLast(v, k), NEW b, AreGroups(b, v, k)
  PROVE  /\ Coming(b) /\ Complete(b) /\ Len(b) = k /\ k \in Nat /\ k >= 1
         /\ \A n \in 0 .. k - 1 : Group(b[n + 1]) = Digit(v, GroupBits, n + 1)
         /\ \A n \in 0 .. k - 2 : b[n + 1] = Going(Digit(v, GroupBits, n + 1))
         /\ \A n \in 0 .. k : Low(b)[n] = v % Pow2[GroupBits * n]
         /\ Spelled(b) = v
         /\ Len(b) > 1 => Last(b) # 0
<1> DEFINE digit(i) == Digit(v, GroupBits, i)
<1>1. /\ k \in 1 .. LongBits /\ k \in Nat /\ k >= 1 /\ GroupBits \in Nat
      /\ v < Pow2[GroupBits * k] /\ (k > 1 => v >= Pow2[GroupBits * (k - 1)])
  BY Widths DEF IsLast
<1>2. ASSUME NEW i \in 1 .. k PROVE digit(i) \in 0 .. Pow2[GroupBits] - 1
  <2>1. i \in Nat /\ i >= 1
    BY <1>1
  <2> QED
    BY ONLY v \in Nat, <1>1, <2>1, DigitType
<1> HIDE DEF digit
<1>3. \A i \in 1 .. k : b[i] = IF i < k THEN Going(digit(i)) ELSE digit(i)
  BY DEF AreGroups, digit
<1>4. ASSUME NEW i \in 1 .. k
      PROVE  b[i] \in Bytes /\ Group(b[i]) = digit(i) /\ (More(b[i]) <=> i < k)
  <2>1. CASE i < k
    <3>1. b[i] = Going(digit(i))
      BY <1>3, <2>1
    <3> QED
      BY <1>2, <2>1, <3>1, ByteOf
  <2>2. CASE ~(i < k)
    <3>1. b[i] = digit(i)
      BY <1>3, <2>2
    <3> QED
      BY <1>2, <2>2, <3>1, ByteOf
  <2> QED
    BY <2>1, <2>2
<1>5. b \in Seq(Bytes) /\ Len(b) = k /\ DOMAIN b = 1 .. k
  <2>1. b \in [1 .. k -> Bytes]
    <3>1. b = [i \in 1 .. k |-> b[i]]
      BY DEF AreGroups
    <3> QED
      BY <1>4, <3>1
  <2> QED
    BY <1>1, <2>1, FunctionIsSequence
<1>6. Coming(b)
  BY <1>1, <1>4, <1>5 DEF Coming
<1>7. Complete(b)
  <2>1. k \in 1 .. k /\ ~(k < k) /\ k # 0
    BY <1>1
  <2> QED
    BY <1>4, <1>5, <1>6, <2>1, ComingIs
<1>8. \A n \in 0 .. k : Low(b)[n] = v % Pow2[GroupBits * n]
  <2> DEFINE e == GroupsOf(b)
  <2>1. /\ Len(e) = k
        /\ \A i \in 1 .. k : e[i] = Digit(v, GroupBits, i)
    <3>1. e \in [1 .. k -> 0 .. Pow2[GroupBits] - 1]
      BY <1>2, <1>4, <1>5 DEF GroupsOf
    <3>2. \A i \in 1 .. k : e[i] = Digit(v, GroupBits, i)
      BY <1>4, <1>5 DEF GroupsOf, digit
    <3> HIDE DEF e
    <3> QED
      BY <1>1, <3>1, <3>2, FunctionIsSequence
  <2> HIDE DEF e
  <2>2. \A n \in 0 .. k : Lowest(e, GroupBits)[n] = v % Pow2[GroupBits * n]
    <3>1. Len(e) \in Nat /\ \A i \in 1 .. Len(e) : e[i] = Digit(v, GroupBits, i)
      BY <1>1, <2>1
    <3>2. \A n \in 0 .. Len(e) : Lowest(e, GroupBits)[n] = v % Pow2[GroupBits * n]
      <4>1. GroupBits \in Nat
        BY <1>1
      <4> QED
        BY ONLY v \in Nat, <3>1, <4>1, LowestOfDigit
    <3> QED
      BY ONLY <2>1, <3>2
  <2> QED
    BY <2>2 DEF Low, e
<1>9. Spelled(b) = v
  <2>1. k \in 0 .. k /\ Pow2[GroupBits * k] \in Nat /\ Pow2[GroupBits * k] > 0
    BY <1>1, PlaceIs
  <2>2. Spelled(b) = v % Pow2[GroupBits * k]
    BY <1>5, <1>8, <2>1, SpelledIs
  <2> QED
    BY <1>1, <2>1, <2>2, DivisionOrder
<1>10. k > 1 => Last(b) # 0
  <2> SUFFICES ASSUME k > 1 PROVE b[k] # 0
    BY <1>5 DEF Last
  <2> DEFINE p == Pow2[GroupBits * (k - 1)]
             g == Pow2[GroupBits]
             q == v \div p
  <2>1. k - 1 \in Nat /\ 1 \in Nat /\ (k - 1) + 1 = k /\ GroupBits * 1 = GroupBits
    BY <1>1
  <2>2. p \in Nat /\ p > 0 /\ g \in Nat /\ g > 0 /\ Pow2[GroupBits * k] = p * g
    <3> DEFINE j == k - 1
    <3>1. j \in Nat /\ j + 1 = k /\ GroupBits * 1 = GroupBits
      BY <2>1
    <3> HIDE DEF j
    <3>2. /\ Pow2[GroupBits * j] \in Nat /\ Pow2[GroupBits * j] > 0
          /\ Pow2[GroupBits * (j + 1)] = Pow2[GroupBits * j] * Pow2[GroupBits * 1]
      BY ONLY <3>1, PlaceIs
    <3>3. g \in Nat /\ g > 0
      BY <1>1, Pow2Type
    <3> QED
      BY <3>1, <3>2, <3>3 DEF j
  <2>3. v >= p * 1 /\ v < p * g
    BY <1>1, <2>2
  <2> HIDE DEF p, g
  <2>4. q >= 1 /\ q < g /\ q \in Int
    BY <2>2, <2>3, DivisionOrder, DivisionIs
  <2> HIDE DEF q
  <2>5. q % g = q
    BY <2>2, <2>4, DivisionOrder
  <2>6. k \in 1 .. k /\ ~(k < k)
    BY <1>1
  <2>7. b[k] = digit(k)
    BY <1>3, <2>6
  <2>8. digit(k) = q % g
    BY DEF digit, Digit, p, g, q
  <2> QED
    BY <2>4, <2>5, <2>7, <2>8
<1>11. \A n \in 0 .. k - 1 : Group(b[n + 1]) = Digit(v, GroupBits, n + 1)
  BY <1>1, <1>4 DEF digit
<1>12. \A n \in 0 .. k - 2 : b[n + 1] = Going(Digit(v, GroupBits, n + 1))
  BY <1>1, <1>3 DEF digit
<1> QED
  BY <1>1, <1>5, <1>6, <1>7, <1>8, <1>9, <1>10, <1>11, <1>12

(* What remains of a digit in the low and the high part of a number.       *)
LEMMA DigitOfLow ==
  ASSUME NEW v \in Nat, NEW bits \in Nat, NEW i \in Nat, i >= 1,
         NEW w \in Nat, bits * i <= w
  PROVE  Digit(v % Pow2[w], bits, i) = Digit(v, bits, i)
<1> DEFINE l == bits * (i - 1)
           B == Pow2[l]
           g == Pow2[bits]
           c == Pow2[w - bits * i]
<1>1. l \in Nat /\ bits * i = l + bits /\ bits * i \in Nat /\ w - bits * i \in Nat
  <2>1. i - 1 \in Nat /\ i = (i - 1) + 1
    OBVIOUS
  <2>2. \A x, y \in Nat : x * y \in Nat /\ x * (y + 1) = x * y + x
    OBVIOUS
  <2>3. l \in Nat /\ bits * i = l + bits
    BY <2>1, <2>2
  <2> HIDE DEF l
  <2>4. bits * i \in Nat
    BY <2>3
  <2> QED
    BY <2>3, <2>4
<1> DEFINE u == bits * i
<1>2. /\ B \in Nat /\ B > 0 /\ g \in Nat /\ g > 0 /\ c \in Nat /\ c > 0
  BY <1>1, Pow2Type
<1>3. Pow2[w] = Pow2[u] * c /\ Pow2[u] = B * g
  <2>1. Pow2[u] = B * g
    BY <1>1, Pow2Sum
  <2>2. Pow2[w] = Pow2[u] * Pow2[w - u]
    BY <1>1, Pow2Order
  <2> QED
    BY <2>1, <2>2
<1>4. Pow2[w] = B * (g * c)
  <2>1. \A x, y, z \in Nat : (x * y) * z = x * (y * z)
    OBVIOUS
  <2>2. Pow2[w] = (B * g) * c
    BY <1>3
  <2> HIDE DEF B, g, c
  <2> QED
    BY <1>2, <2>1, <2>2
<1> HIDE DEF B, g, c
<1> DEFINE h == g * c
           q == v \div B
<1>5. h \in Nat /\ h > 0 /\ q \in Int
  BY <1>2, DivisionIs
<1>6. (q % h) % g = q % g
  BY <1>2, <1>5, DivisionTwice
<1> HIDE DEF h
<1>7. (v % (B * h)) \div B = q % h
  BY <1>2, <1>5, DivisionTwice
<1>8. (v % Pow2[w]) \div B = q % h
  BY <1>4, <1>7 DEF h
<1>9. \A x : Digit(x, bits, i) = (x \div B) % g
  BY DEF Digit, B, g
<1> QED
  BY <1>6, <1>8, <1>9

LEMMA DigitOfHigh ==
  ASSUME NEW v \in Nat, NEW m \in Nat, NEW j \in Nat, j >= 1
  PROVE  Digit(v \div Pow2[GroupBits * m], GroupBits, j) = Digit(v, GroupBits, m + j)
<1> DEFINE i == j - 1
           B == Pow2[GroupBits * m]
           C == Pow2[GroupBits * i]
<1>1. i \in Nat /\ (m + j) - 1 = m + i
  OBVIOUS
<1>2. /\ B \in Nat /\ B > 0 /\ C \in Nat /\ C > 0
      /\ Pow2[GroupBits * (m + i)] = B * C
  BY <1>1, PlaceIs
<1>3. Digit(v, GroupBits, m + j) = (v \div (B * C)) % Pow2[GroupBits]
  BY <1>1, <1>2 DEF Digit
<1>4. Digit(v \div B, GroupBits, j) = ((v \div B) \div C) % Pow2[GroupBits]
  BY DEF Digit
<1> HIDE DEF B, C
<1>5. v \div (B * C) = (v \div B) \div C
  BY <1>2, DivisionTwice
<1>6. Digit(v \div B, GroupBits, j) = Digit(v, GroupBits, m + j)
  BY <1>3, <1>4, <1>5
<1> QED
  BY <1>6 DEF B

LEMMA MiddleIs ==
  ASSUME NEW a \in Nat, NEW B \in Nat, B > 0, NEW C \in Nat, C > 0, NEW S \in Nat, S > 0
  PROVE  ((a % (B * C)) \div B) + ((a \div (B * C)) % S) * C = (a \div B) % (C * S)
<1> DEFINE q == a \div B
<1>1. q \in Int /\ (a % (B * C)) \div B = q % C /\ a \div (B * C) = q \div C
  BY DivisionIs, DivisionTwice
<1> HIDE DEF q
<1>2. q % (C * S) = (q % C) + C * ((q \div C) % S)
  BY <1>1, DivisionTwice
<1> DEFINE y == (q \div C) % S
<1>3. y \in Int
  <2>1. q \div C \in Int
    BY <1>1, DivisionIs
  <2> QED
    BY <2>1, DivisionIs
<1> HIDE DEF y
<1>4. C * y = y * C
  BY <1>3
<1> QED
  BY <1>1, <1>2, <1>4 DEF q, y

LEMMA LastOfHigh ==
  ASSUME NEW v \in Nat, v < Pow2[LongBits], NEW m \in Nat, m >= 1, v >= Pow2[GroupBits * m],
         NEW w, w = v \div Pow2[GroupBits * m]
  PROVE  /\ w \in Nat /\ w < Pow2[LongBits]
         /\ IsLast(v, m + LastGroup(w))
<1> DEFINE B == Pow2[GroupBits * m]
<1>1. B \in Nat /\ B > 0
  BY PlaceIs
<1>2. /\ w \in Nat /\ w >= 1
      /\ \A c \in Int : v < B * c <=> w < c
      /\ \A c \in Int : B * c <= v <=> c <= w
  <2>1. B * 1 <= v
    BY <1>1
  <2> HIDE DEF B
  <2>2. w = v \div B
    BY DEF B
  <2>3. w \in Int /\ (\A c \in Int : v < B * c <=> w < c)
        /\ (\A c \in Int : B * c <= v <=> c <= w)
    BY <1>1, <2>2, DivisionIs, DivisionOrder
  <2> QED
    BY <2>1, <2>3
<1>3. w < Pow2[LongBits]
  <2>1. Pow2[LongBits] \in Nat
    BY LongestIs
  <2> DEFINE l == Pow2[LongBits]
  <2> HIDE DEF l, B
  <2>2. v < B * l
    <3>1. l <= B * l
      BY <1>1, <2>1 DEF l
    <3>2. v < l /\ l \in Nat /\ B * l \in Int
      BY <1>1, <2>1 DEF l
    <3> QED
      BY <3>1, <3>2
  <2> QED
    BY <1>2, <2>1, <2>2 DEF l
<1> DEFINE k == LastGroup(w)
<1>4. IsLast(w, k)
  BY <1>2, <1>3, LastGroupExists
<1>5. k \in Nat /\ k >= 1 /\ LongBits \in Nat
  BY <1>4, Widths DEF IsLast
<1> HIDE DEF k
<1>6. v < Pow2[GroupBits * (m + k)]
  <2>1. Pow2[GroupBits * (m + k)] = B * Pow2[GroupBits * k] /\ Pow2[GroupBits * k] \in Nat
    BY <1>5, PlaceIs
  <2>2. w < Pow2[GroupBits * k]
    BY <1>4 DEF IsLast
  <2> HIDE DEF B
  <2> QED
    BY <1>2, <2>1, <2>2
<1>7. v >= Pow2[GroupBits * (m + (k - 1))]
  <2> DEFINE j == k - 1
  <2>1. j \in Nat
    BY <1>5
  <2>2. Pow2[GroupBits * (m + j)] = B * Pow2[GroupBits * j] /\ Pow2[GroupBits * j] \in Nat
    BY <2>1, PlaceIs
  <2>3. w >= Pow2[GroupBits * j]
    <3>1. CASE k = 1
      <4>1. GroupBits * j = 0
        BY <3>1, Widths
      <4> QED
        BY <1>2, <4>1, Pow2Is
    <3>2. CASE k > 1
      BY <1>4, <3>2 DEF IsLast
    <3> QED
      BY <1>5, <3>1, <3>2
  <2> HIDE DEF B, j
  <2>4. B * Pow2[GroupBits * j] <= v
    BY <1>2, <2>2, <2>3
  <2>5. v >= Pow2[GroupBits * (m + j)]
    BY <1>1, <2>2, <2>4
  <2> QED
    BY <2>5 DEF j
<1>8. m + k \in 1 .. LongBits
  <2> DEFINE j == m + (k - 1)
  <2>1. j \in Nat /\ m + k = j + 1
    BY <1>5
  <2>2. v >= Pow2[GroupBits * j]
    BY <1>7
  <2> HIDE DEF j
  <2>3. GroupBits * j \in Nat /\ j <= GroupBits * j
    <3>1. \A g, x \in Nat : g >= 3 => g * x \in Nat /\ x <= g * x
      OBVIOUS
    <3> QED
      BY <2>1, <3>1, Widths
  <2>4. GroupBits * j < LongBits
    <3> SUFFICES ASSUME LongBits <= GroupBits * j PROVE FALSE
      BY <1>5, <2>3
    <3>1. Pow2[LongBits] <= Pow2[GroupBits * j]
      BY <1>5, <2>3, Pow2Order
    <3>2. Pow2[LongBits] \in Nat /\ Pow2[GroupBits * j] \in Nat
      BY <1>5, <2>3, Pow2Type
    <3> QED
      BY <2>2, <3>1, <3>2
  <2> QED
    BY <1>5, <2>1, <2>3, <2>4
<1>9. (m + k) - 1 = m + (k - 1)
  BY <1>5
<1>10. IsLast(v, m + k)
  BY <1>6, <1>7, <1>8, <1>9 DEF IsLast
<1> QED
  BY <1>2, <1>3, <1>10 DEF k

LEMMA GroupsUnique ==
  ASSUME NEW v \in Nat, v < Pow2[LongBits], NEW k, IsLast(v, k),
         NEW b \in Seq(Bytes), Len(b) = k,
         \A i \in 1 .. k : b[i] = IF i < k THEN Going(Digit(v, GroupBits, i))
                                  ELSE Digit(v, GroupBits, i)
  PROVE  b = Groups(v)
<1>1. DOMAIN b = 1 .. k /\ b = [i \in DOMAIN b |-> b[i]]
  BY LenProperties
<1>2. AreGroups(b, v, k)
  BY <1>1 DEF AreGroups
<1>3. LastGroup(v) = k
  BY LastGroupExists, LastGroupUnique
<1>4. AreGroups(Groups(v), v, k)
  BY <1>3, GroupsAre
<1> QED
  BY <1>2, <1>4 DEF AreGroups

LEMMA DigitByte ==
  ASSUME NEW v \in Nat, NEW i \in Nat, i >= 1
  PROVE  Digit(v, GroupBits, i) \in Bytes /\ Going(Digit(v, GroupBits, i)) \in Bytes
<1>1. GroupBits \in Nat
  BY Widths
<1>2. Digit(v, GroupBits, i) \in 0 .. Pow2[GroupBits] - 1
  BY <1>1, DigitType
<1> QED
  BY <1>2, ByteOf

LEMMA GroupsSequence ==
  ASSUME NEW v \in Nat, v < Pow2[LongBits]
  PROVE  /\ Groups(v) \in Seq(Bytes) /\ Len(Groups(v)) = LastGroup(v)
         /\ \A i \in 1 .. LastGroup(v) :
              Groups(v)[i] = IF i < LastGroup(v) THEN Going(Digit(v, GroupBits, i))
                             ELSE Digit(v, GroupBits, i)
<1>1. AreGroups(Groups(v), v, LastGroup(v)) /\ IsLast(v, LastGroup(v))
  BY GroupsAre, LastGroupExists
<1>2. Coming(Groups(v)) /\ Len(Groups(v)) = LastGroup(v)
  BY <1>1, GroupsProperties
<1> QED
  BY <1>1, <1>2 DEF Coming, AreGroups

LEMMA EncodeLongIsGroups ==
  ASSUME NEW v \in Nat, v < Pow2[LongBits]
  PROVE  EncodeLong(v) = Groups(v)
<1> DEFINE P == Pow2[IntBits]
           low == v % P
           high == v \div P
           m == LowGroups
           B == Pow2[GroupBits * m]
           C == Pow2[IntBits - GroupBits * m]
           shared == Pow2[GroupBits * (m + 1) - IntBits]
           middle == (low \div B) + (high % shared) * C
           begin == [i \in 1 .. m |-> Going(Digit(low, GroupBits, i))]
<1>1. EncodeLong(v) =
        IF high = 0 THEN Groups(low)
        ELSE begin \o (IF high < shared THEN <<middle>>
                       ELSE <<Going(middle)>> \o Groups(high \div shared))
  BY DEF EncodeLong
<1>2. /\ GroupBits \in Nat /\ IntBits \in Nat /\ m \in Nat /\ m >= 1
      /\ GroupBits * m \in Nat /\ GroupBits * m < IntBits
      /\ GroupBits * (m + 1) = GroupBits * m + GroupBits
      /\ GroupBits * (m + 1) \in Nat /\ IntBits < GroupBits * (m + 1)
  <2>1. GroupBits * (m + 1) = GroupBits * m + GroupBits
    BY Widths, BitposBelow
  <2> QED
    BY <2>1, Widths
<1>3. /\ P \in Nat /\ P > 0 /\ B \in Nat /\ B > 0 /\ C \in Nat /\ C > 0
      /\ shared \in Nat /\ shared > 0
      /\ P = B * C /\ Pow2[GroupBits * (m + 1)] = P * shared
      /\ Pow2[GroupBits] = C * shared /\ P > B
  <2>1. IntBits - GroupBits * m \in Nat /\ GroupBits * (m + 1) - IntBits \in Nat
    BY <1>2
  <2>2. P = B * C
    BY <1>2, Pow2Order
  <2>3. Pow2[GroupBits * (m + 1)] = P * shared
    BY <1>2, Pow2Order
  <2>4. Pow2[GroupBits] = C * shared
    <3>1. GroupBits = (IntBits - GroupBits * m) + (GroupBits * (m + 1) - IntBits)
      BY <1>2
    <3> QED
      BY <2>1, <3>1, Pow2Sum
  <2>5. 2 * B <= P
    BY <1>2, Pow2Order
  <2>6. /\ P \in Nat /\ P > 0 /\ B \in Nat /\ B > 0 /\ C \in Nat /\ C > 0
        /\ shared \in Nat /\ shared > 0
    BY <1>2, <2>1, Pow2Type
  <2> QED
    BY <2>2, <2>3, <2>4, <2>5, <2>6
<1>4. /\ low \in Nat /\ high \in Nat /\ low < P
      /\ v = P * high + low
  <2>1. P \in Nat /\ P > 0 /\ v \in Int /\ v >= 0
    BY <1>3
  <2> HIDE DEF P
  <2>2. high \in Nat /\ low \in 0 .. P - 1 /\ v = P * high + low
    BY ONLY <2>1, DivisionIs
  <2> HIDE DEF low, high
  <2> QED
    BY ONLY <2>1, <2>2
<1>5. CASE high = 0
  <2>1. low = v
    <3>1. P * high = 0
      BY <1>3, <1>5
    <3> QED
      BY <1>4, <3>1
  <2> QED
    BY <1>1, <1>5, <2>1
<1>6. \A i \in 1 .. m : Digit(low, GroupBits, i) = Digit(v, GroupBits, i)
  <2> SUFFICES ASSUME NEW i \in 1 .. m PROVE Digit(low, GroupBits, i) = Digit(v, GroupBits, i)
    OBVIOUS
  <2>1. i \in Nat /\ i >= 1 /\ i <= m
    BY <1>2
  <2>2. GroupBits * i <= GroupBits * m /\ GroupBits * i \in Nat
    BY <1>2, <2>1, BitposBelow
  <2>3. GroupBits * i <= IntBits
    BY <1>2, <2>2
  <2> QED
    BY <1>2, <2>1, <2>3, DigitOfLow
<1>7. middle = Digit(v, GroupBits, m + 1)
  <2>1. (m + 1) - 1 = m
    BY <1>2
  <2>2. Digit(v, GroupBits, m + 1) = (v \div B) % (C * shared)
    BY <1>3, <2>1 DEF Digit
  <2>3. low = v % (B * C) /\ high = v \div (B * C)
    BY <1>3
  <2> HIDE DEF B, C, shared, low, high
  <2>4. ((v % (B * C)) \div B) + ((v \div (B * C)) % shared) * C = (v \div B) % (C * shared)
    <3>1. B \in Nat /\ B > 0 /\ C \in Nat /\ C > 0 /\ shared \in Nat /\ shared > 0
      BY <1>3
    <3> QED
      BY ONLY v \in Nat, <3>1, MiddleIs
  <2> QED
    BY <2>2, <2>3, <2>4
<1>8. begin \in Seq(Bytes) /\ Len(begin) = m
      /\ \A i \in 1 .. m : begin[i] = Going(Digit(v, GroupBits, i))
  <2>1. \A i \in 1 .. m : begin[i] = Going(Digit(v, GroupBits, i))
    BY <1>6
  <2>2. \A i \in 1 .. m : Going(Digit(v, GroupBits, i)) \in Bytes
    <3> SUFFICES ASSUME NEW i \in 1 .. m PROVE Going(Digit(v, GroupBits, i)) \in Bytes
      OBVIOUS
    <3>1. i \in Nat /\ i >= 1
      BY <1>2
    <3> QED
      BY <3>1, DigitByte
  <2>3. begin = [i \in 1 .. m |-> begin[i]]
    OBVIOUS
  <2> HIDE DEF begin
  <2>4. begin \in [1 .. m -> Bytes]
    BY <2>1, <2>2, <2>3
  <2> QED
    BY <1>2, <2>1, <2>4, FunctionIsSequence
<1>9. ASSUME high # 0 PROVE v >= B /\ v >= P
  <2>1. P \in Nat /\ B \in Nat /\ P > B /\ high \in Nat /\ low \in Nat /\ v = P * high + low
        /\ high # 0
    BY <1>3, <1>4, <1>9
  <2> HIDE DEF P, low, high, B
  <2>2. P * high >= P /\ P * high \in Nat
    <3>1. \A x, y \in Nat : y # 0 => x * y >= x /\ x * y \in Nat
      OBVIOUS
    <3> QED
      BY ONLY <2>1, <3>1
  <2> QED
    BY ONLY <2>1, <2>2
<1>10. high < shared <=> v < Pow2[GroupBits * (m + 1)]
  <2>1. v < P * shared <=> high < shared
    <3> HIDE DEF P, shared
    <3> QED
      BY <1>3, DivisionOrder
  <2> QED
    BY <1>3, <2>1
<1>11. middle \in Bytes /\ Going(middle) \in Bytes
  <2>1. m + 1 \in Nat /\ m + 1 >= 1
    BY <1>2
  <2> QED
    BY <1>7, <2>1, DigitByte
<1>12. high \div shared = v \div Pow2[GroupBits * (m + 1)]
  <2>1. v \div (P * shared) = (v \div P) \div shared
    <3> HIDE DEF P, shared
    <3> QED
      BY <1>3, DivisionTwice
  <2> QED
    BY <1>3, <2>1
<1> HIDE DEF P, low, high, B, C, shared, middle, begin
<1>13. CASE high # 0 /\ high < shared
  <2> DEFINE b == begin \o <<middle>>
             k == m + 1
  <2>1. /\ b \in Seq(Bytes) /\ Len(b) = k
        /\ \A i \in 1 .. k : b[i] = IF i <= m THEN begin[i] ELSE <<middle>>[i - m]
    <3>1. <<middle>> \in Seq(Bytes) /\ Len(<<middle>>) = 1
      BY <1>11
    <3> QED
      BY <1>8, <3>1, ConcatProperties
  <2> HIDE DEF b
  <2>2. IsLast(v, k)
    <3>1. v < Pow2[GroupBits * k] /\ k - 1 = m /\ k \in Nat
      BY <1>2, <1>10, <1>13
    <3>2. v >= Pow2[GroupBits * (k - 1)]
      BY <1>9, <1>13, <3>1 DEF B
    <3>3. k \in 1 .. LongBits
      BY <1>2, LongestIs, Widths
    <3> QED
      BY <3>1, <3>2, <3>3 DEF IsLast
  <2>3. \A i \in 1 .. k : b[i] = IF i < k THEN Going(Digit(v, GroupBits, i))
                                 ELSE Digit(v, GroupBits, i)
    <3> SUFFICES ASSUME NEW i \in 1 .. k
                 PROVE  b[i] = IF i < k THEN Going(Digit(v, GroupBits, i))
                               ELSE Digit(v, GroupBits, i)
      OBVIOUS
    <3>1. CASE i <= m
      <4>1. i \in 1 .. m /\ i < k
        BY <1>2, <3>1
      <4> QED
        BY <1>8, <2>1, <3>1, <4>1
    <3>2. CASE i = m + 1
      <4>1. ~(i <= m) /\ ~(i < k) /\ i - m = 1 /\ <<middle>>[1] = middle
        BY <1>2, <3>2
      <4> QED
        BY <1>7, <2>1, <3>2, <4>1
    <3> QED
      BY <1>2, <3>1, <3>2
  <2>4. b = Groups(v)
    BY <2>1, <2>2, <2>3, GroupsUnique
  <2> QED
    BY <1>1, <1>13, <2>4 DEF b
<1>14. CASE high # 0 /\ ~(high < shared)
  <2> DEFINE w == high \div shared
             rest == <<Going(middle)>> \o Groups(w)
             b == begin \o rest
             l == LastGroup(w)
             k == (m + 1) + l
  <2>1. w = v \div Pow2[GroupBits * (m + 1)]
    BY <1>12
  <2> HIDE DEF w
  <2>2. w \in Nat /\ w < Pow2[LongBits] /\ IsLast(v, k)
    <3>1. v >= Pow2[GroupBits * (m + 1)] /\ m + 1 \in Nat /\ m + 1 >= 1
      <4>1. Pow2[GroupBits * (m + 1)] \in Nat
        BY <1>2, Pow2Type
      <4> QED
        BY <1>2, <1>10, <1>14, <4>1
    <3> QED
      BY <2>1, <3>1, LastOfHigh
  <2>3. /\ Groups(w) \in Seq(Bytes) /\ Len(Groups(w)) = l
        /\ \A i \in 1 .. l : Groups(w)[i] = IF i < l THEN Going(Digit(w, GroupBits, i))
                                            ELSE Digit(w, GroupBits, i)
    BY <2>2, GroupsSequence
  <2>4. l \in Nat /\ l >= 1
    BY <2>2, LastGroupExists, Widths DEF IsLast
  <2> HIDE DEF l
  <2>5. /\ rest \in Seq(Bytes) /\ Len(rest) = 1 + l /\ rest[1] = Going(middle)
        /\ \A j \in 1 .. l : rest[1 + j] = Groups(w)[j]
    <3> DEFINE one == <<Going(middle)>>
               more == Groups(w)
    <3>1. one \in Seq(Bytes) /\ Len(one) = 1 /\ one[1] = Going(middle)
      BY <1>11
    <3>2. more \in Seq(Bytes) /\ Len(more) = l
      BY <2>3
    <3> HIDE DEF one, more
    <3>3. /\ one \o more \in Seq(Bytes) /\ Len(one \o more) = 1 + l
          /\ \A i \in 1 .. 1 + l : (one \o more)[i] = IF i <= 1 THEN one[i] ELSE more[i - 1]
      <4>1. /\ one \o more \in Seq(Bytes) /\ Len(one \o more) = Len(one) + Len(more)
            /\ \A i \in 1 .. Len(one) + Len(more) :
                 (one \o more)[i] = IF i <= Len(one) THEN one[i] ELSE more[i - Len(one)]
        BY ONLY <3>1, <3>2, ConcatProperties
      <4> QED
        BY ONLY <3>1, <3>2, <4>1
    <3>4. (one \o more)[1] = one[1]
      BY <2>4, <3>3
    <3>5. \A j \in 1 .. l : (one \o more)[1 + j] = more[j]
      <4> SUFFICES ASSUME NEW j \in 1 .. l PROVE (one \o more)[1 + j] = more[j]
        OBVIOUS
      <4>1. 1 + j \in 1 .. 1 + l /\ ~(1 + j <= 1) /\ (1 + j) - 1 = j
        BY <2>4
      <4> QED
        BY <3>3, <4>1
    <3> QED
      BY <3>1, <3>3, <3>4, <3>5 DEF one, more
  <2> HIDE DEF rest
  <2>6. /\ b \in Seq(Bytes) /\ Len(b) = k
        /\ \A i \in 1 .. k : b[i] = IF i <= m THEN begin[i] ELSE rest[i - m]
    <3>1. /\ b \in Seq(Bytes) /\ Len(b) = m + (1 + l)
          /\ \A i \in 1 .. m + (1 + l) : b[i] = IF i <= m THEN begin[i] ELSE rest[i - m]
      <4>1. /\ b \in Seq(Bytes) /\ Len(b) = Len(begin) + Len(rest)
            /\ \A i \in 1 .. Len(begin) + Len(rest) :
                 b[i] = IF i <= Len(begin) THEN begin[i] ELSE rest[i - Len(begin)]
        BY ONLY <1>8, <2>5, ConcatProperties
      <4> HIDE DEF b
      <4> QED
        BY ONLY <1>8, <2>5, <4>1
    <3>2. m + (1 + l) = k
      BY <1>2, <2>4
    <3> HIDE DEF b, k
    <3> QED
      BY <3>1, <3>2
  <2> HIDE DEF b
  <2>7. ASSUME NEW i \in 1 .. k
        PROVE  b[i] = IF i < k THEN Going(Digit(v, GroupBits, i)) ELSE Digit(v, GroupBits, i)
    <3>1. CASE i <= m
      <4>1. i \in 1 .. m /\ i < k
        BY <1>2, <2>4, <3>1
      <4> QED
        BY <1>8, <2>6, <3>1, <4>1
    <3>2. CASE i = m + 1
      <4>1. ~(i <= m) /\ i < k /\ i - m = 1
        BY <1>2, <2>4, <3>2
      <4> QED
        BY <1>7, <2>5, <2>6, <3>2, <4>1
    <3>3. CASE i > m + 1
      <4> DEFINE j == i - (m + 1)
      <4>1. /\ j \in 1 .. l /\ ~(i <= m) /\ i - m = 1 + j /\ i = (m + 1) + j
            /\ (i < k <=> j < l) /\ j \in Nat /\ j >= 1 /\ m + 1 \in Nat
        BY <1>2, <2>4, <3>3
      <4> HIDE DEF j
      <4>2. b[i] = Groups(w)[j]
        BY <2>5, <2>6, <4>1
      <4>3. Digit(w, GroupBits, j) = Digit(v, GroupBits, i)
        BY <2>1, <4>1, DigitOfHigh
      <4> QED
        BY <2>3, <4>1, <4>2, <4>3
    <3>4. i <= m \/ i = m + 1 \/ i > m + 1
      BY <1>2, <2>4
    <3> QED
      BY <3>1, <3>2, <3>3, <3>4
  <2>8. b = Groups(v)
    <3> HIDE DEF k
    <3> QED
      BY <2>2, <2>6, <2>7, GroupsUnique
  <2> QED
    BY <1>1, <1>14, <2>8 DEF b, rest, w
<1> QED
  BY <1>5, <1>13, <1>14

(***************************************************************************)
(* What is written is read again.                                          *)
(***************************************************************************)
LEMMA EncodedLong ==
  ASSUME NEW v \in Nat, v < Pow2[LongBits]
  PROVE  LET b == EncodeLong(v)
         IN  /\ Coming(b) /\ Complete(b) /\ Spelled(b) = v
             /\ Len(b) = LastGroup(v) /\ LastGroup(v) <= LongestVarint
             /\ Len(b) > 1 => Last(b) # 0
             /\ AreGroups(b, v, LastGroup(v)) /\ IsLast(v, LastGroup(v))
<1>1. /\ EncodeLong(v) = Groups(v)
      /\ AreGroups(Groups(v), v, LastGroup(v)) /\ IsLast(v, LastGroup(v))
      /\ LastGroup(v) <= LongestVarint
  BY EncodeLongIsGroups, GroupsAre, LastGroupExists
<1> DEFINE b == EncodeLong(v)
           k == LastGroup(v)
<1>2. AreGroups(b, v, k) /\ IsLast(v, k) /\ k <= LongestVarint
  BY <1>1
<1> HIDE DEF b, k
<1>3. /\ Coming(b) /\ Complete(b) /\ Spelled(b) = v /\ Len(b) = k
      /\ Len(b) > 1 => Last(b) # 0
  BY <1>2, GroupsProperties
<1> QED
  BY <1>2, <1>3 DEF b, k

LEMMA LongReread == ASSUME NEW v \in Longs PROVE LongRereads(v)
<1>1. v \in Nat /\ v < Pow2[LongBits]
  BY LongestIs DEF Longs
<1> DEFINE b == EncodeLong(v)
           r == DecodeLong(b, FromBuffer(b))
<1>2. /\ Coming(b) /\ Complete(b) /\ Spelled(b) = v /\ Len(b) <= LongestVarint
      /\ Len(b) > 1 => Last(b) # 0
  BY <1>1, EncodedLong
<1> HIDE DEF b
<1>3. Reader(r, b, Spelled(b), Len(b) <= LongestVarint /\ Spelled(b) < Pow2[LongBits])
  BY <1>2, LongReader
<1> HIDE DEF r
<1>4. Rereads(r, b, v)
  BY <1>1, <1>2, <1>3 DEF Reader
<1> QED
  BY <1>2, <1>4 DEF LongRereads, b, r

(* A number just below a power of two has ones in its high bits.           *)
LEMMA HighOnes ==
  ASSUME NEW L \in Nat, NEW p \in Nat, p <= L, NEW j \in Nat, j >= 1, j <= Pow2[p],
         NEW v, v = Pow2[L] - j
  PROVE  v \div Pow2[p] = Pow2[L - p] - 1
<1> DEFINE a == Pow2[p]
           c == Pow2[L - p]
<1>1. L - p \in Nat
  OBVIOUS
<1>2. a \in Nat /\ a > 0 /\ c \in Nat /\ c > 0 /\ Pow2[L] = a * c
  BY <1>1, Pow2Type, Pow2Order
<1>3. j <= a /\ v = a * c - j
  BY <1>2
<1> HIDE DEF a, c
<1>4. a * (c - 1) = a * c - a /\ a * c \in Int
  BY <1>2
<1>5. v = a * (c - 1) + (a - j) /\ a - j \in 0 .. a - 1 /\ c - 1 \in Int /\ v \in Int
  BY <1>2, <1>3, <1>4
<1>6. v \div a = c - 1
  BY <1>2, <1>5, DivisionUnique
<1> QED
  BY <1>6 DEF a, c

LEMMA LowOnes ==
  ASSUME NEW a \in Nat, NEW c \in Nat, c <= a
  PROVE  (Pow2[a] - 1) % Pow2[c] = Pow2[c] - 1
<1> DEFINE p == Pow2[c]
           q == Pow2[a - c]
<1>1. p \in Nat /\ p > 0 /\ q \in Nat /\ Pow2[a] = p * q
  <2>1. a - c \in Nat
    OBVIOUS
  <2> QED
    BY <2>1, Pow2Type, Pow2Order
<1> HIDE DEF p, q
<1>2. p * (q - 1) = p * q - p /\ p * q \in Int
  BY <1>1
<1>3. /\ Pow2[a] - 1 = p * (q - 1) + (p - 1) /\ p - 1 \in 0 .. p - 1
      /\ q - 1 \in Int /\ Pow2[a] - 1 \in Int
  BY <1>1, <1>2
<1>4. (Pow2[a] - 1) % p = p - 1
  BY <1>1, <1>3, DivisionUnique
<1> QED
  BY <1>4 DEF p

(* The digits of a negative int that is written as a long.                 *)
LEMMA NegativeDigits ==
  ASSUME NEW j \in Nat, j >= 1, j <= Pow2[IntBits - 1], NEW v, v = Pow2[LongBits] - j
  PROVE  /\ v \in Nat /\ v < Pow2[LongBits] /\ LastGroup(v) = LongestVarint
         /\ \A n \in 0 .. LongestVarint - 1 :
              GroupBits * n >= IntBits - 1 =>
                v \div Pow2[GroupBits * n] = Pow2[LongBits - GroupBits * n] - 1
         /\ v % Pow2[IntBits] = Pow2[IntBits] - j
<1>1. /\ IntBits \in Nat /\ LongBits \in Nat /\ IntBits < LongBits /\ GroupBits \in Nat
      /\ IntBits - 1 \in Nat /\ LastLong \in Nat /\ LastLong < LongBits
      /\ LongestVarint - 1 \in Nat /\ LastLong = GroupBits * (LongestVarint - 1)
      /\ IntBits - 1 <= LongBits - 1 /\ LongBits - 1 \in Nat
      /\ (LongBits - 1) + 1 = LongBits /\ (IntBits - 1) + 1 = IntBits
      /\ LastLong <= LongBits - 1
  BY Widths
<1> DEFINE h == Pow2[LongBits - 1]
           P == Pow2[IntBits]
           L == Pow2[LongBits]
           Q == Pow2[LongBits - IntBits]
<1>2. /\ h \in Nat /\ h > 0 /\ L = 2 * h /\ j <= h /\ P \in Nat /\ P > 0
      /\ P = 2 * Pow2[IntBits - 1] /\ Pow2[IntBits - 1] \in Nat /\ Pow2[LastLong] <= h
      /\ Pow2[LastLong] \in Nat
  <2>1. h \in Nat /\ h > 0 /\ Pow2[IntBits - 1] \in Nat /\ P \in Nat /\ P > 0 /\ Pow2[LastLong] \in Nat
    BY <1>1, Pow2Type
  <2>2. Pow2[IntBits - 1] <= h
    BY <1>1, Pow2Order
  <2>3. Pow2[LastLong] <= h
    BY <1>1, Pow2Order
  <2>4. Pow2[(LongBits - 1) + 1] = 2 * h /\ Pow2[(IntBits - 1) + 1] = 2 * Pow2[IntBits - 1]
    BY <1>1, Pow2Is
  <2> HIDE DEF h, P
  <2> QED
    BY <1>1, <2>1, <2>2, <2>3, <2>4 DEF P
<1>3. v \in Nat /\ v < L /\ v >= h
  BY <1>2
<1>4. IsLast(v, LongestVarint)
  <2>1. v >= Pow2[GroupBits * (LongestVarint - 1)]
    BY <1>1, <1>2, <1>3
  <2>2. v < Pow2[GroupBits * LongestVarint]
    <3>1. GroupBits * LongestVarint \in Nat
      BY Widths, BitposBelow
    <3>2. Pow2[GroupBits * LongestVarint] \in Nat
      BY <3>1, Pow2Type
    <3> QED
      BY <1>3, <3>2, LongestIs
  <2> QED
    BY <2>1, <2>2, LongestIs DEF IsLast
<1>5. LastGroup(v) = LongestVarint
  BY <1>3, <1>4, LastGroupExists, LastGroupUnique
<1>6. ASSUME NEW n \in 0 .. LongestVarint - 1, GroupBits * n >= IntBits - 1
      PROVE  v \div Pow2[GroupBits * n] = Pow2[LongBits - GroupBits * n] - 1
  <2> DEFINE p == GroupBits * n
  <2>1. n \in Nat /\ n <= LongestVarint - 1
    BY <1>1
  <2>2. p \in Nat /\ p <= LastLong
    BY <1>1, <2>1, BitposBelow
  <2>3. p >= IntBits - 1
    BY <1>6
  <2> HIDE DEF p
  <2>4. p <= LongBits /\ IntBits - 1 <= p
    BY <1>1, <2>2, <2>3
  <2>5. Pow2[IntBits - 1] <= Pow2[p] /\ Pow2[p] \in Nat
    BY <1>1, <2>2, <2>4, Pow2Order, Pow2Type
  <2>6. j <= Pow2[p]
    BY <1>2, <2>5
  <2>7. v \div Pow2[p] = Pow2[LongBits - p] - 1
    BY <1>1, <2>2, <2>4, <2>6, HighOnes
  <2> QED
    BY <2>7 DEF p
<1>7. v % P = P - j
  <2>1. Q \in Nat /\ L = P * Q
    <3>1. LongBits - IntBits \in Nat /\ IntBits <= LongBits
      BY <1>1
    <3> QED
      BY <1>1, <3>1, Pow2Type, Pow2Order
  <2>2. j <= P
    BY <1>2
  <2>3. v = P * Q - j
    BY <2>1
  <2> HIDE DEF P, Q, L
  <2>4. P * (Q - 1) = P * Q - P /\ P * Q \in Int
    BY <1>2, <2>1
  <2> DEFINE c == Q - 1
             r == P - j
  <2>5. v = P * c + r /\ r \in 0 .. P - 1 /\ c \in Int /\ v \in Int /\ P \in Nat /\ P > 0
    BY <1>2, <2>1, <2>2, <2>3, <2>4
  <2> HIDE DEF c, r
  <2>6. v % P = r
    BY ONLY <2>5, DivisionUnique
  <2> QED
    BY <2>6 DEF r
<1> QED
  BY <1>3, <1>5, <1>6, <1>7

(* What a group says of the number it ends in: its high part and one bit.  *)
SaysOf(digit, q, half, C, S) ==
  digit \div C = (q \div C) % S /\ (digit \div half) % 2 = (q \div half) % 2

LEMMA GroupSplits ==
  ASSUME NEW q \in Nat, NEW half \in Nat, half > 0, NEW C, C = 2 * half,
         NEW S \in Nat, S > 0, NEW digit, digit = q % (C * S)
  PROVE  SaysOf(digit, q, half, C, S)
<1>1. C \in Nat /\ C > 0
  OBVIOUS
<1>2. (q % (C * S)) \div C = (q \div C) % S
  BY ONLY <1>1, q \in Nat, S \in Nat, S > 0, DivisionTwice
<1> DEFINE T == 2 * S
           e == q \div half
<1>3. T \in Nat /\ T > 0 /\ C * S = half * T /\ e \in Int
  <2>1. \A a, c \in Nat : (2 * a) * c = a * (2 * c)
    OBVIOUS
  <2>2. e \in Int
    BY DivisionIs
  <2> QED
    BY <2>1, <2>2
<1> HIDE DEF T
<1>4. (q % (half * T)) \div half = e % T
  BY ONLY <1>3, q \in Nat, half \in Nat, half > 0, DivisionTwice DEF e
<1> HIDE DEF e
<1>5. (e % (2 * S)) % 2 = e % 2
  BY ONLY <1>3, S \in Nat, S > 0, DivisionTwice
<1>6. digit \div half = e % T
  BY ONLY <1>3, <1>4, digit = q % (C * S)
<1>7. (digit \div half) % 2 = e % 2
  BY ONLY <1>5, <1>6 DEF T
<1> QED
  BY <1>2, <1>7 DEF e, SaysOf

(* A negative int is taken: all its bits above an int's are ones.          *)
LEMMA NegativeTaken ==
  ASSUME NEW j \in Nat, j >= 1, j <= Pow2[IntBits - 1], NEW v, v = Pow2[LongBits] - j,
         NEW b, b = EncodeLong(v)
  PROVE  Taken(LowOfInt(b), "int", b, Len(b))
<1>1. /\ v \in Nat /\ v < Pow2[LongBits] /\ LastGroup(v) = LongestVarint
      /\ \A n \in 0 .. LongestVarint - 1 :
           GroupBits * n >= IntBits - 1 =>
             v \div Pow2[GroupBits * n] = Pow2[LongBits - GroupBits * n] - 1
      /\ v % Pow2[IntBits] = Pow2[IntBits] - j
  BY NegativeDigits
<1>2. /\ Coming(b) /\ Complete(b) /\ Spelled(b) = v /\ Len(b) = LongestVarint
      /\ AreGroups(b, v, LongestVarint) /\ IsLast(v, LongestVarint)
  BY <1>1, EncodedLong
<1>3. /\ \A n \in 0 .. LongestVarint - 1 : Group(b[n + 1]) = Digit(v, GroupBits, n + 1)
      /\ \A n \in 0 .. LongestVarint - 2 : b[n + 1] = Going(Digit(v, GroupBits, n + 1))
      /\ \A n \in 0 .. LongestVarint : Low(b)[n] = v % Pow2[GroupBits * n]
  BY <1>1, <1>2, GroupsProperties
<1>4. /\ GroupBits \in Nat /\ GroupBits >= 3 /\ IntBits \in Nat /\ LongBits \in Nat
      /\ IntBits + GroupBits < LongBits /\ GroupBits < IntBits
      /\ LowGroups \in Nat /\ LowGroups >= 1 /\ GroupBits * LowGroups \in Nat
      /\ GroupBits * LowGroups < IntBits /\ IntBits < GroupBits * LowGroups + GroupBits
      /\ LongestVarint \in Nat /\ LongestVarint >= LowGroups + 2
      /\ LastLong \in Nat /\ LastLong = GroupBits * (LongestVarint - 1)
      /\ LastLong < LongBits /\ LongBits < LastLong + GroupBits
  BY Widths
<1>5. \A bitpos, u, x : Valid("int", bitpos, u, x) =
        IF bitpos >= IntBits THEN Extends(bitpos, u, x) ELSE Splits(bitpos, x)
  BY DEF Valid, IntValid
<1> SUFFICES ASSUME NEW n \in 0 .. LongestVarint - 1
             PROVE  Valid("int", GroupBits * n, LowOfInt(b)[n], b[n + 1])
  BY <1>2 DEF Taken
<1> DEFINE bitpos == GroupBits * n
           x == b[n + 1]
           q == v \div Pow2[bitpos]
           digit == Group(x)
<1>6. n \in Nat /\ n <= LongestVarint - 1 /\ (n + 1) - 1 = n
  BY <1>4
<1>7. bitpos \in Nat /\ bitpos <= LastLong /\ (n < LongestVarint - 1 => bitpos + GroupBits <= LastLong)
  <2>1. LongestVarint - 1 \in Nat
    BY <1>4
  <2>2. bitpos <= LastLong
    BY <1>4, <1>6, <2>1, BitposBelow
  <2>3. n < LongestVarint - 1 => bitpos + GroupBits <= LastLong
    <3> SUFFICES ASSUME n < LongestVarint - 1 PROVE bitpos + GroupBits <= LastLong
      OBVIOUS
    <3>1. n + 1 \in Nat /\ n + 1 <= LongestVarint - 1
      BY <1>6, <2>1
    <3>2. GroupBits * (n + 1) <= GroupBits * (LongestVarint - 1)
      BY <2>1, <3>1, BitposBelow
    <3>3. GroupBits * (n + 1) = bitpos + GroupBits
      BY <1>6, BitposBelow
    <3> QED
      BY <1>4, <3>2, <3>3
  <2>4. bitpos \in Nat
    BY <1>6, BitposBelow
  <2> QED
    BY <2>2, <2>3, <2>4
<1>8. digit = q % Pow2[GroupBits]
  BY <1>3, <1>6 DEF Digit
<1>9. bitpos >= IntBits - 1 => q = Pow2[LongBits - bitpos] - 1
  BY <1>1
<1>10. n < LongestVarint - 1 => x = Going(digit)
  BY <1>3, <1>4, <1>6
<1>11. LowOfInt(b)[n] = (v % Pow2[bitpos]) % Pow2[IntBits]
  <2>1. n \in 0 .. Len(b) /\ n \in 0 .. LongestVarint
    BY <1>2, <1>4
  <2> QED
    BY <1>3, <2>1 DEF LowOfInt
<1>12. x \in Bytes /\ (n = LongestVarint - 1 => ~More(x))
  <2>1. /\ \A i \in 1 .. Len(b) : b[i] \in Bytes
        /\ ~More(b[Len(b)])
    BY <1>2, ComingIs
  <2>2. n + 1 \in 1 .. Len(b) /\ (n = LongestVarint - 1 => n + 1 = Len(b))
    BY <1>2, <1>4
  <2> QED
    BY <2>1, <2>2
<1> HIDE DEF bitpos, x, q, digit
<1>13. CASE bitpos >= IntBits
  <2>1. LowOfInt(b)[n] >= Pow2[IntBits - 1]
    <3> DEFINE P == Pow2[IntBits]
               c == Pow2[bitpos - IntBits]
    <3>1. bitpos - IntBits \in Nat /\ IntBits <= bitpos
      BY <1>4, <1>7, <1>13
    <3>2. P \in Nat /\ P > 0 /\ c \in Nat /\ c > 0 /\ Pow2[bitpos] = P * c
      BY <1>4, <1>7, <3>1, Pow2Type, Pow2Order
    <3>3. (v % Pow2[bitpos]) % P = v % P
      <4> HIDE DEF P, c
      <4>1. v \in Int
        BY <1>1
      <4>2. (v % (P * c)) % P = v % P
        BY ONLY <3>2, <4>1, DivisionTwice
      <4> QED
        BY <3>2, <4>2
    <3>4. P = 2 * Pow2[IntBits - 1] /\ Pow2[IntBits - 1] \in Nat
      <4>1. IntBits - 1 \in Nat /\ (IntBits - 1) + 1 = IntBits
        BY <1>4
      <4>2. Pow2[(IntBits - 1) + 1] = 2 * Pow2[IntBits - 1]
        BY <4>1, Pow2Is
      <4> QED
        BY <4>1, <4>2, Pow2Type
    <3>5. LowOfInt(b)[n] = P - j
      BY <1>1, <1>11, <3>3
    <3> HIDE DEF P
    <3> QED
      BY <3>4, <3>5
  <2>2. bitpos < LongBits
    BY <1>4, <1>7
  <2>3. q = Pow2[LongBits - bitpos] - 1 /\ LongBits - bitpos \in Nat
    BY <1>4, <1>7, <1>9, <1>13
  <2>4. x = SignExtension(bitpos)
    <3>1. CASE n < LongestVarint - 1
      <4>1. bitpos < LastLong /\ GroupBits <= LongBits - bitpos
        BY <1>4, <1>7, <3>1
      <4>2. digit = Pow2[GroupBits] - 1
        BY <1>4, <1>8, <2>3, <4>1, LowOnes
      <4>3. x = 2 * Pow2[GroupBits] - 1 /\ Pow2[GroupBits] \in Nat
        BY <1>4, <1>10, <3>1, <4>2, Pow2Type DEF Going
      <4>4. Pow2[GroupBits + 1] = 2 * Pow2[GroupBits]
        BY <1>4, Pow2Is
      <4> QED
        BY <4>1, <4>3, <4>4 DEF SignExtension
    <3>2. CASE n = LongestVarint - 1
      <4>1. bitpos = LastLong
        BY <1>4, <3>2 DEF bitpos
      <4>2. q = Pow2[LongBits - LastLong] - 1
        BY <2>3, <4>1
      <4>3. digit = q
        <5> DEFINE e == LongBits - LastLong
                   p == Pow2[e]
                   g == Pow2[GroupBits]
        <5>1. e \in Nat /\ e <= GroupBits
          BY <1>4
        <5>2. p <= g /\ p \in Nat /\ p > 0 /\ g \in Nat /\ g > 0
          BY <1>4, <5>1, Pow2Order, Pow2Type
        <5> HIDE DEF e, p, g
        <5>3. q = p - 1
          BY <4>2 DEF p, e
        <5>4. 0 <= q /\ q < g /\ q \in Int
          BY <5>2, <5>3
        <5>5. q % g = q
          BY <5>2, <5>4, DivisionOrder
        <5> QED
          BY <1>8, <5>5 DEF g
      <4>4. x = digit
        BY <1>12, <3>2, ByteIs DEF digit
      <4>5. ~(bitpos < LastLong)
        BY <1>4, <4>1
      <4> QED
        BY <4>2, <4>3, <4>4, <4>5 DEF SignExtension
    <3> QED
      BY <1>4, <1>6, <3>1, <3>2
  <2>5. Extends(bitpos, LowOfInt(b)[n], x)
    BY <2>1, <2>2, <2>4 DEF Extends
  <2> QED
    BY <1>5, <1>13, <2>5 DEF bitpos, x
<1>14. CASE ~(bitpos >= IntBits)
  <2>1. n <= LowGroups
    <3> SUFFICES ASSUME n > LowGroups PROVE FALSE
      BY <1>4, <1>6
    <3>1. LowGroups + 1 <= n /\ LowGroups + 1 \in Nat
      BY <1>4, <1>6
    <3>2. GroupBits * (LowGroups + 1) <= bitpos
      BY <1>6, <3>1, BitposBelow DEF bitpos
    <3>3. GroupBits * (LowGroups + 1) = GroupBits * LowGroups + GroupBits
      BY <1>4, BitposBelow
    <3> QED
      BY <1>4, <1>7, <1>14, <3>2, <3>3
  <2>2. Splits(bitpos, x)
    <3>1. CASE n < LowGroups
      <4>1. n + 1 \in Nat /\ n + 1 <= LowGroups
        BY <1>4, <1>6, <3>1
      <4>2. GroupBits * (n + 1) <= GroupBits * LowGroups /\ GroupBits * (n + 1) = bitpos + GroupBits
        BY <1>4, <1>6, <4>1, BitposBelow DEF bitpos
      <4>3. IntBits - bitpos >= GroupBits
        BY <1>4, <1>7, <4>2
      <4> QED
        BY <4>3 DEF Splits
    <3>2. CASE n = LowGroups
      <4> DEFINE kept == IntBits - bitpos
                 half == Pow2[kept - 1]
                 C == Pow2[kept]
                 S == Pow2[GroupBits - kept]
      <4>1. bitpos = GroupBits * LowGroups /\ kept \in Nat /\ kept >= 1 /\ kept < GroupBits
            /\ kept - 1 \in Nat /\ (kept - 1) + 1 = kept /\ GroupBits - kept \in Nat
            /\ GroupBits - kept >= 1
            /\ kept <= GroupBits /\ kept - 1 <= GroupBits
        BY <1>4, <1>7, <3>2 DEF bitpos
      <4>2. /\ half \in Nat /\ half > 0 /\ C = 2 * half /\ S \in Nat /\ S > 0 /\ C \in Nat /\ C > 0
            /\ Pow2[GroupBits] = C * S
        <5>1. Pow2[(kept - 1) + 1] = 2 * half
          BY <4>1, Pow2Is
        <5> QED
          BY <1>4, <4>1, <5>1, Pow2Type, Pow2Order
      <4>3. digit = q % (C * S)
        BY <1>8, <4>2
      <4>4. /\ q \div C = v \div Pow2[IntBits]
            /\ q \div half = v \div Pow2[IntBits - 1]
            /\ q \in Nat
        <5> DEFINE B == Pow2[bitpos]
        <5>1. B \in Nat /\ B > 0
          BY <1>7, Pow2Type
        <5>2. Pow2[IntBits] = B * C /\ Pow2[IntBits - 1] = B * half
          <6>1. IntBits = bitpos + kept /\ IntBits - 1 = bitpos + (kept - 1)
            BY <1>4, <1>7
          <6> HIDE DEF kept
          <6> QED
            BY <1>7, <4>1, <6>1, Pow2Sum
        <5>3. q = v \div B
          BY DEF q
        <5> HIDE DEF B, C, half
        <5>4. v \div (B * C) = (v \div B) \div C
          BY ONLY <1>1, <4>2, <5>1, DivisionTwice
        <5>5. v \div (B * half) = (v \div B) \div half
          BY ONLY <1>1, <4>2, <5>1, DivisionTwice
        <5>6. v \div B \in Nat
          BY ONLY <1>1, <5>1, DivisionIs
        <5> QED
          BY ONLY <5>2, <5>3, <5>4, <5>5, <5>6
      <4>5. (q \div C) % S = S - 1
        <5> DEFINE a == LongBits - IntBits
                   c == GroupBits - kept
        <5>1. j <= Pow2[IntBits] /\ IntBits <= LongBits
          <6>1. IntBits - 1 \in Nat /\ IntBits - 1 <= IntBits
            BY <1>4
          <6>2. Pow2[IntBits - 1] <= Pow2[IntBits] /\ Pow2[IntBits - 1] \in Nat
                /\ Pow2[IntBits] \in Nat
            BY <1>4, <6>1, Pow2Order, Pow2Type
          <6> QED
            BY <1>4, <6>2
        <5>2. v \div Pow2[IntBits] = Pow2[a] - 1
          BY <1>4, <5>1, HighOnes
        <5>3. a \in Nat /\ c \in Nat /\ c <= a
          BY <1>4, <4>1
        <5> HIDE DEF a, c
        <5>4. (Pow2[a] - 1) % Pow2[c] = Pow2[c] - 1
          BY ONLY <5>3, LowOnes
        <5> QED
          BY <4>4, <5>2, <5>4 DEF c
      <4>6. (q \div half) % 2 = 1
        <5> DEFINE p == IntBits - 1
                   a == LongBits - p
        <5>1. p \in Nat /\ p <= LongBits /\ a \in Nat /\ 1 <= a
          BY <1>4
        <5>2. v \div Pow2[p] = Pow2[a] - 1
          BY <1>4, <5>1, HighOnes
        <5>3. Pow2[1] = 2
          <6>1. Pow2[0 + 1] = 2 * Pow2[0] /\ Pow2[0] = 1
            BY Pow2Is
          <6> QED
            BY <6>1
        <5> HIDE DEF a
        <5>4. (Pow2[a] - 1) % Pow2[1] = Pow2[1] - 1
          BY <5>1, LowOnes
        <5> QED
          BY <4>4, <5>2, <5>3, <5>4
      <4> HIDE DEF half, C, S
      <4>7. digit \div C = S - 1 /\ (digit \div half) % 2 = 1
        <5>1. /\ q \in Nat /\ half \in Nat /\ half > 0 /\ C = 2 * half
              /\ S \in Nat /\ S > 0 /\ digit = q % (C * S)
          BY <4>2, <4>3, <4>4
        <5>2. SaysOf(digit, q, half, C, S)
          BY ONLY <5>1, GroupSplits
        <5> QED
          BY ONLY <4>5, <4>6, <5>2 DEF SaysOf
      <4> QED
        BY <4>7 DEF Splits, S, C, half, digit
    <3> QED
      BY <1>4, <1>6, <2>1, <3>1, <3>2
  <2> QED
    BY <1>5, <1>14, <2>2 DEF bitpos, x
<1> QED
  BY <1>13, <1>14

(* The bits of a number in two's complement.                               *)
LEMMA BitsType ==
  ASSUME NEW width \in Nat, NEW n \in Int
  PROVE  Bits(width, n) \in Nat /\ Bits(width, n) < Pow2[width]
<1> DEFINE p == Pow2[width]
<1>1. p \in Nat /\ p > 0
  BY Pow2Type
<1> HIDE DEF p
<1>2. n % p \in 0 .. p - 1
  BY <1>1, DivisionIs
<1> QED
  BY <1>1, <1>2 DEF Bits, p

LEMMA BitsOf ==
  ASSUME NEW width \in Nat, NEW n \in Int, n < Pow2[width], -n <= Pow2[width]
  PROVE  Bits(width, n) = IF n >= 0 THEN n ELSE Pow2[width] + n
<1> DEFINE p == Pow2[width]
<1>1. p \in Nat /\ p > 0
  BY Pow2Type
<1> HIDE DEF p
<1>2. CASE n >= 0
  <2>1. n % p = n
    BY <1>1, <1>2, DivisionOrder DEF p
  <2> QED
    BY <1>2, <2>1 DEF Bits, p
<1>3. CASE n < 0
  <2>1. n = p * (-1) + (p + n) /\ p + n \in 0 .. p - 1
    BY <1>1, <1>3 DEF p
  <2>2. n % p = p + n
    BY <1>1, <2>1, DivisionUnique
  <2> QED
    BY <1>3, <2>2 DEF Bits, p
<1> QED
  BY <1>2, <1>3

LEMMA SignedType ==
  ASSUME NEW width \in Nat, width >= 1, NEW bits \in Nat, bits < Pow2[width]
  PROVE  /\ Signed(width, bits) \in Int
         /\ -Pow2[width - 1] <= Signed(width, bits)
         /\ Signed(width, bits) < Pow2[width - 1]
<1>1. width - 1 \in Nat /\ (width - 1) + 1 = width
  OBVIOUS
<1>2. Pow2[(width - 1) + 1] = 2 * Pow2[width - 1] /\ Pow2[width - 1] \in Nat
  BY <1>1, Pow2Is, Pow2Type
<1>3. Pow2[width] = 2 * Pow2[width - 1]
  BY <1>1, <1>2
<1> QED
  BY <1>2, <1>3 DEF Signed

(* An int is read as it was written.                                       *)
LEMMA IntReread ==
  ASSUME NEW i \in Int, -Pow2[IntBits - 1] <= i, i < Pow2[IntBits - 1]
  PROVE  IntRereads(i)
<1>1. /\ IntBits \in Nat /\ LongBits \in Nat /\ IntBits < LongBits
      /\ IntBits - 1 \in Nat /\ IntBits - 1 <= IntBits /\ IntBits <= LongBits
  BY Widths
<1>2. /\ Pow2[IntBits - 1] <= Pow2[IntBits] /\ Pow2[IntBits] <= Pow2[LongBits]
      /\ Pow2[IntBits - 1] \in Nat /\ Pow2[IntBits] \in Nat /\ Pow2[LongBits] \in Nat
  BY <1>1, Pow2Order, Pow2Type
<1> DEFINE v == Bits(LongBits, i)
           b == EncodeLong(v)
           r == DecodeInt(b, FromBuffer(b))
<1>3. v = IF i >= 0 THEN i ELSE Pow2[LongBits] + i
  BY <1>1, <1>2, BitsOf
<1>4. v \in Nat /\ v < Pow2[LongBits]
  BY <1>1, BitsType
<1>5. Bits(IntBits, i) = IF i >= 0 THEN i ELSE Pow2[IntBits] + i
  BY <1>1, <1>2, BitsOf
<1> HIDE DEF v
<1>6. /\ Coming(b) /\ Complete(b) /\ Spelled(b) = v
      /\ Len(b) <= LongestVarint
  BY <1>4, EncodedLong
<1>7. Reader(r, b, Bits(IntBits, Spelled(b)), Taken(LowOfInt(b), "int", b, Len(b)))
  BY <1>6, IntReader
<1>8. CASE i >= 0
  <2>1. v = i /\ v < Pow2[IntBits]
    BY <1>2, <1>3, <1>8
  <2> HIDE DEF b, r
  <2>2. Taken(LowOfInt(b), "int", b, Len(b))
    BY <1>6, <2>1, IntTaken
  <2>3. Rereads(r, b, Bits(IntBits, i))
    BY <1>6, <1>7, <2>1, <2>2 DEF Reader
  <2> QED
    BY <2>3 DEF IntRereads, r, b, v
<1>9. CASE i < 0
  <2> DEFINE j == -i
  <2>1. j \in Nat /\ j >= 1 /\ j <= Pow2[IntBits - 1] /\ v = Pow2[LongBits] - j
    BY <1>2, <1>3, <1>9
  <2>2. Taken(LowOfInt(b), "int", b, Len(b))
    <3> HIDE DEF j
    <3> QED
      BY <2>1, NegativeTaken
  <2>3. v % Pow2[IntBits] = Pow2[IntBits] - j
    <3> HIDE DEF j
    <3> QED
      BY <2>1, NegativeDigits
  <2>4. Bits(IntBits, v) = Bits(IntBits, i)
    BY <1>2, <1>5, <1>9, <2>3 DEF Bits
  <2> HIDE DEF b, r
  <2>5. Rereads(r, b, Bits(IntBits, i))
    BY <1>6, <1>7, <2>2, <2>4 DEF Reader
  <2> QED
    BY <2>5 DEF IntRereads, r, b, v
<1> QED
  BY <1>8, <1>9

(* Zigzag: a signed number is read as it was written.                      *)
LEMMA SignedReads ==
  ASSUME NEW b, NEW s, NEW r, r = DecodeLong(b, s)
  PROVE  DecodeSigned(b, s) =
           IF r.ok THEN Ok(r.s, IF r.v % 2 = 1 THEN -(r.v \div 2) - 1 ELSE r.v \div 2) ELSE r
BY DEF DecodeSigned, Then

Zigzag(n) == IF n >= 0 THEN 2 * n ELSE -2 * n - 1

LEMMA ZigzagIs ==
  ASSUME NEW n \in Int, -Pow2[LongBits - 1] <= n, n < Pow2[LongBits - 1]
  PROVE  /\ EncodeSigned(n) = EncodeLong(Zigzag(n))
         /\ Zigzag(n) \in Nat /\ Zigzag(n) < Pow2[LongBits]
         /\ n = IF Zigzag(n) % 2 = 1 THEN -(Zigzag(n) \div 2) - 1 ELSE Zigzag(n) \div 2
<1> DEFINE h == Pow2[LongBits - 1]
           P == Pow2[LongBits]
<1>1. LongBits \in Nat /\ LongBits - 1 \in Nat /\ (LongBits - 1) + 1 = LongBits
  BY Widths
<1>2. h \in Nat /\ h > 0 /\ P = 2 * h /\ P \in Nat
  <2>1. Pow2[(LongBits - 1) + 1] = 2 * Pow2[LongBits - 1]
    BY <1>1, Pow2Is
  <2> QED
    BY <1>1, <2>1, Pow2Type
<1>3. CASE n >= 0
  <2>1. Bits(LongBits, 2 * n) = 2 * n
    <3>1. 2 * n \in Int /\ 2 * n < P /\ -(2 * n) <= P /\ 2 * n >= 0
      BY <1>2, <1>3
    <3> QED
      BY <1>1, <3>1, BitsOf
  <2>2. Zigzag(n) = 2 * n /\ EncodeSigned(n) = EncodeLong(2 * n)
    BY <1>3, <2>1 DEF Zigzag, EncodeSigned
  <2>3. (2 * n) % 2 = 0 /\ (2 * n) \div 2 = n /\ 2 * n \in Nat /\ 2 * n < P
    BY <1>2, <1>3
  <2> QED
    BY <2>2, <2>3
<1>4. CASE n < 0
  <2> DEFINE u == -2 * n - 1
  <2>1. Bits(LongBits, n) = P + n
    BY <1>1, <1>2, <1>4, BitsOf
  <2>2. (P + n) % h = h + n
    <3> HIDE DEF h, P
    <3>1. P + n = h * 1 + (h + n) /\ h + n \in 0 .. h - 1 /\ P + n \in Int
      BY <1>2, <1>4 DEF h
    <3> QED
      BY <1>2, <3>1, DivisionUnique
  <2>3. P - 1 - 2 * (h + n) = u
    <3> HIDE DEF h, P
    <3> QED
      BY <1>2
  <2>4. Zigzag(n) = u /\ EncodeSigned(n) = EncodeLong(u)
    BY <1>4, <2>1, <2>2, <2>3 DEF Zigzag, EncodeSigned
  <2>5. u % 2 = 1 /\ u \div 2 = -n - 1 /\ u \in Nat /\ u < P /\ -(u \div 2) - 1 = n
    <3>1. u = 2 * (-n - 1) + 1 /\ u \in Int /\ -n - 1 \in Int
      BY <1>4
    <3>2. u \div 2 = -n - 1 /\ u % 2 = 1
      BY <3>1, DivisionUnique
    <3>3. u \in Nat /\ u < P
      <4> HIDE DEF h, P
      <4> QED
        BY <1>2, <1>4 DEF h
    <3> QED
      BY <3>2, <3>3
  <2> HIDE DEF u
  <2> QED
    BY <2>4, <2>5
<1> QED
  BY <1>3, <1>4

LEMMA SignedReread ==
  ASSUME NEW n \in Int, -Pow2[LongBits - 1] <= n, n < Pow2[LongBits - 1]
  PROVE  SignedRereads(n)
<1> DEFINE u == Zigzag(n)
           b == EncodeLong(u)
           s == FromBuffer(b)
           r == DecodeLong(b, s)
           w == IF u % 2 = 1 THEN -(u \div 2) - 1 ELSE u \div 2
<1>1. EncodeSigned(n) = b /\ u \in Nat /\ u < Pow2[LongBits] /\ n = w
  BY ZigzagIs
<1> HIDE DEF u
<1>2. /\ Coming(b) /\ Complete(b) /\ Spelled(b) = u /\ Len(b) <= LongestVarint
  BY <1>1, EncodedLong
<1> HIDE DEF b
<1>3. Reader(r, b, Spelled(b), Len(b) <= LongestVarint /\ Spelled(b) < Pow2[LongBits])
  BY <1>2, LongReader
<1>4. DecodeSigned(b, s) =
        IF r.ok THEN Ok(r.s, IF r.v % 2 = 1 THEN -(r.v \div 2) - 1 ELSE r.v \div 2) ELSE r
  BY SignedReads
<1> HIDE DEF r
<1>5. r.ok = TRUE /\ Rereads(r, b, u)
  BY <1>1, <1>2, <1>3 DEF Reader
<1>6. r.v = u /\ r.s.at = Len(b) /\ r.s.left = 0
  BY <1>5 DEF Rereads, Consumes
<1>7. DecodeSigned(b, s) = Ok(r.s, w)
  BY ONLY <1>4, <1>5, <1>6
<1>8. Rereads(DecodeSigned(b, s), b, n)
  BY <1>1, <1>6, <1>7 DEF Rereads, Consumes, Ok
<1> QED
  BY <1>1, <1>8 DEF SignedRereads

(* A number of so many bytes is read as it was written.                    *)
LEMMA FixedReads ==
  ASSUME NEW b, NEW s, NEW width, NEW r, r = Read(b, s, FixedBytes(width))
  PROVE  DecodeFixed(b, s, width) =
           IF r.ok THEN Ok(r.s, FromDigits(r.v, GroupBits + 1)) ELSE r
BY DEF DecodeFixed, Then

LEMMA FixedWidth ==
  ASSUME NEW width \in {IntBits, LongBits}
  PROVE  /\ width \in Nat /\ width >= 1
         /\ FixedBytes(width) \in Nat /\ FixedBytes(width) >= 1
         /\ (GroupBits + 1) * FixedBytes(width) = width
<1> DEFINE g == GroupBits + 1
           k == FixedBytes(width)
<1>1. g \in Nat /\ g > 0 /\ width \in Nat /\ width >= 1 /\ width % g = 0
  BY Widths, PbWireAssumption
<1>2. k = width \div g
  BY DEF FixedBytes
<1> HIDE DEF g, k
<1>3. width = g * k + 0 /\ k \in Nat
  BY <1>1, <1>2, DivisionIs
<1>4. k # 0
  BY <1>1, <1>3
<1> QED
  BY <1>1, <1>3, <1>4 DEF g, k

LEMMA FixedReread ==
  ASSUME NEW width \in {IntBits, LongBits}, NEW bits \in Nat, bits < Pow2[width]
  PROVE  FixedRereads(bits, width)
<1> DEFINE g == GroupBits + 1
           k == FixedBytes(width)
           b == EncodeFixed(bits, width)
           s == FromBuffer(b)
           bytes == Slice(b, 0, k)
           t == [at |-> k, left |-> 0, callback |-> FALSE, over |-> FALSE]
<1>1. width \in Nat /\ k \in Nat /\ k >= 1 /\ g * k = width /\ g \in Nat
  BY FixedWidth, Widths
<1> HIDE DEF g, k
<1>2. \A i \in 1 .. k : Digit(bits, g, i) \in 0 .. Pow2[g] - 1
  BY <1>1, DigitType
<1>3. b = [i \in 1 .. k |-> Digit(bits, g, i)]
  BY DEF EncodeFixed, g, k
<1> HIDE DEF b
<1>4. b \in [1 .. k -> 0 .. Pow2[g] - 1]
  BY <1>2, <1>3
<1>5. b \in Seq(0 .. Pow2[g] - 1) /\ Len(b) = k /\ DOMAIN b = 1 .. k
  BY <1>1, <1>4, FunctionIsSequence
<1>6. bytes = [i \in 1 .. k |-> Digit(bits, g, i)]
  <2>1. \A i \in 1 .. k : 0 + i = i
    BY <1>1
  <2> QED
    BY <1>3, <1>5, <2>1 DEF Slice
<1>7. /\ Len(bytes) = k
      /\ \A i \in 1 .. k : bytes[i] = Digit(bits, g, i)
  <2>1. bytes = b
    BY <1>3, <1>6
  <2> QED
    BY <1>3, <1>5, <2>1
<1> HIDE DEF bytes
<1>8. FromDigits(bytes, g) = bits
  <2>1. \A n \in 0 .. k : Lowest(bytes, g)[n] = bits % Pow2[g * n]
    <3>1. Len(bytes) \in Nat /\ \A i \in 1 .. Len(bytes) : bytes[i] = Digit(bits, g, i)
      BY <1>1, <1>7
    <3>2. \A n \in 0 .. Len(bytes) : Lowest(bytes, g)[n] = bits % Pow2[g * n]
      BY ONLY <1>1, <3>1, bits \in Nat, LowestOfDigit
    <3> QED
      BY <1>7, <3>2
  <2>2. FromDigits(bytes, g) = Lowest(bytes, g)[k]
    BY <1>1, <1>7, FromDigitsIs
  <2>3. FromDigits(bytes, g) = bits % Pow2[width]
    BY <1>1, <2>1, <2>2
  <2>4. Pow2[width] \in Nat /\ Pow2[width] > 0
    BY <1>1, Pow2Type
  <2> QED
    BY <2>3, <2>4, DivisionOrder
<1>9. Read(b, s, k) = Ok(t, bytes)
  <2>1. s.at = 0 /\ s.left = k /\ s.callback = FALSE /\ s.over = FALSE
    BY <1>5 DEF FromBuffer
  <2>2. k # 0 /\ ~(s.left < k) /\ ~(s.at + k > Len(b)) /\ Slice(b, s.at, k) = bytes
        /\ s.at + k = k /\ s.left - k = 0
    BY <1>1, <1>5, <2>1 DEF bytes
  <2>3. t = [at |-> s.at + k, left |-> s.left - k, callback |-> s.callback,
             over |-> s.over \/ s.at + k > Len(b)]
    <3>1. (s.over \/ s.at + k > Len(b)) = FALSE
      BY <2>1, <2>2
    <3> HIDE DEF s
    <3> QED
      BY <2>1, <2>2, <3>1
  <2> HIDE DEF s, t
  <2> QED
    BY <2>1, <2>2, <2>3 DEF Read
<1>10. t.at = k /\ t.left = 0
  OBVIOUS
<1> HIDE DEF t
<1> DEFINE r == Ok(t, bytes)
<1>11. r.ok = TRUE /\ r.s = t /\ r.v = bytes
  BY DEF Ok
<1> HIDE DEF r
<1>12. DecodeFixed(b, s, width) =
         IF r.ok THEN Ok(r.s, FromDigits(r.v, GroupBits + 1)) ELSE r
  BY <1>9, FixedReads DEF r, k
<1>13. DecodeFixed(b, s, width) = Ok(t, bits)
  BY ONLY <1>8, <1>11, <1>12 DEF g
<1>14. Rereads(DecodeFixed(b, s, width), b, bits)
  BY <1>5, <1>10, <1>13 DEF Rereads, Consumes, Ok
<1> QED
  BY <1>14 DEF FixedRereads, b

(***************************************************************************)
(* The specification: an input that is built as a varint is one that may   *)
(* go on, whatever its bytes.                                              *)
(***************************************************************************)
WireInv == subject = "varint" => Coming(input)

LEMMA WireStart == WireInit => WireInv
<1>1. Coming(<<>>)
  <2>1. <<>> \in Seq(Bytes) /\ Len(<<>>) = 0
    OBVIOUS
  <2> QED
    BY <2>1 DEF Coming
<1> QED
  BY <1>1 DEF WireInit, WireInv

LEMMA WireStep == WireInv /\ [WireNext]_vars => WireInv'
<1> SUFFICES ASSUME WireInv, [WireNext]_vars, subject' = "varint"
             PROVE  Coming(input')
  BY DEF WireInv
<1>1. CASE ExtendVarint
  <2>1. PICK item \in Octets : input' = Append(input, item)
    BY <1>1 DEF ExtendVarint, Extend
  <2>2. /\ subject = "varint" /\ subject' = subject
        /\ input # <<>> => More(Last(input))
    BY <1>1 DEF ExtendVarint, Extend
  <2>3. /\ input \in Seq(Bytes) /\ item \in Bytes
        /\ \A i \in 1 .. Len(input) - 1 : More(input[i])
    BY <2>2, WireFormatAssumption DEF WireInv, Coming
  <2>4. /\ Append(input, item) \in Seq(Bytes)
        /\ Len(Append(input, item)) = Len(input) + 1 /\ Len(input) \in Nat
        /\ \A i \in 1 .. Len(input) : Append(input, item)[i] = input[i]
    BY <2>3, AppendProperties, LenProperties
  <2>5. \A i \in 1 .. Len(input) : More(input[i])
    <3> SUFFICES ASSUME NEW i \in 1 .. Len(input) PROVE More(input[i])
      OBVIOUS
    <3>1. input # <<>>
      BY <2>3, EmptySeq
    <3>2. CASE i = Len(input)
      BY <2>2, <3>1, <3>2 DEF Last
    <3>3. CASE i # Len(input)
      BY <2>3, <2>4, <3>3
    <3> QED
      BY <3>2, <3>3
  <2> QED
    BY <2>1, <2>4, <2>5 DEF Coming
<1>2. CASE subject # "varint" /\ UNCHANGED subject
  BY <1>2
<1>3. CASE UNCHANGED vars
  BY <1>3 DEF vars, WireInv
<1> QED
  BY <1>1, <1>2, <1>3 DEF WireNext

LEMMA WireExactly == WireInv => WireFormatExact
<1> SUFFICES ASSUME WireInv, subject = "varint"
             PROVE  LET spelled == Spelled(input)
                        n == Signed(LongBits, Bits(LongBits, spelled))
                    IN  /\ ReadsExactly(input)
                        /\ LongRereads(Bits(LongBits, spelled))
                        /\ IntRereads(Signed(IntBits, Bits(IntBits, spelled)))
                        /\ SignedRereads(n)
                        /\ \A width \in {IntBits, LongBits} : FixedRereads(Bits(width, n), width)
  BY DEF WireFormatExact
<1> DEFINE spelled == Spelled(input)
           v == Bits(LongBits, spelled)
           low == Bits(IntBits, spelled)
           i == Signed(IntBits, low)
           n == Signed(LongBits, v)
<1>1. Coming(input)
  BY DEF WireInv
<1>2. spelled \in Nat
  BY <1>1, SpelledIs DEF Coming
<1>3. IntBits \in Nat /\ LongBits \in Nat /\ IntBits >= 1 /\ LongBits >= 1
  BY Widths
<1> HIDE DEF spelled
<1>4. v \in Nat /\ v < Pow2[LongBits] /\ low \in Nat /\ low < Pow2[IntBits]
  <2>1. spelled \in Int
    BY <1>2
  <2>2. v \in Nat /\ v < Pow2[LongBits]
    BY ONLY <1>3, <2>1, BitsType
  <2>3. low \in Nat /\ low < Pow2[IntBits]
    BY ONLY <1>3, <2>1, BitsType
  <2> QED
    BY <2>2, <2>3
<1> HIDE DEF v, low
<1>5. i \in Int /\ -Pow2[IntBits - 1] <= i /\ i < Pow2[IntBits - 1]
  BY <1>3, <1>4, SignedType
<1>6. n \in Int /\ -Pow2[LongBits - 1] <= n /\ n < Pow2[LongBits - 1]
  BY <1>3, <1>4, SignedType
<1> HIDE DEF i, n
<1>7. ReadsExactly(input)
  BY <1>1, ReadExactly
<1>8. LongRereads(v)
  <2>1. v \in Longs
    BY <1>3, <1>4, Pow2Type DEF Longs
  <2> QED
    BY <2>1, LongReread
<1>9. IntRereads(i)
  BY <1>5, IntReread
<1>10. SignedRereads(n)
  BY <1>6, SignedReread
<1>11. ASSUME NEW width \in {IntBits, LongBits} PROVE FixedRereads(Bits(width, n), width)
  <2>1. width \in Nat
    BY <1>3
  <2>2. Bits(width, n) \in Nat /\ Bits(width, n) < Pow2[width]
    BY <1>6, <2>1, BitsType
  <2> QED
    BY <2>2, FixedReread
<1> QED
  BY <1>7, <1>8, <1>9, <1>10, <1>11 DEF i, n, v, low, spelled

(* Whatever the widths: a varint is read as the number its groups spell,   *)
(* with everything WireFormatExact says of writing and reading it again    *)
(* (pb_decode_varint and pb_encode_varint, their int, signed and fixed     *)
(* forms).                                                                 *)
THEOREM WireExact == WireSpec => []WireFormatExact
<1>1. WireInit => WireInv
  BY WireStart
<1>2. WireInv /\ [WireNext]_vars => WireInv'
  BY WireStep
<1>3. WireInv => WireFormatExact
  BY WireExactly
<1> QED
  BY <1>1, <1>2, <1>3, PTL DEF WireSpec

-----------------------------------------------------------------------------
(***************************************************************************)
(* StringHelpers.  A text that is put together piece by piece is the last  *)
(* of its prefixes, each the one before it and a piece; a scan of it is at *)
(* the end of a piece whenever it was at the end of the one before.  A     *)
(* recursive function exists, so what its body says of a place holds of    *)
(* it, and what holds at the end of a string holds, place by place, back   *)
(* to the beginning.                                                       *)
(***************************************************************************)
(* The first k sequences behind one another.                               *)
Joined(seqs, k) == IF k = 0 THEN <<>> ELSE Flatten(seqs, Len(seqs))[k]

LEMMA JoinedIs ==
  ASSUME NEW S, NEW seqs, NEW n \in Nat, AreSequences(seqs, n, S)
  PROVE  /\ Joined(seqs, 0) = <<>>
         /\ \A k \in 0 .. n - 1 : Joined(seqs, k + 1) = Joined(seqs, k) \o seqs[k + 1]
         /\ FlattenSeq(seqs) = Joined(seqs, n)
<1> DEFINE flat == Flatten(seqs, n)
<1>1. Len(seqs) = n /\ \A i \in 1 .. n : seqs[i] \in Seq(S)
  BY DEF AreSequences
<1>2. \A i \in 1 .. n : flat[i] = IF i = 1 THEN seqs[i] ELSE flat[i - 1] \o seqs[i]
  BY FlattenSeqIs
<1>3. (n = 0 => FlattenSeq(seqs) = <<>>) /\ (n # 0 => FlattenSeq(seqs) = flat[n])
  BY FlattenSeqIs
<1> HIDE DEF flat
<1>4. \A k : Joined(seqs, k) = IF k = 0 THEN <<>> ELSE flat[k]
  BY <1>1 DEF Joined, flat
<1>5. ASSUME NEW k \in 0 .. n - 1
      PROVE  Joined(seqs, k + 1) = Joined(seqs, k) \o seqs[k + 1]
  <2>1. k + 1 \in 1 .. n /\ k + 1 # 0 /\ (k + 1) - 1 = k
    OBVIOUS
  <2>2. /\ Joined(seqs, k + 1) = flat[k + 1]
        /\ (k = 0 => Joined(seqs, k) = <<>>) /\ (k # 0 => Joined(seqs, k) = flat[k])
    BY <1>4, <2>1
  <2>3. /\ k = 0 => flat[k + 1] = seqs[k + 1]
        /\ k # 0 => flat[k + 1] = flat[k] \o seqs[k + 1]
    <3> DEFINE j == k + 1
    <3>1. j \in 1 .. n /\ j - 1 = k /\ (j = 1 <=> k = 0)
      OBVIOUS
    <3> HIDE DEF j
    <3>2. /\ j = 1 => flat[j] = seqs[j]
          /\ j # 1 => flat[j] = flat[j - 1] \o seqs[j]
      BY <1>2, <3>1
    <3> QED
      BY <3>1, <3>2 DEF j
  <2>4. CASE k = 0
    <3>1. seqs[k + 1] \in Seq(S)
      BY <1>1, <2>1
    <3>2. <<>> \o seqs[k + 1] = seqs[k + 1]
      BY <3>1
    <3> QED
      BY <2>4, <2>2, <2>3, <3>2
  <2>5. CASE k # 0
    BY <2>1, <2>5, <2>2, <2>3
  <2> QED
    BY <2>4, <2>5
<1>6. Joined(seqs, 0) = <<>> /\ Joined(seqs, n) = IF n = 0 THEN <<>> ELSE flat[n]
  BY <1>4
<1> QED
  BY <1>3, <1>5, <1>6

LEMMA JoinedType ==
  ASSUME NEW S, NEW seqs, NEW n \in Nat, AreSequences(seqs, n, S)
  PROVE  \A k \in 0 .. n : Joined(seqs, k) \in Seq(S)
<1> DEFINE P == {k \in Nat : k <= n => Joined(seqs, k) \in Seq(S)}
<1>1. 0 \in P
  <2>1. Joined(seqs, 0) = <<>>
    BY JoinedIs
  <2>2. <<>> \in Seq(S)
    OBVIOUS
  <2> QED
    BY <2>1, <2>2
<1>2. ASSUME NEW k \in Nat, k \in P PROVE k + 1 \in P
  <2> SUFFICES ASSUME k + 1 <= n PROVE Joined(seqs, k + 1) \in Seq(S)
    OBVIOUS
  <2>1. k \in 0 .. n - 1 /\ k + 1 \in 1 .. n
    OBVIOUS
  <2>2. Joined(seqs, k) \in Seq(S) /\ seqs[k + 1] \in Seq(S)
    BY <1>2, <2>1 DEF AreSequences
  <2>3. Joined(seqs, k + 1) = Joined(seqs, k) \o seqs[k + 1]
    BY <2>1, JoinedIs
  <2> QED
    BY <2>2, <2>3, ConcatProperties
<1> HIDE DEF P
<1>3. \A k \in Nat : k \in P
  BY <1>1, <1>2, NaturalInduction
<1> QED
  BY <1>3 DEF P

(* Each sequence stands where the ones before it end.                      *)
IsPiece(whole, at, piece) ==
  /\ at + Len(piece) <= Len(whole)
  /\ \A x \in 1 .. Len(piece) : whole[at + x] = piece[x]

LEMMA PieceAt ==
  ASSUME NEW S, NEW seqs, NEW n \in Nat, AreSequences(seqs, n, S)
  PROVE  \A k \in 0 .. n - 1 :
           /\ Len(Joined(seqs, k)) \in Nat
           /\ Len(Joined(seqs, k + 1)) = Len(Joined(seqs, k)) + Len(seqs[k + 1])
           /\ IsPiece(FlattenSeq(seqs), Len(Joined(seqs, k)), seqs[k + 1])
<1> SUFFICES ASSUME NEW k \in 0 .. n - 1
             PROVE  /\ Len(Joined(seqs, k)) \in Nat
                    /\ Len(Joined(seqs, k + 1)) = Len(Joined(seqs, k)) + Len(seqs[k + 1])
                    /\ IsPiece(FlattenSeq(seqs), Len(Joined(seqs, k)), seqs[k + 1])
  OBVIOUS
<1> DEFINE at == Len(Joined(seqs, k))
           piece == seqs[k + 1]
           P == {m \in Nat : k + 1 + m <= n => IsPiece(Joined(seqs, k + 1 + m), at, piece)}
<1>1. Joined(seqs, k) \in Seq(S) /\ piece \in Seq(S)
  BY JoinedType DEF AreSequences
<1>2. Joined(seqs, k + 1) = Joined(seqs, k) \o piece
  BY JoinedIs
<1>3. /\ at \in Nat /\ Len(piece) \in Nat
      /\ Len(Joined(seqs, k + 1)) = at + Len(piece)
      /\ \A x \in 1 .. Len(piece) : Joined(seqs, k + 1)[at + x] = piece[x]
  BY <1>1, <1>2, ConcatProperties, LenProperties
<1> HIDE DEF at, piece
<1>4. 0 \in P
  BY <1>3 DEF IsPiece
<1>5. ASSUME NEW m \in Nat, m \in P PROVE m + 1 \in P
  <2> SUFFICES ASSUME k + 1 + (m + 1) <= n
               PROVE  IsPiece(Joined(seqs, k + 1 + (m + 1)), at, piece)
    OBVIOUS
  <2> DEFINE j == k + 1 + m
  <2>1. j \in 0 .. n - 1 /\ j + 1 \in 1 .. n /\ j \in 0 .. n /\ k + 1 + (m + 1) = j + 1
    OBVIOUS
  <2>2. IsPiece(Joined(seqs, j), at, piece)
    BY <1>5
  <2> HIDE DEF j
  <2>3. Joined(seqs, j + 1) = Joined(seqs, j) \o seqs[j + 1]
    BY <2>1, JoinedIs
  <2>4. Joined(seqs, j) \in Seq(S) /\ seqs[j + 1] \in Seq(S)
    BY <2>1, JoinedType DEF AreSequences
  <2>5. /\ Len(Joined(seqs, j)) \in Nat /\ Len(seqs[j + 1]) \in Nat
        /\ Len(Joined(seqs, j + 1)) = Len(Joined(seqs, j)) + Len(seqs[j + 1])
        /\ \A x \in 1 .. Len(Joined(seqs, j)) : Joined(seqs, j + 1)[x] = Joined(seqs, j)[x]
    BY <2>3, <2>4, ConcatProperties, LenProperties
  <2>6. \A x \in 1 .. Len(piece) : at + x \in 1 .. Len(Joined(seqs, j))
    BY <1>3, <2>2, <2>5 DEF IsPiece
  <2>7. IsPiece(Joined(seqs, j + 1), at, piece)
    BY <1>3, <2>2, <2>5, <2>6 DEF IsPiece
  <2> QED
    BY <2>1, <2>7
<1> HIDE DEF P
<1>6. n - (k + 1) \in P
  <2>1. n - (k + 1) \in Nat
    OBVIOUS
  <2> QED
    BY <1>4, <1>5, <2>1, NaturalInduction
<1>7. IsPiece(Joined(seqs, n), at, piece)
  BY <1>6 DEF P
<1>8. FlattenSeq(seqs) = Joined(seqs, n)
  BY JoinedIs
<1> QED
  BY <1>3, <1>7, <1>8 DEF at, piece

(* A function that is defined from its values at places of lesser measure. *)
Local(step, D, V, m) ==
  \A x \in D : \A g, h \in [D -> V] :
    (\A y \in D : m[y] < m[x] => g[y] = h[y]) => step[x][g] = step[x][h]

Measures(m, D, N) == m \in [D -> Nat] /\ \A x \in D : m[x] < N
Steps(step, D, V) == step \in [D -> [[D -> V] -> V]]
Solvable(step, D, V) == \E f \in [D -> V] : \A x \in D : f[x] = step[x][f]

LEMMA RecursionExists ==
  ASSUME NEW D, NEW V, NEW v \in V, NEW N \in Nat, NEW m, Measures(m, D, N),
         NEW step, Steps(step, D, V), Local(step, D, V, m)
  PROVE  Solvable(step, D, V)
<1>1. /\ m \in [D -> Nat] /\ \A x \in D : m[x] < N
      /\ step \in [D -> [[D -> V] -> V]]
  BY DEF Measures, Steps
<1> DEFINE Upto(f, n) == \A x \in D : m[x] < n => f[x] = step[x][f]
           P == {n \in Nat : \E f \in [D -> V] : Upto(f, n)}
<1>2. 0 \in P
  <2>1. [x \in D |-> v] \in [D -> V]
    OBVIOUS
  <2>2. Upto([x \in D |-> v], 0)
    BY <1>1
  <2> QED
    BY <2>1, <2>2
<1>3. ASSUME NEW n \in Nat, n \in P PROVE n + 1 \in P
  <2>1. PICK f \in [D -> V] : Upto(f, n)
    BY <1>3
  <2> DEFINE g == [x \in D |-> IF m[x] < n THEN f[x] ELSE step[x][f]]
  <2>2. g \in [D -> V]
    BY <1>1
  <2>3. ASSUME NEW x \in D, m[x] < n + 1 PROVE g[x] = step[x][g]
    <3>1. m[x] \in Nat /\ \A y \in D : m[y] \in Nat
      BY <1>1
    <3>2. g[x] = step[x][f]
      BY <1>1, <2>1
    <3>3. \A y \in D : m[y] < m[x] => f[y] = g[y]
      BY <2>3, <3>1
    <3> HIDE DEF g
    <3>4. step[x][f] = step[x][g]
      BY <2>2, <3>3 DEF Local
    <3> QED
      BY <3>2, <3>4
  <2> HIDE DEF g
  <2>4. Upto(g, n + 1)
    BY <2>3
  <2> QED
    BY <2>2, <2>4
<1> HIDE DEF P
<1>4. N \in P
  BY <1>2, <1>3, NaturalInduction
<1>5. PICK f \in [D -> V] : Upto(f, N)
  BY <1>4 DEF P
<1>6. \A x \in D : f[x] = step[x][f]
  BY <1>1, <1>5
<1> QED
  BY <1>6 DEF Solvable

-----------------------------------------------------------------------------
(* Escapes: a raw character has one letter and a letter one character.     *)
Pairs(e, c, letter) == e = <<c, letter>> /\ e[1] = c /\ e[2] = letter

LEMMA EscapeCases ==
  ASSUME NEW e \in Escapes
  PROVE  \/ Pairs(e, "\f", "f") \/ Pairs(e, "\n", "n") \/ Pairs(e, "\r", "r")
         \/ Pairs(e, "\t", "t") \/ Pairs(e, Backslash, Backslash) \/ Pairs(e, Quote, Quote)
<1>1. \/ e = <<"\f", "f">> \/ e = <<"\n", "n">> \/ e = <<"\r", "r">> \/ e = <<"\t", "t">>
      \/ e = <<Backslash, Backslash>> \/ e = <<Quote, Quote>>
  BY DEF Escapes
<1> QED
  BY <1>1 DEF Pairs

LEMMA SameEscape ==
  ASSUME NEW e \in Escapes, NEW f \in Escapes, e[1] = f[1] \/ e[2] = f[2]
  PROVE  e = f
<1>1. CASE Pairs(e, "\f", "f")
  BY <1>1, EscapeCases DEF Pairs, Backslash, Quote
<1>2. CASE Pairs(e, "\n", "n")
  BY <1>2, EscapeCases DEF Pairs, Backslash, Quote
<1>3. CASE Pairs(e, "\r", "r")
  BY <1>3, EscapeCases DEF Pairs, Backslash, Quote
<1>4. CASE Pairs(e, "\t", "t")
  BY <1>4, EscapeCases DEF Pairs, Backslash, Quote
<1>5. CASE Pairs(e, Backslash, Backslash)
  BY <1>5, EscapeCases DEF Pairs, Backslash, Quote
<1>6. CASE Pairs(e, Quote, Quote)
  BY <1>6, EscapeCases DEF Pairs, Backslash, Quote
<1> QED
  BY <1>1, <1>2, <1>3, <1>4, <1>5, <1>6, EscapeCases

LEMMA EscapeFacts ==
  /\ Backslash \in MustEscape /\ Quote \in MustEscape /\ Backslash # Quote
  /\ \A c \in MustEscape :
       /\ LetterOf(c) \in Letters /\ LetterOf(c) # "u"
       /\ CharacterOf(LetterOf(c)) = c
<1>1. <<Backslash, Backslash>> \in Escapes /\ <<Quote, Quote>> \in Escapes
  BY DEF Escapes
<1>2. Backslash \in MustEscape /\ Quote \in MustEscape /\ Backslash # Quote
  <2>1. <<Backslash, Backslash>>[1] = Backslash /\ <<Quote, Quote>>[1] = Quote
    OBVIOUS
  <2>2. Backslash # Quote
    BY DEF Backslash, Quote
  <2> QED
    BY <1>1, <2>1, <2>2 DEF MustEscape
<1>3. ASSUME NEW c \in MustEscape
      PROVE  /\ LetterOf(c) \in Letters /\ LetterOf(c) # "u"
             /\ CharacterOf(LetterOf(c)) = c
  <2>1. \E e \in Escapes : e[1] = c
    BY DEF MustEscape
  <2> DEFINE e == CHOOSE e \in Escapes : e[1] = c
  <2>2. e \in Escapes /\ e[1] = c
    BY <2>1
  <2>3. LetterOf(c) = e[2]
    BY DEF LetterOf
  <2> HIDE DEF e
  <2>4. e[2] # "u"
    BY <2>2, EscapeCases DEF Pairs, Backslash, Quote
  <2> DEFINE f == CHOOSE f \in Escapes : f[2] = e[2]
  <2>5. f \in Escapes /\ f[2] = e[2]
    BY <2>2
  <2>6. CharacterOf(e[2]) = f[1]
    BY DEF CharacterOf
  <2> HIDE DEF f
  <2>7. f = e
    BY <2>2, <2>5, SameEscape
  <2> QED
    BY <2>2, <2>3, <2>4, <2>6, <2>7 DEF Letters
<1> QED
  BY <1>2, <1>3

EscapePiece(c) == IF c \in MustEscape THEN <<Backslash, LetterOf(c)>> ELSE <<c>>
EscapePieces(s) == [i \in DOMAIN s |-> EscapePiece(s[i])]

LEMMA EscapeIs == ASSUME NEW s PROVE Escape(s) = FlattenSeq(EscapePieces(s))
BY DEF Escape, EscapePieces, EscapePiece

(* What mjson_pass_string finds from a place on.                           *)
EndFrom(f, s, i) ==
  IF i > Len(s) THEN -1
  ELSE IF s[i] = Backslash /\ i < Len(s) /\ s[i + 1] \in MustEscape THEN f[i + 2]
  ELSE IF s[i] = Quote THEN i - 1 ELSE f[i + 1]
IsEnd(f, s) == f = [i \in 1 .. Len(s) + 2 |-> EndFrom(f, s, i)]
EndOf(s) == CHOOSE f : IsEnd(f, s)

LEMMA PassStringIs == ASSUME NEW s PROVE PassString(s) = EndOf(s)[1]
BY DEF PassString, EndOf, IsEnd, EndFrom

LEMMA EndIs ==
  ASSUME NEW s, Len(s) \in Nat
  PROVE  \A i \in 1 .. Len(s) + 2 : EndOf(s)[i] = EndFrom(EndOf(s), s, i)
<1> DEFINE D == 1 .. Len(s) + 2
           m == [i \in D |-> Len(s) + 2 - i]
           step == [i \in D |-> [g \in [D -> Int] |-> EndFrom(g, s, i)]]
<1>1. m \in [D -> Nat] /\ \A i \in D : m[i] < Len(s) + 2
  OBVIOUS
<1>2. ASSUME NEW i \in D, NEW g \in [D -> Int] PROVE EndFrom(g, s, i) \in Int
  BY DEF EndFrom
<1>3. step \in [D -> [[D -> Int] -> Int]]
  <2> HIDE DEF D
  <2> QED
    BY <1>2
<1>4. Local(step, D, Int, m)
  <2> SUFFICES ASSUME NEW i \in D, NEW g \in [D -> Int], NEW h \in [D -> Int],
                      \A k \in D : m[k] < m[i] => g[k] = h[k]
               PROVE  step[i][g] = step[i][h]
    BY DEF Local
  <2>1. \A k \in D : k > i => g[k] = h[k]
    OBVIOUS
  <2>2. EndFrom(g, s, i) = EndFrom(h, s, i)
    <3>1. i <= Len(s) => i + 1 \in D /\ i + 2 \in D /\ i + 1 > i /\ i + 2 > i
      OBVIOUS
    <3> QED
      BY <2>1, <3>1 DEF EndFrom
  <2> HIDE DEF D
  <2> QED
    BY <2>2
<1>5. PICK f \in [D -> Int] : \A i \in D : f[i] = step[i][f]
  <2> DEFINE N == Len(s) + 2
  <2>1. 0 \in Int /\ N \in Nat
    OBVIOUS
  <2>2. Measures(m, D, N) /\ Steps(step, D, Int)
    BY <1>1, <1>3 DEF Measures, Steps
  <2> HIDE DEF D, m, step, N
  <2>3. Solvable(step, D, Int)
    BY <1>4, <2>1, <2>2, RecursionExists
  <2> QED
    BY <2>3 DEF Solvable
<1>6. IsEnd(f, s)
  <2>1. \A i \in D : f[i] = EndFrom(f, s, i)
    <3> HIDE DEF D
    <3> QED
      BY <1>5
  <2>2. f = [i \in D |-> f[i]]
    OBVIOUS
  <2> QED
    BY <2>1, <2>2 DEF IsEnd
<1>7. IsEnd(EndOf(s), s)
  BY <1>6 DEF EndOf
<1> QED
  <2> DEFINE g == EndOf(s)
  <2>1. g = [i \in D |-> EndFrom(g, s, i)]
    BY <1>7 DEF IsEnd
  <2> HIDE DEF g
  <2>2. \A i \in D : g[i] = EndFrom(g, s, i)
    BY <2>1
  <2> QED
    BY <2>2 DEF g

(* One piece of an escaped string is passed as a whole.                    *)
LEMMA PassesPiece ==
  ASSUME NEW s, Len(s) \in Nat, NEW at \in Nat, NEW c, IsPiece(s, at, EscapePiece(c))
  PROVE  EndOf(s)[at + 1] = EndOf(s)[at + Len(EscapePiece(c)) + 1]
<1> DEFINE f == EndOf(s)
<1>1. \A i \in 1 .. Len(s) + 2 : f[i] = EndFrom(f, s, i)
  BY EndIs
<1> HIDE DEF f
<1>2. CASE c \in MustEscape
  <2>1. EscapePiece(c) = <<Backslash, LetterOf(c)>> /\ Len(EscapePiece(c)) = 2
    BY <1>2 DEF EscapePiece
  <2>2. at + 2 <= Len(s) /\ s[at + 1] = Backslash /\ s[at + 2] = LetterOf(c)
    BY <2>1 DEF IsPiece
  <2>3. f[at + 1] = EndFrom(f, s, at + 1) /\ f[at + 2] = EndFrom(f, s, at + 2)
    BY <1>1, <2>2
  <2>4. f[at + 1] = IF s[at + 2] \in MustEscape THEN f[at + 3] ELSE f[at + 2]
    BY <2>2, <2>3, EscapeFacts DEF EndFrom
  <2>5. s[at + 2] \notin MustEscape => f[at + 2] = f[at + 3]
    BY <2>2, <2>3, EscapeFacts DEF EndFrom
  <2> QED
    BY <2>1, <2>4, <2>5 DEF f
<1>3. CASE c \notin MustEscape
  <2>1. EscapePiece(c) = <<c>> /\ Len(EscapePiece(c)) = 1
    BY <1>3 DEF EscapePiece
  <2>2. at + 1 <= Len(s) /\ s[at + 1] = c
    BY <2>1 DEF IsPiece
  <2>3. f[at + 1] = EndFrom(f, s, at + 1)
    BY <1>1, <2>2
  <2>4. f[at + 1] = f[at + 2]
    BY <1>3, <2>2, <2>3, EscapeFacts DEF EndFrom
  <2> QED
    BY <2>1, <2>4 DEF f
<1> QED
  BY <1>2, <1>3

LEMMA ArePieces ==
  ASSUME NEW S, NEW n \in Nat, NEW seqs \in [1 .. n -> Seq(S)]
  PROVE  AreSequences(seqs, n, S)
<1> DEFINE T == Seq(S)
<1>1. seqs \in [1 .. n -> T] /\ \A i \in 1 .. n : seqs[i] \in T
  OBVIOUS
<1> HIDE DEF T
<1>2. seqs \in Seq(T) /\ Len(seqs) = n
  BY <1>1, FunctionIsSequence
<1>3. n = 0 => seqs = <<>>
  BY <1>2, EmptySeq
<1> QED
  BY <1>1, <1>2, <1>3 DEF AreSequences, T

(* What escapes are made of.                                               *)
Written(S) == S \cup Letters \cup {Backslash, Quote}

LEMMA EscapePiecesAre ==
  ASSUME NEW S, NEW str \in Seq(S)
  PROVE  /\ AreSequences(EscapePieces(str), Len(str), Written(S))
         /\ \A k \in 1 .. Len(str) : EscapePieces(str)[k] = EscapePiece(str[k])
<1> DEFINE n == Len(str)
           W == Written(S)
<1>1. n \in Nat /\ DOMAIN str = 1 .. n /\ \A k \in 1 .. n : str[k] \in S
  BY LenProperties
<1>2. ASSUME NEW c \in S PROVE EscapePiece(c) \in Seq(W)
  <2>1. c \in W /\ Backslash \in W /\ (c \in MustEscape => LetterOf(c) \in W)
    BY EscapeFacts DEF Written
  <2> HIDE DEF W
  <2> QED
    BY <2>1 DEF EscapePiece
<1> HIDE DEF n, W
<1>3. EscapePieces(str) = [k \in 1 .. n |-> EscapePiece(str[k])]
  BY <1>1 DEF EscapePieces
<1>4. EscapePieces(str) \in [1 .. n -> Seq(W)]
  BY <1>1, <1>2, <1>3
<1>5. AreSequences(EscapePieces(str), n, W)
  BY <1>1, <1>4, ArePieces
<1> QED
  BY <1>3, <1>5 DEF n, W

(* An escaped string, and what is written behind it.                       *)
LEMMA EscapedAt ==
  ASSUME NEW S, NEW str \in Seq(S), NEW more \in Seq(Written(S))
  PROVE  LET at(k) == Len(Joined(EscapePieces(str), k))
             s == Escape(str) \o more
         IN  /\ Escape(str) \in Seq(Written(S)) /\ Len(s) = at(Len(str)) + Len(more)
             /\ at(0) = 0 /\ at(Len(str)) = Len(Escape(str))
             /\ \A x \in 1 .. Len(more) : s[at(Len(str)) + x] = more[x]
             /\ \A k \in 0 .. Len(str) - 1 :
                  /\ at(k) \in Nat
                  /\ at(k + 1) = at(k) + Len(EscapePiece(str[k + 1]))
                  /\ IsPiece(s, at(k), EscapePiece(str[k + 1]))
<1> DEFINE n == Len(str)
           W == Written(S)
           seqs == EscapePieces(str)
           at(k) == Len(Joined(seqs, k))
           written == Escape(str)
           s == written \o more
<1>1. n \in Nat /\ AreSequences(seqs, n, W) /\ written = FlattenSeq(seqs)
  BY EscapePiecesAre, EscapeIs, LenProperties
<1>2. \A k \in 0 .. n - 1 : seqs[k + 1] = EscapePiece(str[k + 1])
  <2>1. \A k \in 0 .. n - 1 : k + 1 \in 1 .. n
    BY <1>1
  <2> QED
    BY <2>1, EscapePiecesAre
<1>3. more \in Seq(W)
  OBVIOUS
<1> HIDE DEF W, seqs, n, written
<1>4. Joined(seqs, 0) = <<>> /\ written = Joined(seqs, n) /\ written \in Seq(W)
  <2>1. n \in 0 .. n
    BY <1>1
  <2> QED
    BY <1>1, <2>1, JoinedIs, JoinedType
<1>5. /\ Len(written) \in Nat /\ Len(more) \in Nat /\ Len(s) = Len(written) + Len(more)
      /\ \A x \in 1 .. Len(written) : s[x] = written[x]
      /\ \A x \in 1 .. Len(more) : s[Len(written) + x] = more[x]
  BY <1>3, <1>4, ConcatProperties, LenProperties
<1> HIDE DEF s
<1>6. ASSUME NEW k \in 0 .. n - 1
      PROVE  /\ at(k) \in Nat
             /\ at(k + 1) = at(k) + Len(EscapePiece(str[k + 1]))
             /\ IsPiece(s, at(k), EscapePiece(str[k + 1]))
  <2> DEFINE piece == EscapePiece(str[k + 1])
             a == at(k)
  <2>1. a \in Nat /\ at(k + 1) = a + Len(piece) /\ IsPiece(written, a, piece)
    BY <1>1, <1>2, PieceAt
  <2>2. Len(piece) \in Nat
    BY DEF EscapePiece
  <2> HIDE DEF piece, a
  <2>3. IsPiece(s, a, piece)
    <3>1. \A x \in 1 .. Len(piece) : a + x \in 1 .. Len(written)
      BY <1>5, <2>1, <2>2 DEF IsPiece
    <3> QED
      BY <1>5, <2>1, <2>2, <3>1 DEF IsPiece
  <2> QED
    BY <2>1, <2>3 DEF a, piece
<1>7. at(0) = 0 /\ at(n) = Len(written)
  BY <1>4
<1> HIDE DEF at
<1> QED
  BY <1>4, <1>5, <1>6, <1>7 DEF at, s, n, W, seqs, written

LEMMA PassesAll ==
  ASSUME NEW S, NEW str \in Seq(S), NEW more \in Seq(Written(S))
  PROVE  EndOf(Escape(str) \o more)[1]
           = EndOf(Escape(str) \o more)[Len(Escape(str)) + 1]
<1> DEFINE n == Len(str)
           s == Escape(str) \o more
           f == EndOf(s)
           at(k) == Len(Joined(EscapePieces(str), k))
           P == {k \in Nat : k <= n => f[at(k) + 1] = f[1]}
<1>1. /\ at(0) = 0 /\ at(n) = Len(Escape(str)) /\ Len(s) = at(n) + Len(more)
      /\ \A k \in 0 .. n - 1 :
           /\ at(k) \in Nat
           /\ at(k + 1) = at(k) + Len(EscapePiece(str[k + 1]))
           /\ IsPiece(s, at(k), EscapePiece(str[k + 1]))
  BY EscapedAt
<1>2. n \in Nat /\ Len(s) \in Nat
  <2>1. Escape(str) \in Seq(Written(S))
    BY EscapedAt
  <2> QED
    BY <2>1, ConcatProperties, LenProperties
<1> HIDE DEF at, n, s
<1>3. 0 \in P
  BY <1>1
<1>4. ASSUME NEW k \in Nat, k \in P PROVE k + 1 \in P
  <2> SUFFICES ASSUME k + 1 <= n PROVE f[at(k + 1) + 1] = f[1]
    OBVIOUS
  <2>1. k \in 0 .. n - 1
    BY <1>2
  <2>2. f[at(k) + 1] = f[at(k) + Len(EscapePiece(str[k + 1])) + 1]
    <3> DEFINE a == at(k)
               c == str[k + 1]
    <3>1. a \in Nat /\ IsPiece(s, a, EscapePiece(c))
      BY <1>1, <2>1
    <3> HIDE DEF a, c, f
    <3>2. EndOf(s)[a + 1] = EndOf(s)[a + Len(EscapePiece(c)) + 1]
      BY <1>2, <3>1, PassesPiece
    <3> QED
      BY <3>2 DEF a, c, f
  <2>3. at(k + 1) = at(k) + Len(EscapePiece(str[k + 1])) /\ f[at(k) + 1] = f[1]
    BY <1>1, <1>2, <1>4, <2>1
  <2> HIDE DEF f
  <2> QED
    BY <2>2, <2>3
<1> HIDE DEF P
<1>5. n \in P
  BY <1>2, <1>3, <1>4, NaturalInduction
<1> QED
  BY <1>1, <1>2, <1>5 DEF P, s

LEMMA PassesEscaped ==
  ASSUME NEW S, NEW str \in Seq(S), NEW more \in Seq(Written(S)),
         more # <<>>, more[1] = Quote
  PROVE  PassString(Escape(str) \o more) = Len(Escape(str))
<1> DEFINE s == Escape(str) \o more
           n == Len(Escape(str))
<1>1. Escape(str) \in Seq(Written(S)) /\ Len(more) \in Nat /\ Len(more) >= 1
  BY EscapedAt, EmptySeq, LenProperties
<1>2. n \in Nat /\ Len(s) = n + Len(more) /\ s[n + 1] = Quote
  BY <1>1, ConcatProperties, LenProperties
<1>3. EndOf(s)[1] = EndOf(s)[n + 1]
  BY PassesAll
<1> HIDE DEF s, n
<1>4. EndOf(s)[n + 1] = EndFrom(EndOf(s), s, n + 1)
  <2>1. n + 1 \in 1 .. Len(s) + 2 /\ Len(s) \in Nat
    BY <1>1, <1>2
  <2> QED
    BY <2>1, EndIs
<1>5. EndFrom(EndOf(s), s, n + 1) = n
  BY <1>1, <1>2, EscapeFacts DEF EndFrom
<1> QED
  BY <1>3, <1>4, <1>5, PassStringIs DEF s, n

-----------------------------------------------------------------------------
(* What mjson_unescape makes of a string from a place on.                  *)
NoResult == [ok |-> FALSE, to |-> <<>>]
Chained(c, r) == [r EXCEPT !.to = <<c>> \o @]
UnescapeFrom(f, s, n, i, j) ==
  IF j >= n THEN NoResult
  ELSE IF i > Len(s) THEN [ok |-> TRUE, to |-> <<>>]
  ELSE IF s[i] = Backslash /\ i + 5 <= Len(s) /\ s[i + 1] = "u"
  THEN IF s[i + 2] # "0" \/ s[i + 3] # "0" THEN NoResult
       ELSE Chained(Unhex(s[i + 4], s[i + 5]), f[<<i + 6, j + 1>>])
  ELSE IF s[i] = Backslash /\ i + 1 <= Len(s)
  THEN IF s[i + 1] \notin Letters THEN NoResult
       ELSE Chained(CharacterOf(s[i + 1]), f[<<i + 2, j + 1>>])
  ELSE Chained(s[i], f[<<i + 1, j + 1>>])
IsUnescape(f, s, n) ==
  f = [place \in (1 .. Len(s) + 6) \X (0 .. n) |->
         UnescapeFrom(f, s, n, place[1], place[2])]
Unescapes(s, n) == CHOOSE f : IsUnescape(f, s, n)

LEMMA UnescapeIs == ASSUME NEW s, NEW n PROVE Unescape(s, n) = Unescapes(s, n)[<<1, 0>>]
BY DEF Unescape, Unescapes, IsUnescape, UnescapeFrom, Chained, NoResult

Results(T) == [ok : BOOLEAN, to : Seq(T)]

LEMMA ChainedType ==
  ASSUME NEW T, NEW c \in T, NEW r \in Results(T)
  PROVE  /\ Chained(c, r) \in Results(T)
         /\ Chained(c, r).ok = r.ok /\ Chained(c, r).to = <<c>> \o r.to
<1>1. r.ok \in BOOLEAN /\ r.to \in Seq(T) /\ <<c>> \in Seq(T)
  BY DEF Results
<1>2. <<c>> \o r.to \in Seq(T)
  BY <1>1, ConcatProperties
<1>3. Chained(c, r).ok = r.ok /\ Chained(c, r).to = <<c>> \o r.to
  BY DEF Chained, Results
<1>4. Chained(c, r) \in Results(T)
  <2> DEFINE to == <<c>> \o r.to
  <2>1. Chained(c, r) = [r EXCEPT !.to = to]
    BY DEF Chained
  <2> HIDE DEF to
  <2> QED
    BY <1>2, <2>1 DEF Results, to
<1> QED
  BY <1>3, <1>4

LEMMA UnescapesAre ==
  ASSUME NEW S, NEW s \in Seq(S), NEW n \in Nat
  PROVE  \A i \in 1 .. Len(s) + 6, j \in 0 .. n :
           Unescapes(s, n)[<<i, j>>] = UnescapeFrom(Unescapes(s, n), s, n, i, j)
<1> DEFINE I == 1 .. Len(s) + 6
           J == 0 .. n
           D == I \X J
           T == S \cup {CharacterOf(letter) : letter \in Letters}
                  \cup {Unhex(p[1], p[2]) : p \in S \X S}
           V == Results(T)
           From(g, i, j) == UnescapeFrom(g, s, n, i, j)
           m == [x \in D |-> Len(s) + 6 - x[1]]
           step == [x \in D |-> [g \in [D -> V] |-> From(g, x[1], x[2])]]
           N == Len(s) + 6
<1>1. Len(s) \in Nat /\ \A i \in 1 .. Len(s) : s[i] \in S
  BY LenProperties
<1>2. \A x \in D : x[1] \in I /\ x[2] \in J /\ x = <<x[1], x[2]>>
  OBVIOUS
<1>3. Measures(m, D, N) /\ N \in Nat
  <2> HIDE DEF D
  <2>1. \A x \in D : Len(s) + 6 - x[1] \in Nat /\ Len(s) + 6 - x[1] < N
    BY <1>1, <1>2
  <2> QED
    BY <1>1, <2>1 DEF Measures
<1>4. NoResult \in V /\ [ok |-> TRUE, to |-> <<>>] \in V
  <2>1. <<>> \in Seq(T)
    BY EmptySeq
  <2> HIDE DEF T
  <2> QED
    BY <2>1 DEF Results, NoResult
<1>5. /\ \A i \in 1 .. Len(s) : s[i] \in T
      /\ \A letter \in Letters : CharacterOf(letter) \in T
      /\ \A a, b \in S : Unhex(a, b) \in T
  <2>1. ASSUME NEW a \in S, NEW b \in S PROVE Unhex(a, b) \in T
    <3>1. <<a, b>> \in S \X S /\ <<a, b>>[1] = a /\ <<a, b>>[2] = b
      OBVIOUS
    <3> QED
      BY <3>1
  <2> QED
    BY <1>1, <2>1
<1> HIDE DEF T
<1>6. \A r \in V, c \in T : Chained(c, r) \in V
  BY ChainedType
<1> HIDE DEF V
<1>7. ASSUME NEW i \in I, NEW j \in J, j < n, i <= Len(s)
      PROVE  /\ \A k \in {1, 2} : <<i + k, j + 1>> \in D /\ i + k > i
             /\ i + 5 <= Len(s) => <<i + 6, j + 1>> \in D /\ i + 6 > i
  BY <1>1, <1>7
<1>8. ASSUME NEW i \in I, NEW j \in J, NEW g \in [D -> V] PROVE From(g, i, j) \in V
  <2>1. \A x \in D : g[x] \in V
    OBVIOUS
  <2>2. i <= Len(s) => i \in 1 .. Len(s) /\ (i + 5 <= Len(s) => i + 4 \in 1 .. Len(s) /\ i + 5 \in 1 .. Len(s))
    BY <1>1
  <2> HIDE DEF D
  <2>3. CASE j < n /\ i <= Len(s)
    <3>1. g[<<i + 1, j + 1>>] \in V /\ g[<<i + 2, j + 1>>] \in V
      BY <1>7, <2>1, <2>3
    <3>2. i + 5 <= Len(s) => g[<<i + 6, j + 1>>] \in V /\ Unhex(s[i + 4], s[i + 5]) \in T
      BY <1>1, <1>5, <1>7, <2>1, <2>2, <2>3
    <3>3. s[i] \in T /\ (s[i + 1] \in Letters => CharacterOf(s[i + 1]) \in T)
      BY <1>5, <2>2, <2>3
    <3> QED
      BY <1>4, <1>6, <3>1, <3>2, <3>3 DEF UnescapeFrom
  <2>4. CASE ~(j < n /\ i <= Len(s))
    <3>1. j >= n \/ (~(j >= n) /\ i > Len(s))
      BY <1>1, <2>4
    <3> QED
      BY <1>4, <3>1 DEF UnescapeFrom
  <2> QED
    BY <2>3, <2>4
<1>9. Steps(step, D, V)
  <2> HIDE DEF D, From, I, J
  <2>1. \A x \in D, g \in [D -> V] : From(g, x[1], x[2]) \in V
    BY <1>2, <1>8
  <2>2. step \in [D -> [[D -> V] -> V]]
    BY <2>1
  <2> QED
    BY <2>2 DEF Steps
<1>10. Local(step, D, V, m)
  <2> SUFFICES ASSUME NEW x \in D, NEW g \in [D -> V], NEW h \in [D -> V],
                      \A y \in D : m[y] < m[x] => g[y] = h[y]
               PROVE  step[x][g] = step[x][h]
    BY DEF Local
  <2> DEFINE i == x[1]
             j == x[2]
  <2>1. i \in I /\ j \in J /\ m[x] = Len(s) + 6 - i
    OBVIOUS
  <2>2. ASSUME NEW y \in D, y[1] > i PROVE g[y] = h[y]
    <3>1. m[y] = Len(s) + 6 - y[1] /\ y[1] \in Int /\ i \in Int
      OBVIOUS
    <3> HIDE DEF m, D, i
    <3> QED
      BY <1>1, <2>1, <2>2, <3>1
  <2>3. From(g, i, j) = From(h, i, j)
    <3>1. CASE j < n /\ i <= Len(s)
      <4> DEFINE Next(k) == g[<<i + k, j + 1>>] = h[<<i + k, j + 1>>]
      <4>1. /\ \A k \in {1, 2} : <<i + k, j + 1>> \in D /\ i + k > i
            /\ i + 5 <= Len(s) => <<i + 6, j + 1>> \in D /\ i + 6 > i
        BY <1>7, <2>1, <3>1
      <4> HIDE DEF D, i, j
      <4>2. \A k : <<i + k, j + 1>>[1] = i + k
        OBVIOUS
      <4>3. Next(1) /\ Next(2) /\ (i + 5 <= Len(s) => Next(6))
        BY <2>2, <4>1, <4>2
      <4> QED
        BY <4>3 DEF UnescapeFrom
    <3>2. CASE ~(j < n /\ i <= Len(s))
      <4>1. j >= n \/ (~(j >= n) /\ i > Len(s))
        BY <1>1, <2>1, <3>2
      <4> HIDE DEF i, j
      <4> QED
        BY <4>1 DEF UnescapeFrom
    <3> QED
      BY <3>1, <3>2
  <2> HIDE DEF D, From
  <2> QED
    BY <2>3
<1>11. PICK f \in [D -> V] : \A x \in D : f[x] = step[x][f]
  <2> HIDE DEF D, m, step, N
  <2>1. Solvable(step, D, V)
    BY <1>3, <1>4, <1>9, <1>10, RecursionExists
  <2> QED
    BY <2>1 DEF Solvable
<1>12. IsUnescape(f, s, n)
  <2> HIDE DEF From
  <2>1. \A x \in D : f[x] = From(f, x[1], x[2])
    <3> HIDE DEF D
    <3> QED
      BY <1>11
  <2>2. f = [x \in D |-> f[x]]
    OBVIOUS
  <2>3. f = [x \in D |-> From(f, x[1], x[2])]
    BY <2>1, <2>2
  <2> QED
    BY <2>3 DEF IsUnescape, From
<1>13. IsUnescape(Unescapes(s, n), s, n)
  BY <1>12 DEF Unescapes
<1> QED
  <2> DEFINE g == Unescapes(s, n)
  <2>1. g = [x \in D |-> From(g, x[1], x[2])]
    BY <1>13 DEF IsUnescape
  <2> HIDE DEF g, From
  <2>2. ASSUME NEW i \in I, NEW j \in J PROVE g[<<i, j>>] = From(g, i, j)
    <3>1. <<i, j>> \in D /\ <<i, j>>[1] = i /\ <<i, j>>[2] = j
      OBVIOUS
    <3> HIDE DEF D
    <3> QED
      BY <2>1, <3>1
  <2> QED
    BY <2>2 DEF g, From

LEMMA UnescapesPiece ==
  ASSUME NEW f, NEW s, Len(s) \in Nat, NEW n \in Nat, NEW a \in Nat, NEW j \in Nat, j < n,
         NEW c, IsPiece(s, a, EscapePiece(c))
  PROVE  UnescapeFrom(f, s, n, a + 1, j)
           = Chained(c, f[<<a + Len(EscapePiece(c)) + 1, j + 1>>])
<1>1. ~(j >= n)
  OBVIOUS
<1>2. CASE c \in MustEscape
  <2>1. EscapePiece(c) = <<Backslash, LetterOf(c)>> /\ Len(EscapePiece(c)) = 2
    BY <1>2 DEF EscapePiece
  <2>2. a + 2 <= Len(s) /\ s[a + 1] = Backslash /\ s[(a + 1) + 1] = LetterOf(c)
    BY <2>1 DEF IsPiece
  <2>3. LetterOf(c) \in Letters /\ LetterOf(c) # "u" /\ CharacterOf(LetterOf(c)) = c
    BY <1>2, EscapeFacts
  <2>4. ~(a + 1 > Len(s)) /\ (a + 1) + 1 <= Len(s) /\ (a + 1) + 2 = a + 2 + 1
    BY <2>2
  <2> QED
    BY <1>1, <2>1, <2>2, <2>3, <2>4 DEF UnescapeFrom
<1>3. CASE c \notin MustEscape
  <2>1. EscapePiece(c) = <<c>> /\ Len(EscapePiece(c)) = 1
    BY <1>3 DEF EscapePiece
  <2>2. a + 1 <= Len(s) /\ s[a + 1] = c
    BY <2>1 DEF IsPiece
  <2>3. c # Backslash
    BY <1>3, EscapeFacts
  <2>4. ~(a + 1 > Len(s)) /\ (a + 1) + 1 = a + 1 + 1
    BY <2>2
  <2> QED
    BY <1>1, <2>1, <2>2, <2>3, <2>4 DEF UnescapeFrom
<1> QED
  BY <1>2, <1>3

(* From the piece of each character on, what follows it is read if there   *)
(* is room.                                                                *)
ReadsFrom(r, str, k, n, S) ==
  /\ r \in Results(S)
  /\ n <= Len(str) => ~r.ok
  /\ n > Len(str) => r.ok /\ r.to = SubSeq(str, k + 1, Len(str))

LEMMA UnescapesEscaped ==
  ASSUME NEW S, NEW str \in Seq(S), NEW n \in Nat
  PROVE  ReadsFrom(Unescape(Escape(str), n), str, 0, n, S)
<1> DEFINE m == Len(str)
           s == Escape(str) \o <<>>
           f == Unescapes(s, n)
           at(k) == Len(Joined(EscapePieces(str), k))
           top == IF n < m THEN n ELSE m
           P == {far \in Nat : far <= top =>
                   ReadsFrom(f[<<at(top - far) + 1, top - far>>], str, top - far, n, S)}
<1>1. /\ at(0) = 0 /\ Len(s) = at(m) + Len(<<>>)
      /\ Escape(str) \in Seq(Written(S)) /\ at(m) = Len(Escape(str))
      /\ \A k \in 0 .. m - 1 :
           /\ at(k) \in Nat
           /\ at(k + 1) = at(k) + Len(EscapePiece(str[k + 1]))
           /\ IsPiece(s, at(k), EscapePiece(str[k + 1]))
  <2>1. <<>> \in Seq(Written(S))
    BY EmptySeq
  <2> QED
    BY <2>1, EscapedAt
<1>2. /\ m \in Nat /\ s = Escape(str) /\ Len(s) \in Nat /\ Len(s) = at(m)
      /\ \A k \in 1 .. m : str[k] \in S
  BY <1>1, ConcatEmptySeq, EmptySeq, LenProperties
<1>3. s \in Seq(Written(S))
  BY <1>1, <1>2
<1> HIDE DEF s, at, m
<1>4. \A i \in 1 .. Len(s) + 6, j \in 0 .. n : f[<<i, j>>] = UnescapeFrom(f, s, n, i, j)
  BY <1>3, UnescapesAre
<1> HIDE DEF f
<1>5. /\ top \in Nat /\ top <= n /\ top <= m
      /\ top = n \/ (top = m /\ n > m)
  BY <1>2
<1> HIDE DEF top
<1>6. ASSUME NEW k \in 0 .. m PROVE at(k) + 1 \in 1 .. Len(s) + 6
  <2>1. CASE k = m
    BY <1>2, <2>1
  <2>2. CASE k # m
    <3>1. k \in 0 .. m - 1
      BY <1>2, <2>2
    <3>2. at(k) \in Nat /\ at(k) + Len(EscapePiece(str[k + 1])) <= Len(s)
      BY <1>1, <3>1 DEF IsPiece
    <3>3. Len(EscapePiece(str[k + 1])) \in Nat
      BY DEF EscapePiece
    <3> QED
      BY <1>2, <3>2, <3>3
  <2> QED
    BY <2>1, <2>2
<1>7. 0 \in P
  <2> DEFINE r == f[<<at(top) + 1, top>>]
  <2>1. r = UnescapeFrom(f, s, n, at(top) + 1, top)
    BY <1>4, <1>5, <1>6
  <2>2. CASE top = n
    <3>1. r = NoResult
      BY <1>5, <2>1, <2>2 DEF UnescapeFrom
    <3>2. n <= m
      BY <1>5, <2>2
    <3>3. NoResult \in Results(S) /\ ~NoResult.ok
      BY EmptySeq DEF NoResult, Results
    <3> HIDE DEF r
    <3>4. ReadsFrom(r, str, top, n, S)
      BY <1>2, <3>1, <3>2, <3>3 DEF ReadsFrom, m
    <3> QED
      BY <1>5, <3>4 DEF r
  <2>3. CASE top = m /\ n > m
    <3>1. r = [ok |-> TRUE, to |-> <<>>]
      BY <1>2, <1>5, <2>1, <2>3 DEF UnescapeFrom
    <3>2. SubSeq(str, m + 1, m) = <<>>
      BY <1>2, SubSeqEmpty
    <3>3. r \in Results(S) /\ r.ok /\ r.to = <<>>
      <4>1. <<>> \in Seq(S)
        BY EmptySeq
      <4> HIDE DEF r
      <4> QED
        BY <3>1, <4>1 DEF Results
    <3> HIDE DEF r
    <3>4. ReadsFrom(r, str, top, n, S)
      BY <1>2, <2>3, <3>2, <3>3 DEF ReadsFrom, m
    <3> QED
      BY <1>5, <3>4 DEF r
  <2> QED
    BY <1>5, <2>2, <2>3
<1>8. ASSUME NEW far \in Nat, far \in P PROVE far + 1 \in P
  <2> SUFFICES ASSUME far + 1 <= top
               PROVE  ReadsFrom(f[<<at(top - (far + 1)) + 1, top - (far + 1)>>],
                                str, top - (far + 1), n, S)
    OBVIOUS
  <2> DEFINE k == top - (far + 1)
             c == str[k + 1]
             a == at(k)
             rest == f[<<at(k + 1) + 1, k + 1>>]
  <2>1. k \in 0 .. m - 1 /\ k + 1 = top - far /\ k < n /\ k \in 0 .. n /\ k \in Nat /\ k \in 0 .. m
    BY <1>2, <1>5
  <2>2. ReadsFrom(rest, str, k + 1, n, S)
    <3>1. far <= top
      BY <1>5
    <3> HIDE DEF k
    <3> QED
      BY <1>8, <2>1, <3>1
  <2> HIDE DEF k
  <2>3. a \in Nat /\ at(k + 1) = a + Len(EscapePiece(c)) /\ IsPiece(s, a, EscapePiece(c))
    BY <1>1, <2>1
  <2>4. f[<<a + 1, k>>] = UnescapeFrom(f, s, n, a + 1, k)
    BY <1>4, <1>6, <2>1
  <2>5. c \in S
    BY <1>2, <2>1
  <2> HIDE DEF a, c
  <2>6. f[<<a + 1, k>>] = Chained(c, f[<<a + Len(EscapePiece(c)) + 1, k + 1>>])
    BY <1>2, <2>1, <2>3, <2>4, UnescapesPiece
  <2>7. f[<<a + 1, k>>] = Chained(c, rest)
    BY <2>3, <2>6
  <2> HIDE DEF rest
  <2>8. /\ Chained(c, rest) \in Results(S)
        /\ Chained(c, rest).ok = rest.ok /\ Chained(c, rest).to = <<c>> \o rest.to
    BY <2>2, <2>5, ChainedType DEF ReadsFrom
  <2>9. SubSeq(str, k + 1, m) = <<c>> \o SubSeq(str, (k + 1) + 1, m)
    <3>1. k + 1 \in 1 .. Len(str) /\ m \in k + 1 .. Len(str)
      BY <1>2, <2>1 DEF m
    <3> QED
      BY <3>1, SubSeqRecursiveFirst DEF c
  <2>10. ReadsFrom(Chained(c, rest), str, k, n, S)
    BY <2>2, <2>8, <2>9 DEF ReadsFrom, m
  <2> QED
    BY <2>7, <2>10 DEF k, a
<1> HIDE DEF P
<1>9. top \in P
  BY <1>5, <1>7, <1>8, NaturalInduction
<1>10. ReadsFrom(f[<<1, 0>>], str, 0, n, S)
  <2>1. top <= top /\ top - top = 0 /\ at(0) + 1 = 1
    BY <1>1, <1>5
  <2> QED
    BY <1>9, <2>1 DEF P
<1>11. f[<<1, 0>>] = Unescape(Escape(str), n)
  BY <1>2, UnescapeIs DEF f
<1> QED
  BY <1>10, <1>11

LEMMA EscapesExactly == ASSUME NEW S, NEW str \in Seq(S) PROVE EscapesExact(str)
<1>1. PassString(Escape(str) \o <<Quote>> \o str) = Len(Escape(str))
  <2> DEFINE W == Written(S)
             more == <<Quote>> \o str
  <2>1. Quote \in W /\ S \subseteq W
    BY DEF Written
  <2>2. Escape(str) \in Seq(W)
    <3>1. <<>> \in Seq(Written(S))
      BY EmptySeq
    <3> QED
      BY <3>1, EscapedAt
  <2> HIDE DEF W
  <2>3. <<Quote>> \in Seq(W) /\ str \in Seq(W)
    BY <2>1, SeqMonotonic
  <2>4. /\ more \in Seq(W) /\ more # <<>> /\ more[1] = Quote
        /\ Escape(str) \o <<Quote>> \o str = Escape(str) \o more
    <3>1. Len(<<Quote>>) = 1 /\ <<Quote>>[1] = Quote /\ Len(str) \in Nat
      BY LenProperties
    <3>2. more \in Seq(W) /\ Len(more) = 1 + Len(str) /\ more[1] = Quote
      <4>1. 1 \in 1 .. Len(<<Quote>>) + Len(str)
        BY <3>1
      <4> QED
        BY <2>3, <3>1, <4>1, ConcatProperties
    <3>3. Escape(str) \o <<Quote>> \o str = Escape(str) \o more
      BY <2>2, <2>3, ConcatAssociative
    <3>4. more # <<>>
      <4> HIDE DEF more
      <4> QED
        BY <3>1, <3>2, EmptySeq
    <3> HIDE DEF more
    <3> QED
      BY <3>2, <3>3, <3>4 DEF more
  <2> HIDE DEF more
  <2> QED
    BY <2>4, PassesEscaped DEF W
<1>2. ASSUME NEW n \in 0 .. Len(str) + 1
      PROVE  IF n > Len(str)
             THEN Unescape(Escape(str), n).ok /\ Unescape(Escape(str), n).to = str
             ELSE ~Unescape(Escape(str), n).ok
  <2>1. n \in Nat /\ Len(str) \in Nat
    BY LenProperties
  <2>2. ReadsFrom(Unescape(Escape(str), n), str, 0, n, S)
    BY <2>1, UnescapesEscaped
  <2>3. SubSeq(str, 0 + 1, Len(str)) = str
    BY SubSeqFull
  <2> QED
    BY <2>1, <2>2, <2>3 DEF ReadsFrom
<1> QED
  BY <1>1, <1>2 DEF EscapesExact

-----------------------------------------------------------------------------
(* Searching.                                                              *)
IsMin(x, S) == x \in S /\ \A y \in S : x <= y
IsMax(x, S) == x \in S /\ \A y \in S : x >= y

LEMMA SmallestExists ==
  ASSUME NEW S \in SUBSET Nat, S # {}
  PROVE  IsMin(CHOOSE x \in S : \A y \in S : x <= y, S)
<1> DEFINE P == {n \in Nat : \A y \in S : ~(y <= n)}
<1>1. \E x \in S : \A y \in S : x <= y
  <2> SUFFICES ASSUME \A x \in S : \E y \in S : ~(x <= y) PROVE FALSE
    OBVIOUS
  <2>1. 0 \in P
    <3> SUFFICES ASSUME NEW x \in S, x <= 0 PROVE FALSE
      OBVIOUS
    <3>1. PICK y \in S : ~(x <= y)
      OBVIOUS
    <3> QED
      BY <3>1
  <2>2. ASSUME NEW n \in Nat, n \in P PROVE n + 1 \in P
    <3> SUFFICES ASSUME NEW x \in S, x <= n + 1 PROVE FALSE
      OBVIOUS
    <3>1. PICK y \in S : ~(x <= y)
      OBVIOUS
    <3>2. y <= n
      BY <3>1
    <3> QED
      BY <2>2, <3>2
  <2> HIDE DEF P
  <2>3. \A n \in Nat : n \in P
    BY <2>1, <2>2, NaturalInduction
  <2>4. PICK y \in S : TRUE
    OBVIOUS
  <2> QED
    BY <2>3, <2>4 DEF P
<1> QED
  BY <1>1 DEF IsMin

LEMMA MinIs == ASSUME NEW S \in SUBSET Int, NEW x, IsMin(x, S) PROVE Min(S) = x
<1> DEFINE z == CHOOSE z \in S : \A y \in S : z =< y
<1>1. Min(S) = z
  BY DEF Min
<1>2. z \in S /\ \A y \in S : z =< y
  BY DEF IsMin
<1> HIDE DEF z
<1> QED
  BY <1>1, <1>2 DEF IsMin

LEMMA MaxIs == ASSUME NEW S \in SUBSET Int, NEW x, IsMax(x, S) PROVE Max(S) = x
<1> DEFINE z == CHOOSE z \in S : \A y \in S : z >= y
<1>1. Max(S) = z
  BY DEF Max
<1>2. z \in S /\ \A y \in S : z >= y
  BY DEF IsMax
<1> HIDE DEF z
<1> QED
  BY <1>1, <1>2 DEF IsMax

FromThere(pos) == IF pos < 0 THEN 0 ELSE pos
PlacesFrom(str, sub, pos) == {i \in FromThere(pos) .. Len(str) : At(str, sub, i)}
FirstFrom(p, str, sub, pos) ==
  IF PlacesFrom(str, sub, pos) = {} THEN p = -1 ELSE IsMin(p, PlacesFrom(str, sub, pos))

LEMMA IndexOfIs ==
  ASSUME NEW str, NEW sub, Len(str) \in Nat, Len(sub) \in Nat, Len(sub) >= 1, NEW pos \in Int
  PROVE  FirstFrom(IndexOf(str, sub, pos), str, sub, pos)
<1> DEFINE places == PlacesFrom(str, sub, pos)
<1>1. IndexOf(str, sub, pos) =
        IF (pos >= Len(str) /\ pos >= 0) \/ places = {} THEN -1
        ELSE CHOOSE i \in places : \A k \in places : i <= k
  BY DEF IndexOf, PlacesFrom, FromThere
<1>2. pos >= Len(str) /\ pos >= 0 => places = {}
  BY DEF PlacesFrom, FromThere, At
<1>3. places \in SUBSET Nat
  BY DEF PlacesFrom, FromThere
<1> HIDE DEF places
<1> QED
  BY <1>1, <1>2, <1>3, SmallestExists DEF FirstFrom, places

(* What g_last_index_of returns from a place on.                           *)
LastFrom(f, str, sub, pos) ==
  IF IndexOf(str, sub, pos) # -1 THEN f[IndexOf(str, sub, pos) + Len(sub)]
  ELSE IF pos = -1 THEN -1 ELSE pos - Len(sub)
IsLastPlaces(f, str, sub) == f = [pos \in -1 .. Len(str) |-> LastFrom(f, str, sub, pos)]
LastPlaces(str, sub) == CHOOSE f : IsLastPlaces(f, str, sub)

LEMMA LastIndexOfIs ==
  ASSUME NEW str, NEW sub, sub # <<>>
  PROVE  LastIndexOf(str, sub) = LastPlaces(str, sub)[-1]
BY DEF LastIndexOf, LastPlaces, IsLastPlaces, LastFrom

LEMMA FoundBehind ==
  ASSUME NEW str, NEW sub, Len(str) \in Nat, Len(sub) \in Nat, Len(sub) >= 1,
         NEW pos \in -1 .. Len(str), IndexOf(str, sub, pos) # -1
  PROVE  LET p == IndexOf(str, sub, pos)
         IN  /\ p \in 0 .. Len(str) /\ p >= pos /\ At(str, sub, p)
             /\ p + Len(sub) \in -1 .. Len(str) /\ p + Len(sub) > pos
<1> DEFINE p == IndexOf(str, sub, pos)
<1>1. FirstFrom(p, str, sub, pos)
  BY IndexOfIs
<1> HIDE DEF p
<1>2. p \in PlacesFrom(str, sub, pos)
  BY <1>1 DEF FirstFrom, IsMin, p
<1>3. p \in 0 .. Len(str) /\ p >= pos /\ At(str, sub, p)
  BY <1>2 DEF PlacesFrom, FromThere
<1>4. p + Len(sub) <= Len(str)
  BY <1>3 DEF At
<1> QED
  BY <1>3, <1>4 DEF p

LEMMA LastPlacesAre ==
  ASSUME NEW str, NEW sub, Len(str) \in Nat, Len(sub) \in Nat, Len(sub) >= 1
  PROVE  \A pos \in -1 .. Len(str) :
           LastPlaces(str, sub)[pos] = LastFrom(LastPlaces(str, sub), str, sub, pos)
<1> DEFINE D == -1 .. Len(str)
           m == [pos \in D |-> Len(str) - pos]
           step == [pos \in D |-> [g \in [D -> Int] |-> LastFrom(g, str, sub, pos)]]
           N == Len(str) + 2
<1>1. Measures(m, D, N) /\ N \in Nat /\ 0 \in Int
  BY DEF Measures
<1>2. ASSUME NEW pos \in D, NEW g \in [D -> Int] PROVE LastFrom(g, str, sub, pos) \in Int
  BY FoundBehind DEF LastFrom
<1>3. Steps(step, D, Int)
  <2> HIDE DEF D
  <2>1. step \in [D -> [[D -> Int] -> Int]]
    BY <1>2
  <2> QED
    BY <2>1 DEF Steps
<1>4. Local(step, D, Int, m)
  <2> SUFFICES ASSUME NEW pos \in D, NEW g \in [D -> Int], NEW h \in [D -> Int],
                      \A k \in D : m[k] < m[pos] => g[k] = h[k]
               PROVE  step[pos][g] = step[pos][h]
    BY DEF Local
  <2>1. \A k \in D : k > pos => g[k] = h[k]
    OBVIOUS
  <2>2. LastFrom(g, str, sub, pos) = LastFrom(h, str, sub, pos)
    BY <2>1, FoundBehind DEF LastFrom
  <2> HIDE DEF D
  <2> QED
    BY <2>2
<1>5. PICK f \in [D -> Int] : \A pos \in D : f[pos] = step[pos][f]
  <2> HIDE DEF D, m, step, N
  <2>1. Solvable(step, D, Int)
    BY <1>1, <1>3, <1>4, RecursionExists
  <2> QED
    BY <2>1 DEF Solvable
<1>6. IsLastPlaces(f, str, sub)
  <2>1. \A pos \in D : f[pos] = LastFrom(f, str, sub, pos)
    <3> HIDE DEF D
    <3> QED
      BY <1>5
  <2>2. f = [pos \in D |-> f[pos]]
    OBVIOUS
  <2> QED
    BY <2>1, <2>2 DEF IsLastPlaces
<1>7. IsLastPlaces(LastPlaces(str, sub), str, sub)
  BY <1>6 DEF LastPlaces
<1> QED
  <2> DEFINE g == LastPlaces(str, sub)
  <2>1. g = [pos \in D |-> LastFrom(g, str, sub, pos)]
    BY <1>7 DEF IsLastPlaces
  <2> HIDE DEF g
  <2>2. \A pos \in D : g[pos] = LastFrom(g, str, sub, pos)
    BY <2>1
  <2> QED
    BY <2>2 DEF g

(* FromThere a place it has found, or before all of them, it finds the last   *)
(* one of a single character.                                              *)
Anchored(str, sub, pos) ==
  pos = -1 \/ (pos - Len(sub) >= 0 /\ At(str, sub, pos - Len(sub)))
LastIs(r, str, sub, pos) ==
  IF pos = -1 /\ Places(str, sub) = {} THEN r = -1
  ELSE r \in Places(str, sub) /\ (Len(sub) = 1 => IsMax(r, Places(str, sub)))

LEMMA LastFound ==
  ASSUME NEW str, NEW sub, Len(str) \in Nat, Len(sub) \in Nat, Len(sub) >= 1
  PROVE  \A pos \in -1 .. Len(str) :
           Anchored(str, sub, pos) => LastIs(LastPlaces(str, sub)[pos], str, sub, pos)
<1> DEFINE f == LastPlaces(str, sub)
           Good(pos) == Anchored(str, sub, pos) => LastIs(f[pos], str, sub, pos)
           P == {far \in Nat : \A pos \in -1 .. Len(str) : Len(str) - pos < far => Good(pos)}
<1>1. \A pos \in -1 .. Len(str) : f[pos] = LastFrom(f, str, sub, pos)
  BY LastPlacesAre
<1> HIDE DEF f
<1>2. 0 \in P
  OBVIOUS
<1>3. ASSUME NEW far \in Nat, far \in P PROVE far + 1 \in P
  <2> SUFFICES ASSUME NEW pos \in -1 .. Len(str), Len(str) - pos < far + 1,
                      Anchored(str, sub, pos)
               PROVE  LastIs(f[pos], str, sub, pos)
    OBVIOUS
  <2> DEFINE p == IndexOf(str, sub, pos)
             places == Places(str, sub)
  <2>1. CASE p # -1
    <3>1. /\ p \in 0 .. Len(str) /\ At(str, sub, p)
          /\ p + Len(sub) \in -1 .. Len(str) /\ p + Len(sub) > pos
      BY <2>1, FoundBehind
    <3>2. f[pos] = f[p + Len(sub)]
      BY <1>1, <2>1 DEF LastFrom
    <3> HIDE DEF p
    <3> DEFINE to == p + Len(sub)
    <3>3. to \in -1 .. Len(str) /\ Len(str) - to < far /\ to # -1 /\ Anchored(str, sub, to)
      BY <3>1 DEF Anchored
    <3>4. Good(to)
      <4> HIDE DEF to, Good
      <4> QED
        BY <1>3, <3>3
    <3>5. places # {}
      BY <3>1 DEF Places
    <3> HIDE DEF to
    <3>6. LastIs(f[to], str, sub, to)
      BY <3>3, <3>4
    <3> QED
      BY <3>2, <3>3, <3>5, <3>6 DEF LastIs, to
  <2>2. CASE p = -1
    <3>1. PlacesFrom(str, sub, pos) = {}
      <4>1. FirstFrom(p, str, sub, pos)
        BY IndexOfIs
      <4>2. -1 \notin PlacesFrom(str, sub, pos)
        BY DEF PlacesFrom, FromThere
      <4> HIDE DEF p
      <4> QED
        BY <2>2, <4>1, <4>2 DEF FirstFrom, IsMin
    <3>2. f[pos] = IF pos = -1 THEN -1 ELSE pos - Len(sub)
      BY <1>1, <2>2 DEF LastFrom
    <3>3. \A i \in places : i \in Int /\ i < pos
      BY <3>1 DEF Places, PlacesFrom, FromThere
    <3>4. CASE pos = -1
      <4>1. places = {}
        BY <3>3, <3>4 DEF Places
      <4> QED
        BY <3>2, <3>4, <4>1 DEF LastIs
    <3>5. CASE pos # -1
      <4>1. pos - Len(sub) \in places
        BY <3>5 DEF Anchored, Places
      <4>2. Len(sub) = 1 => IsMax(pos - Len(sub), places)
        BY <3>3, <4>1 DEF IsMax
      <4> QED
        BY <3>2, <3>5, <4>1, <4>2 DEF LastIs
    <3> QED
      BY <3>4, <3>5
  <2> QED
    BY <2>1, <2>2
<1> HIDE DEF P
<1>4. Len(str) + 2 \in P
  <2>1. Len(str) + 2 \in Nat
    OBVIOUS
  <2> QED
    BY <1>2, <1>3, <2>1, NaturalInduction
<1>5. \A pos \in -1 .. Len(str) : Len(str) - pos < Len(str) + 2
  OBVIOUS
<1> QED
  BY <1>4, <1>5 DEF P, f

LEMMA SearchesExactly ==
  ASSUME NEW S, NEW str \in Seq(S), NEW sub \in Seq(S), sub # <<>>
  PROVE  SearchesExact(str, sub)
<1> DEFINE places == Places(str, sub)
           first == IndexOf(str, sub, 0)
           last == LastIndexOf(str, sub)
<1>1. Len(str) \in Nat /\ Len(sub) \in Nat /\ Len(sub) >= 1
  BY LenProperties, EmptySeq
<1>2. FirstFrom(first, str, sub, 0) /\ PlacesFrom(str, sub, 0) = places
  <2>1. 0 \in Int
    OBVIOUS
  <2>2. PlacesFrom(str, sub, 0) = places
    BY DEF PlacesFrom, Places, FromThere
  <2> QED
    BY <1>1, <2>1, <2>2, IndexOfIs
<1>3. LastIs(last, str, sub, -1)
  <2>1. -1 \in -1 .. Len(str) /\ Anchored(str, sub, -1)
    BY <1>1 DEF Anchored
  <2> QED
    BY <1>1, <2>1, LastFound, LastIndexOfIs
<1>4. places \in SUBSET Int
  BY DEF Places
<1>5. IF places = {} THEN first = -1 /\ last = -1
      ELSE /\ first = Min(places) /\ last \in places
           /\ Len(sub) = 1 => last = Max(places)
  <2> HIDE DEF first, last
  <2>1. CASE places = {}
    BY <1>2, <1>3, <2>1 DEF FirstFrom, LastIs
  <2>2. CASE places # {}
    <3>1. IsMin(first, places)
      BY <1>2, <2>2 DEF FirstFrom
    <3>2. last \in places /\ (Len(sub) = 1 => IsMax(last, places))
      BY <1>3, <2>2 DEF LastIs
    <3> HIDE DEF places
    <3> QED
      BY <1>4, <2>2, <3>1, <3>2, MinIs, MaxIs
  <2> QED
    BY <2>1, <2>2
<1>6. StartWith(str, sub) <=> 0 \in places
  BY <1>1 DEF StartWith, Places
<1>7. EndWith(str, sub) <=> Len(str) - Len(sub) \in places
  BY <1>1 DEF EndWith, Places
<1> QED
  BY <1>5, <1>6, <1>7 DEF SearchesExact

-----------------------------------------------------------------------------
(* Replacing: what is made of the characters from a place on.              *)
ReplaceFrom(f, source, sub, rep, i) ==
  IF i = Len(source) THEN <<>>
  ELSE IF At(source, sub, i) THEN rep \o f[i + Len(sub)]
  ELSE <<source[i + 1]>> \o f[i + 1]
IsReplaced(f, source, sub, rep) ==
  f = [i \in 0 .. Len(source) |-> ReplaceFrom(f, source, sub, rep, i)]
Replaced(source, sub, rep) == CHOOSE f : IsReplaced(f, source, sub, rep)

LEMMA ReplaceIs ==
  ASSUME NEW source, NEW sub, NEW rep, sub # <<>>
  PROVE  Replace(source, sub, rep) = Replaced(source, sub, rep)[0]
BY DEF Replace, Replaced, IsReplaced, ReplaceFrom

LEMMA ReplacedIs ==
  ASSUME NEW S, NEW str \in Seq(S), NEW sub \in Seq(S), sub # <<>>, NEW rep \in Seq(S)
  PROVE  \A i \in 0 .. Len(str) :
           Replaced(str, sub, rep)[i] = ReplaceFrom(Replaced(str, sub, rep), str, sub, rep, i)
<1> DEFINE D == 0 .. Len(str)
           V == Seq(S)
           MadeOf(g, i) == ReplaceFrom(g, str, sub, rep, i)
           m == [i \in D |-> Len(str) - i]
           step == [i \in D |-> [g \in [D -> V] |-> MadeOf(g, i)]]
           N == Len(str) + 1
<1>1. /\ Len(str) \in Nat /\ Len(sub) \in Nat /\ Len(sub) >= 1
      /\ \A i \in 1 .. Len(str) : str[i] \in S
  BY LenProperties, EmptySeq
<1>2. Measures(m, D, N) /\ N \in Nat /\ <<>> \in V
  BY <1>1, EmptySeq DEF Measures
<1>3. ASSUME NEW i \in D
      PROVE  /\ At(str, sub, i) => i + Len(sub) \in D /\ i + Len(sub) > i
             /\ i # Len(str) => i + 1 \in D /\ i + 1 > i /\ str[i + 1] \in S
  BY <1>1 DEF At
<1>4. ASSUME NEW i \in D, NEW g \in [D -> V] PROVE MadeOf(g, i) \in V
  <2>1. \A k \in D : g[k] \in V
    OBVIOUS
  <2> HIDE DEF D
  <2>2. At(str, sub, i) => rep \o g[i + Len(sub)] \in V
    BY <1>3, <2>1, ConcatProperties
  <2>3. i # Len(str) => <<str[i + 1]>> \o g[i + 1] \in V
    BY <1>3, <2>1, ConcatProperties
  <2> QED
    BY <1>2, <2>2, <2>3 DEF ReplaceFrom
<1>5. Steps(step, D, V)
  <2> HIDE DEF D, MadeOf, V
  <2>1. step \in [D -> [[D -> V] -> V]]
    BY <1>4
  <2> QED
    BY <2>1 DEF Steps
<1>6. Local(step, D, V, m)
  <2> SUFFICES ASSUME NEW i \in D, NEW g \in [D -> V], NEW h \in [D -> V],
                      \A k \in D : m[k] < m[i] => g[k] = h[k]
               PROVE  step[i][g] = step[i][h]
    BY DEF Local
  <2>1. \A k \in D : k > i => g[k] = h[k]
    BY <1>1
  <2>2. MadeOf(g, i) = MadeOf(h, i)
    <3> HIDE DEF D
    <3> QED
      BY <1>3, <2>1 DEF ReplaceFrom
  <2> HIDE DEF D, MadeOf
  <2> QED
    BY <2>2
<1>7. PICK f \in [D -> V] : \A i \in D : f[i] = step[i][f]
  <2> HIDE DEF D, V, m, step, N
  <2>1. Solvable(step, D, V)
    BY <1>2, <1>5, <1>6, RecursionExists
  <2> QED
    BY <2>1 DEF Solvable
<1>8. IsReplaced(f, str, sub, rep)
  <2>1. \A i \in D : f[i] = MadeOf(f, i)
    <3> HIDE DEF D, MadeOf
    <3> QED
      BY <1>7
  <2>2. f = [i \in D |-> f[i]]
    OBVIOUS
  <2> QED
    BY <2>1, <2>2 DEF IsReplaced
<1>9. IsReplaced(Replaced(str, sub, rep), str, sub, rep)
  BY <1>8 DEF Replaced
<1> QED
  <2> DEFINE g == Replaced(str, sub, rep)
  <2>1. g = [i \in D |-> MadeOf(g, i)]
    BY <1>9 DEF IsReplaced
  <2> HIDE DEF g, MadeOf
  <2>2. \A i \in D : g[i] = MadeOf(g, i)
    BY <2>1
  <2> QED
    BY <2>2 DEF g, MadeOf

(* What len characters take of the memory for the left ones, when r come   *)
(* in the place of u.                                                      *)
Fits(len, left, u, r) == IF r > u THEN len * u <= r * left ELSE len <= left

LEMMA FitsReplaced ==
  ASSUME NEW u \in Nat, NEW r \in Nat, NEW len \in Nat, NEW left \in Nat, Fits(len, left, u, r)
  PROVE  Fits(r + len, left + u, u, r)
<1>1. CASE r > u
  <2>1. len * u <= r * left
    BY <1>1 DEF Fits
  <2>2. (r + len) * u = r * u + len * u /\ r * (left + u) = r * left + r * u
    OBVIOUS
  <2>3. r * u \in Int /\ len * u \in Int /\ r * left \in Int
    OBVIOUS
  <2> QED
    BY <1>1, <2>1, <2>2, <2>3 DEF Fits
<1>2. CASE ~(r > u)
  BY <1>2 DEF Fits
<1> QED
  BY <1>1, <1>2

LEMMA FitsKept ==
  ASSUME NEW u \in Nat, NEW r \in Nat, NEW len \in Nat, NEW left \in Nat, Fits(len, left, u, r)
  PROVE  Fits(1 + len, left + 1, u, r)
<1>1. CASE r > u
  <2>1. len * u <= r * left
    BY <1>1 DEF Fits
  <2>2. (1 + len) * u = u + len * u /\ r * (left + 1) = r * left + r
    OBVIOUS
  <2>3. len * u \in Int /\ r * left \in Int
    OBVIOUS
  <2> QED
    BY <1>1, <2>1, <2>2, <2>3 DEF Fits
<1>2. CASE ~(r > u)
  BY <1>2 DEF Fits
<1> QED
  BY <1>1, <1>2

GoodReplaced(t, str, sub, rep, i, S) ==
  /\ t \in Seq(S)
  /\ Fits(Len(t), Len(str) - i, Len(sub), Len(rep))
  /\ rep = sub => t = SubSeq(str, i + 1, Len(str))

LEMMA ReplacedGood ==
  ASSUME NEW S, NEW str \in Seq(S), NEW sub \in Seq(S), sub # <<>>, NEW rep \in Seq(S)
  PROVE  \A i \in 0 .. Len(str) :
           GoodReplaced(Replaced(str, sub, rep)[i], str, sub, rep, i, S)
<1> DEFINE f == Replaced(str, sub, rep)
           n == Len(str)
           Good(i) == GoodReplaced(f[i], str, sub, rep, i, S)
           P == {far \in Nat : \A i \in 0 .. n : n - i < far => Good(i)}
<1>1. /\ n \in Nat /\ Len(sub) \in Nat /\ Len(sub) >= 1 /\ Len(rep) \in Nat
      /\ \A i \in 1 .. n : str[i] \in S
  BY LenProperties, EmptySeq
<1>2. \A i \in 0 .. n : f[i] = ReplaceFrom(f, str, sub, rep, i)
  BY ReplacedIs
<1> HIDE DEF f
<1>3. 0 \in P
  BY <1>1
<1>4. ASSUME NEW far \in Nat, far \in P PROVE far + 1 \in P
  <2> SUFFICES ASSUME NEW i \in 0 .. n, n - i < far + 1 PROVE Good(i)
    OBVIOUS
  <2>1. f[i] = ReplaceFrom(f, str, sub, rep, i)
    BY <1>2
  <2>2. CASE i = n
    <3>1. f[i] = <<>>
      BY <2>1, <2>2 DEF ReplaceFrom
    <3>2. <<>> \in Seq(S) /\ Len(<<>>) = 0 /\ SubSeq(str, n + 1, n) = <<>>
      BY <1>1, EmptySeq, SubSeqEmpty
    <3>3. Fits(0, 0, Len(sub), Len(rep))
      BY <1>1 DEF Fits
    <3>4. n - n = 0
      BY <1>1
    <3> QED
      BY <2>2, <3>1, <3>2, <3>3, <3>4 DEF GoodReplaced
  <2>3. CASE i # n /\ At(str, sub, i)
    <3> DEFINE k == i + Len(sub)
               t == f[k]
    <3>1. f[i] = rep \o t
      BY <2>1, <2>3 DEF ReplaceFrom
    <3>2. k \in 0 .. n /\ n - k < far /\ (n - k) + Len(sub) = n - i /\ SubSeq(str, i + 1, k) = sub
      BY <1>1, <2>3 DEF At
    <3>3. Good(k)
      <4> HIDE DEF k, Good
      <4> QED
        BY <1>4, <3>2
    <3>4. /\ t \in Seq(S) /\ Fits(Len(t), n - k, Len(sub), Len(rep))
          /\ rep = sub => t = SubSeq(str, k + 1, n)
      BY <3>3 DEF GoodReplaced
    <3> HIDE DEF t, k
    <3>5. rep \o t \in Seq(S) /\ Len(rep \o t) = Len(rep) + Len(t) /\ Len(t) \in Nat
      BY <3>4, ConcatProperties, LenProperties
    <3>6. Fits(Len(rep) + Len(t), n - i, Len(sub), Len(rep))
      <4>1. n - k \in Nat
        BY <1>1, <3>2
      <4>2. Fits(Len(rep) + Len(t), (n - k) + Len(sub), Len(sub), Len(rep))
        BY <1>1, <3>4, <3>5, <4>1, FitsReplaced
      <4> QED
        BY <3>2, <4>2
    <3>7. SubSeq(str, i + 1, n) = sub \o SubSeq(str, k + 1, n)
      <4>1. i + 1 \in 1 .. Len(str) + 1 /\ k \in (i + 1) - 1 .. Len(str) /\ n \in k .. Len(str)
        BY <1>1, <3>2 DEF k
      <4> QED
        BY <3>2, <4>1, ConcatAdjacentSubSeq
    <3> QED
      BY <3>1, <3>4, <3>5, <3>6, <3>7 DEF GoodReplaced
  <2>4. CASE i # n /\ ~At(str, sub, i)
    <3> DEFINE c == str[i + 1]
               t == f[i + 1]
    <3>1. f[i] = <<c>> \o t
      BY <2>1, <2>4 DEF ReplaceFrom
    <3>2. i + 1 \in 0 .. n /\ n - (i + 1) < far /\ (n - (i + 1)) + 1 = n - i /\ c \in S
      BY <1>1, <2>4
    <3>3. Good(i + 1)
      <4> HIDE DEF Good, c
      <4> QED
        BY <1>4, <3>2
    <3>4. /\ t \in Seq(S) /\ Fits(Len(t), n - (i + 1), Len(sub), Len(rep))
          /\ rep = sub => t = SubSeq(str, (i + 1) + 1, n)
      BY <3>3 DEF GoodReplaced
    <3> HIDE DEF t
    <3>5. <<c>> \o t \in Seq(S) /\ Len(<<c>> \o t) = 1 + Len(t) /\ Len(t) \in Nat
      <4> HIDE DEF c
      <4>1. <<c>> \in Seq(S) /\ Len(<<c>>) = 1
        BY <3>2
      <4> QED
        BY <3>4, <4>1, ConcatProperties, LenProperties
    <3>6. Fits(1 + Len(t), n - i, Len(sub), Len(rep))
      <4>1. n - (i + 1) \in Nat
        BY <1>1, <2>4
      <4>2. Fits(1 + Len(t), (n - (i + 1)) + 1, Len(sub), Len(rep))
        BY <1>1, <3>4, <3>5, <4>1, FitsKept
      <4> QED
        BY <3>2, <4>2
    <3>7. SubSeq(str, i + 1, n) = <<c>> \o SubSeq(str, (i + 1) + 1, n)
      <4>1. i + 1 \in 1 .. Len(str) /\ n \in i + 1 .. Len(str)
        BY <1>1, <2>4
      <4> QED
        BY <4>1, SubSeqRecursiveFirst
    <3> HIDE DEF c
    <3> QED
      BY <3>1, <3>4, <3>5, <3>6, <3>7 DEF GoodReplaced
  <2> QED
    BY <2>2, <2>3, <2>4
<1> HIDE DEF P
<1>5. n + 1 \in P
  <2>1. n + 1 \in Nat
    BY <1>1
  <2> QED
    BY <1>3, <1>4, <2>1, NaturalInduction
<1>6. \A i \in 0 .. n : n - i < n + 1
  BY <1>1
<1> QED
  BY <1>5, <1>6 DEF P, f

LEMMA QuotientBounds ==
  ASSUME NEW x \in Nat, NEW a \in Nat, NEW b \in Nat, b > 0, x * b <= a
  PROVE  x <= a \div b
<1> DEFINE q == a \div b
<1>1. q \in Nat /\ a % b \in 0 .. b - 1 /\ a = b * q + (a % b)
  BY DivisionIs
<1> HIDE DEF q
<1>2. a < b * q + b /\ b * q \in Nat
  BY <1>1
<1>3. ASSUME x >= q + 1 PROVE FALSE
  <2>1. x * b >= (q + 1) * b
    BY <1>1, <1>3
  <2>2. (q + 1) * b = b * q + b
    BY <1>1
  <2> QED
    BY <1>2, <2>1, <2>2
<1> QED
  BY <1>1, <1>3 DEF q

LEMMA ReplaceFits ==
  ASSUME NEW S, NEW str \in Seq(S), NEW sub \in Seq(S), sub # <<>>, NEW rep \in Seq(S)
  PROVE  Len(Replace(str, sub, rep)) + 1 <= ReplaceMemory(str, sub, rep)
<1> DEFINE new == Replace(str, sub, rep)
           n == Len(str)
           u == Len(sub)
           r == Len(rep)
           len == Len(new)
<1>1. n \in Nat /\ u \in Nat /\ u >= 1 /\ r \in Nat
  BY LenProperties, EmptySeq
<1>2. GoodReplaced(new, str, sub, rep, 0, S)
  <2>1. 0 \in 0 .. n
    BY <1>1
  <2> QED
    BY <2>1, ReplacedGood, ReplaceIs
<1>3. len \in Nat /\ Fits(len, n, u, r)
  <2>1. n - 0 = n
    BY <1>1
  <2> HIDE DEF new
  <2> QED
    BY <1>2, <2>1, LenProperties DEF GoodReplaced
<1>4. ReplaceMemory(str, sub, rep) = (IF r > u THEN (r * n) \div u + 1 ELSE n) + 1
  BY DEF ReplaceMemory
<1> HIDE DEF n, u, r, len
<1>5. CASE r > u
  <2>1. len * u <= r * n /\ r * n \in Nat
    BY <1>1, <1>3, <1>5 DEF Fits
  <2> DEFINE a == r * n
  <2>2. len * u <= a /\ a \in Nat
    BY <2>1
  <2> HIDE DEF a
  <2>3. len <= a \div u /\ a \div u \in Int
    <3>1. a \in Int /\ u > 0
      BY <1>1, <2>2
    <3>2. a \div u \in Int
      BY ONLY <1>1, <3>1, DivisionIs
    <3> QED
      BY ONLY <1>1, <1>3, <2>2, <3>1, <3>2, QuotientBounds
  <2> QED
    BY <1>3, <1>4, <1>5, <2>3 DEF a, len
<1>6. CASE ~(r > u)
  <2>1. len <= n
    BY <1>3, <1>6 DEF Fits
  <2> QED
    BY <1>1, <1>3, <1>4, <1>6, <2>1 DEF len
<1> QED
  BY <1>5, <1>6

(* A single character is replaced everywhere.                              *)
OneReplaced(c, sub, rep) == IF c = sub[1] THEN rep ELSE <<c>>
AllReplaced(str, sub, rep) == [i \in DOMAIN str |-> OneReplaced(str[i], sub, rep)]

LEMMA ReplacesEverywhere ==
  ASSUME NEW S, NEW str \in Seq(S), NEW sub \in Seq(S), Len(sub) = 1, NEW rep \in Seq(S)
  PROVE  Replace(str, sub, rep) = FlattenSeq(AllReplaced(str, sub, rep))
<1> DEFINE f == Replaced(str, sub, rep)
           n == Len(str)
           seqs == AllReplaced(str, sub, rep)
           Good(k) == f[0] = Joined(seqs, k) \o f[k]
           P == {k \in Nat : k <= n => Good(k)}
<1>1. /\ n \in Nat /\ sub # <<>> /\ DOMAIN str = 1 .. n
      /\ \A i \in 1 .. n : str[i] \in S
  <2>1. sub # <<>>
    <3>1. SUFFICES ASSUME sub = <<>> PROVE FALSE
      OBVIOUS
    <3>2. Len(sub) = 0
      BY <3>1, EmptySeq
    <3> QED
      BY <3>2
  <2> QED
    BY <2>1, LenProperties, ElementOfSeq
<1>2. \A i \in 0 .. n : f[i] = ReplaceFrom(f, str, sub, rep, i) /\ f[i] \in Seq(S)
  <2>1. \A i \in 0 .. n : GoodReplaced(f[i], str, sub, rep, i, S)
    BY <1>1, ReplacedGood
  <2> QED
    BY <1>1, <2>1, ReplacedIs DEF GoodReplaced
<1> HIDE DEF f
<1>3. \A k \in 1 .. n : seqs[k] = OneReplaced(str[k], sub, rep)
  BY <1>1 DEF AllReplaced
<1>4. AreSequences(seqs, n, S)
  <2>1. \A c \in S : OneReplaced(c, sub, rep) \in Seq(S)
    BY DEF OneReplaced
  <2>2. seqs = [k \in 1 .. n |-> OneReplaced(str[k], sub, rep)]
    BY <1>1 DEF AllReplaced
  <2> HIDE DEF seqs
  <2>3. seqs \in [1 .. n -> Seq(S)]
    BY <1>1, <2>1, <2>2
  <2> QED
    BY <1>1, <2>3, ArePieces
<1> HIDE DEF seqs, n
<1>5. 0 \in P
  <2>1. Joined(seqs, 0) = <<>> /\ f[0] \in Seq(S)
    BY <1>1, <1>2, <1>4, JoinedIs
  <2>2. <<>> \o f[0] = f[0]
    BY <2>1, ConcatEmptySeq
  <2> QED
    BY <2>1, <2>2
<1>6. ASSUME NEW k \in Nat, k \in P PROVE k + 1 \in P
  <2> HIDE DEF Good
  <2> SUFFICES ASSUME k + 1 <= n PROVE Good(k + 1)
    OBVIOUS
  <2>1. k \in 0 .. n - 1 /\ k \in 0 .. n /\ k + 1 \in 1 .. n /\ k + 1 \in 0 .. n /\ k # n
    BY <1>1
  <2>2. f[0] = Joined(seqs, k) \o f[k]
    <3>1. Good(k)
      BY <1>1, <1>6
    <3> QED
      BY <3>1 DEF Good
  <2> DEFINE c == str[k + 1]
             piece == OneReplaced(c, sub, rep)
  <2>3. f[k] = piece \o f[k + 1]
    <3>1. f[k] = IF At(str, sub, k) THEN rep \o f[k + 1] ELSE <<c>> \o f[k + 1]
      BY <1>2, <2>1 DEF ReplaceFrom, n
    <3>2. At(str, sub, k) <=> c = sub[1]
      <4>1. SubSeq(str, k + 1, k + 1) = <<c>>
        <5>1. /\ SubSeq(str, k + 1, k + 1) \in Seq(S)
              /\ Len(SubSeq(str, k + 1, k + 1)) = 1
              /\ SubSeq(str, k + 1, k + 1)[1] = c
          BY <1>1, <2>1, SubSeqProperties
        <5>2. <<c>> \in Seq(S) /\ Len(<<c>>) = 1 /\ <<c>>[1] = c
          BY <1>1, <2>1
        <5> DEFINE one == SubSeq(str, k + 1, k + 1)
        <5> HIDE DEF c
        <5>3. one \in Seq(S) /\ Len(one) = 1 /\ one[1] = c
          BY <5>1
        <5> HIDE DEF one
        <5>4. one = <<c>>
          BY <5>2, <5>3, SeqEqual
        <5> QED
          BY <5>4 DEF one
      <4>2. sub = <<sub[1]>>
        <5>1. sub[1] \in S
          <6>1. 1 \in 1 .. Len(sub)
            OBVIOUS
          <6> QED
            BY <6>1, ElementOfSeq
        <5>2. <<sub[1]>> \in Seq(S) /\ Len(<<sub[1]>>) = 1 /\ <<sub[1]>>[1] = sub[1]
          BY <5>1
        <5> QED
          BY <5>2, SeqEqual
      <4>3. At(str, sub, k) <=> SubSeq(str, k + 1, k + 1) = sub
        BY <1>1, <2>1 DEF At, n
      <4> HIDE DEF c
      <4>4. <<c>> = <<sub[1]>> <=> c = sub[1]
        OBVIOUS
      <4> QED
        BY <4>1, <4>2, <4>3, <4>4
    <3> HIDE DEF c
    <3> QED
      BY <3>1, <3>2 DEF OneReplaced
  <2>4. seqs[k + 1] = piece /\ piece \in Seq(S)
    BY <1>3, <1>4, <2>1 DEF AreSequences
  <2> HIDE DEF piece
  <2>5. Joined(seqs, k + 1) = Joined(seqs, k) \o piece /\ Joined(seqs, k) \in Seq(S)
    BY <1>1, <1>4, <2>1, <2>4, JoinedIs, JoinedType
  <2>6. f[k + 1] \in Seq(S)
    BY <1>2, <2>1
  <2> DEFINE before == Joined(seqs, k)
             after == f[k + 1]
  <2>7. (before \o piece) \o after = before \o (piece \o after)
    <3>1. before \in Seq(S) /\ piece \in Seq(S) /\ after \in Seq(S)
      BY <2>4, <2>5, <2>6
    <3> HIDE DEF before, after
    <3> QED
      BY <3>1, ConcatAssociative
  <2>8. f[0] = Joined(seqs, k + 1) \o after
    <3>1. f[0] = before \o (piece \o after) /\ Joined(seqs, k + 1) = before \o piece
      BY <2>2, <2>3, <2>5
    <3> HIDE DEF before, after
    <3> QED
      BY <2>7, <3>1
  <2> QED
    BY <2>8 DEF Good
<1> HIDE DEF P
<1>7. n \in P
  BY <1>1, <1>5, <1>6, NaturalInduction
<1>8. f[0] = Joined(seqs, n) \o f[n] /\ f[n] = <<>>
  <2>1. n \in 0 .. n /\ n <= n
    BY <1>1
  <2> QED
    BY <1>2, <1>7, <2>1 DEF P, ReplaceFrom, n
<1>9. f[0] = FlattenSeq(seqs)
  <2>1. FlattenSeq(seqs) = Joined(seqs, n) /\ Joined(seqs, n) \in Seq(S)
    <3>1. n \in 0 .. n
      BY <1>1
    <3> QED
      BY <1>1, <1>4, <3>1, JoinedIs, JoinedType
  <2> QED
    BY <1>8, <2>1, ConcatEmptySeq
<1> QED
  BY <1>1, <1>9, ReplaceIs DEF f, seqs

LEMMA ReplacesExactly ==
  ASSUME NEW S, NEW str \in Seq(S), NEW sub \in Seq(S), sub # <<>>, NEW rep \in Seq(S)
  PROVE  ReplacesExact(str, sub, rep)
<1>1. rep = sub => Replace(str, sub, rep) = str
  <2>1. 0 \in 0 .. Len(str)
    BY LenProperties
  <2>2. GoodReplaced(Replace(str, sub, rep), str, sub, rep, 0, S)
    BY <2>1, ReplacedGood, ReplaceIs
  <2> QED
    BY <2>2, SubSeqFull DEF GoodReplaced
<1>2. Len(sub) = 1 => Replace(str, sub, rep) = FlattenSeq(
        [i \in DOMAIN str |-> IF str[i] = sub[1] THEN rep ELSE <<str[i]>>])
  BY ReplacesEverywhere DEF AllReplaced, OneReplaced
<1> QED
  BY <1>1, <1>2, ReplaceFits DEF ReplacesExact

-----------------------------------------------------------------------------
(* Trimming.                                                               *)
LEMMA FirstOnes ==
  ASSUME NEW n \in Nat, NEW T \in SUBSET (1 .. n), \A i \in T : \A k \in 1 .. i : k \in T
  PROVE  Cardinality(T) \in 0 .. n /\ T = 1 .. Cardinality(T)
<1>1. CASE T = {}
  BY <1>1, FS_EmptySet
<1>2. CASE T # {}
  <2>1. IsFiniteSet(T) /\ T \in SUBSET Int
    <3>1. IsFiniteSet(1 .. n)
      BY FS_Interval
    <3>2. IsFiniteSet(T)
      BY <3>1, FS_Subset
    <3>3. 1 .. n \subseteq Int
      OBVIOUS
    <3> QED
      BY <3>2, <3>3
  <2>2. PICK m \in T : \A y \in T : m >= y
    BY <1>2, <2>1, LargestExists
  <2>3. T = 1 .. m /\ m \in 1 .. n
    <3>1. m \in 1 .. n /\ \A k \in 1 .. m : k \in T
      BY <2>2
    <3>2. \A y \in T : y \in 1 .. n /\ y <= m
      BY <2>1, <2>2
    <3>3. \A y \in T : y \in 1 .. m
      BY <3>1, <3>2
    <3> QED
      BY <3>1, <3>3
  <2>4. Cardinality(1 .. m) = m
    <3>1. m \in Int /\ 1 \in Int /\ 1 <= m
      BY <2>3
    <3> QED
      BY <3>1, FS_Interval
  <2> QED
    BY <2>3, <2>4
<1> QED
  BY <1>1, <1>2

LEMMA TrimsExactly == ASSUME NEW S, NEW str \in Seq(S) PROVE TrimsExact(str)
<1> DEFINE n == Len(str)
           kept == {i \in DOMAIN str : \E k \in i .. Len(str) : str[k] \notin Spaces}
           len == Cardinality(kept)
           spaces == {i \in 1 .. len : \A k \in 1 .. i : str[k] \in Spaces}
           sp == Cardinality(spaces)
           new == Trim(str)
<1>1. n \in Nat /\ DOMAIN str = 1 .. n /\ \A i \in 1 .. n : str[i] \in S
  BY LenProperties
<1>2. new = SubSeq(str, sp + 1, len)
  BY DEF Trim
<1>3. len \in 0 .. n /\ kept = 1 .. len
  <2>1. kept \in SUBSET (1 .. n) /\ \A i \in kept : \A k \in 1 .. i : k \in kept
    BY <1>1
  <2> HIDE DEF kept
  <2> QED
    BY <1>1, <2>1, FirstOnes
<1>4. /\ \A k \in 1 .. n : k > len => str[k] \in Spaces
      /\ len > 0 => str[len] \notin Spaces
  <2>1. \A k \in 1 .. n : str[k] \notin Spaces => k \in 1 .. len
    BY <1>1, <1>3
  <2>2. len > 0 => \E k \in len .. n : str[k] \notin Spaces
    <3>1. len > 0 => len \in kept
      <4> HIDE DEF kept, len
      <4>1. len > 0 => len \in 1 .. len
        BY <1>3
      <4> QED
        BY <1>3, <4>1
    <3> QED
      BY <3>1
  <2> HIDE DEF len, n
  <2> QED
    BY <1>1, <1>3, <2>1, <2>2
<1> HIDE DEF len
<1>5. sp \in 0 .. len /\ spaces = 1 .. sp
  <2>1. spaces \in SUBSET (1 .. len) /\ \A i \in spaces : \A k \in 1 .. i : k \in spaces
    BY <1>3
  <2>2. len \in Nat
    BY <1>3
  <2> HIDE DEF spaces
  <2> QED
    BY <2>1, <2>2, FirstOnes
<1>6. /\ \A k \in 1 .. sp : str[k] \in Spaces
      /\ len > 0 => sp < len /\ str[sp + 1] \notin Spaces
  <2>1. \A k \in 1 .. sp : \A x \in 1 .. k : str[x] \in Spaces
    BY <1>5
  <2>2. \A k \in 1 .. sp : str[k] \in Spaces
    <3> HIDE DEF sp
    <3>1. \A k \in 1 .. sp : k \in 1 .. k
      OBVIOUS
    <3> QED
      BY <2>1, <3>1
  <2>3. \A k \in 1 .. len : (\A x \in 1 .. k : str[x] \in Spaces) => k \in 1 .. sp
    BY <1>5
  <2> HIDE DEF sp
  <2>4. ASSUME len > 0 PROVE sp < len /\ str[sp + 1] \notin Spaces
    <3>1. sp # len
      BY <1>3, <1>4, <1>5, <2>2, <2>4
    <3>2. sp + 1 \in 1 .. len /\ sp + 1 \notin 1 .. sp
      BY <1>3, <1>5, <3>1
    <3>3. PICK x \in 1 .. sp + 1 : str[x] \notin Spaces
      BY <2>3, <3>2
    <3>4. x = sp + 1
      BY <1>5, <2>2, <3>3
    <3> QED
      BY <1>3, <1>5, <3>2, <3>3, <3>4
  <2> QED
    BY <2>2, <2>4
<1> HIDE DEF sp, n, new
<1>7. /\ new \in Seq(S) /\ Len(new) = IF sp + 1 <= len THEN len - (sp + 1) + 1 ELSE 0
      /\ \A i \in 1 .. len - (sp + 1) + 1 : new[i] = str[(sp + 1) + i - 1]
  <2>1. sp + 1 \in Int /\ len \in Int /\ \A i \in sp + 1 .. len : str[i] \in S
    BY <1>1, <1>3, <1>5
  <2> QED
    BY <1>2, <2>1, SubSeqProperties
<1>8. CASE len = 0
  <2>1. sp = 0 /\ Len(new) = 0
    BY <1>5, <1>7, <1>8
  <2>2. new = <<>>
    BY <1>7, <2>1, EmptySeq
  <2>3. new = SubSeq(str, 0 + 1, 0 + Len(new))
    BY <1>2, <1>8, <2>1
  <2>4. \A k \in DOMAIN str \ (0 + 1 .. 0 + Len(new)) : str[k] \in Spaces
    BY <1>1, <1>4, <1>8
  <2>5. 0 \in 0 .. Len(str)
    BY <1>1 DEF n
  <2> QED
    BY <2>2, <2>3, <2>4, <2>5 DEF TrimsExact, new
<1>9. CASE len > 0
  <2>1. Len(new) = len - sp /\ sp + Len(new) = len /\ Len(new) >= 1 /\ sp \in 0 .. n
    BY <1>1, <1>3, <1>5, <1>6, <1>7, <1>9
  <2>2. new[1] = str[sp + 1] /\ new[Len(new)] = str[len]
    <3>1. 1 \in 1 .. len - (sp + 1) + 1 /\ Len(new) \in 1 .. len - (sp + 1) + 1
      BY <1>3, <1>5, <2>1
    <3>2. new[1] = str[(sp + 1) + 1 - 1] /\ new[Len(new)] = str[(sp + 1) + Len(new) - 1]
      BY <1>7, <3>1
    <3>3. (sp + 1) + 1 - 1 = sp + 1 /\ (sp + 1) + Len(new) - 1 = len
      BY <1>3, <1>5, <2>1
    <3> QED
      BY <3>2, <3>3
  <2>3. new[1] \notin Spaces /\ Last(new) \notin Spaces
    BY <1>4, <1>6, <1>9, <2>2 DEF Last
  <2>4. new = SubSeq(str, sp + 1, sp + Len(new))
    BY <1>2, <2>1
  <2>5. \A k \in DOMAIN str \ (sp + 1 .. sp + Len(new)) : str[k] \in Spaces
    BY <1>1, <1>3, <1>4, <1>5, <1>6, <2>1
  <2>6. sp \in 0 .. Len(str)
    BY <2>1 DEF n
  <2> QED
    BY <2>3, <2>4, <2>5, <2>6 DEF TrimsExact, new
<1> QED
  BY <1>3, <1>8, <1>9

LEMMA SubstringsExactly ==
  ASSUME NEW S, NEW str \in Seq(S), MaxText \in Nat
  PROVE  SubstringsExact(str)
<1> SUFFICES ASSUME NEW st \in 0 .. Len(str), NEW n \in 0 .. MaxText
             PROVE  Substring(str, st, n) =
                      SubSeq(str, st + 1, IF n = 0 THEN Len(str) ELSE Min({st + n, Len(str)}))
  BY DEF SubstringsExact
<1>1. Len(str) \in Nat
  BY LenProperties
<1> DEFINE len == Len(str)
<1>2. IsMin(IF st + n > len THEN len ELSE st + n, {st + n, len}) /\ {st + n, len} \in SUBSET Int
  BY <1>1 DEF IsMin
<1>3. Min({st + n, len}) = IF st + n > len THEN len ELSE st + n
  BY <1>2, MinIs
<1>4. (IF n <= 0 \/ st + n > len THEN len - st ELSE n) =
        IF n = 0 \/ st + n > len THEN len - st ELSE n
  OBVIOUS
<1>5. Substring(str, st, n) = SubSeq(str, st + 1, st + (IF n <= 0 \/ st + n > len THEN len - st ELSE n))
  BY DEF Substring
<1>6. st + (IF n <= 0 \/ st + n > len THEN len - st ELSE n) =
        IF n = 0 THEN len ELSE IF st + n > len THEN len ELSE st + n
  BY <1>1
<1> QED
  BY <1>3, <1>5, <1>6

-----------------------------------------------------------------------------
(* Bytes in hexadecimal: the digits differ.                                *)
LEMMA HexDigitsAre ==
  /\ DOMAIN HexDigits = 1 .. 16
  /\ \A a, b \in 1 .. 16 : HexDigits[a] = HexDigits[b] => a = b
<1> DEFINE H == HexDigits
<1>1. DOMAIN H = 1 .. 16
  BY DEF HexDigits
<1>2. /\ H[1] = "0" /\ H[2] = "1" /\ H[3] = "2" /\ H[4] = "3"
      /\ H[5] = "4" /\ H[6] = "5" /\ H[7] = "6" /\ H[8] = "7"
      /\ H[9] = "8" /\ H[10] = "9" /\ H[11] = "a" /\ H[12] = "b"
      /\ H[13] = "c" /\ H[14] = "d" /\ H[15] = "e" /\ H[16] = "f"
  BY DEF HexDigits
<1> HIDE DEF H
<1>3. ASSUME NEW a \in 1 .. 16, NEW b \in 1 .. 16, H[a] = H[b] PROVE a = b
  <2>1. \/ a = 1 \/ a = 2 \/ a = 3 \/ a = 4 \/ a = 5 \/ a = 6 \/ a = 7 \/ a = 8
        \/ a = 9 \/ a = 10 \/ a = 11 \/ a = 12 \/ a = 13 \/ a = 14 \/ a = 15 \/ a = 16
    OBVIOUS
  <2>2. \/ b = 1 \/ b = 2 \/ b = 3 \/ b = 4 \/ b = 5 \/ b = 6 \/ b = 7 \/ b = 8
        \/ b = 9 \/ b = 10 \/ b = 11 \/ b = 12 \/ b = 13 \/ b = 14 \/ b = 15 \/ b = 16
    OBVIOUS
  <2> QED
    BY <1>2, <1>3, <2>1, <2>2
<1> QED
  BY <1>1, <1>3 DEF H

LEMMA HexValueIs == ASSUME NEW v \in 0 .. 15 PROVE HexValue(HexDigits[v + 1]) = v
<1> DEFINE c == HexDigits[v + 1]
           i == CHOOSE i \in DOMAIN HexDigits : HexDigits[i] = c
<1>1. v + 1 \in 1 .. 16
  OBVIOUS
<1>2. i \in 1 .. 16 /\ HexDigits[i] = c
  BY <1>1, HexDigitsAre
<1>3. HexValue(c) = i - 1
  BY DEF HexValue
<1> HIDE DEF i
<1>4. i = v + 1
  BY <1>1, <1>2, HexDigitsAre
<1> HIDE DEF c
<1> QED
  BY <1>3, <1>4 DEF c

LEMMA UnhexIs ==
  ASSUME NEW v \in 0 .. 255
  PROVE  Unhex(HexDigits[(v \div 16) + 1], HexDigits[(v % 16) + 1]) = <<"byte", v>>
<1>1. v \div 16 \in 0 .. 15 /\ v % 16 \in 0 .. 15 /\ 16 * (v \div 16) + (v % 16) = v
  BY DivisionIs
<1> DEFINE a == v \div 16
           b == v % 16
<1>2. a \in 0 .. 15 /\ b \in 0 .. 15 /\ 16 * a + b = v
  BY <1>1
<1> HIDE DEF a, b
<1>3. HexValue(HexDigits[a + 1]) = a /\ HexValue(HexDigits[b + 1]) = b
  BY <1>2, HexValueIs
<1> QED
  BY <1>2, <1>3 DEF Unhex, a, b

(* Sequences of the same length stand at its multiples.                    *)
OfLength(seqs, n, w) == \A i \in 1 .. n : Len(seqs[i]) = w
Evenly(all, seqs, n, w) ==
  /\ Len(all) = w * n
  /\ \A k \in 0 .. n - 1, x \in 1 .. w : all[w * k + x] = seqs[k + 1][x]

LEMMA EvenPieces ==
  ASSUME NEW S, NEW seqs, NEW n \in Nat, AreSequences(seqs, n, S),
         NEW w \in Nat, OfLength(seqs, n, w)
  PROVE  Evenly(FlattenSeq(seqs), seqs, n, w)
<1> DEFINE at(k) == Len(Joined(seqs, k))
           P == {k \in Nat : k <= n => at(k) = w * k}
<1>1. \A k \in 0 .. n - 1 :
        /\ at(k + 1) = at(k) + Len(seqs[k + 1])
        /\ IsPiece(FlattenSeq(seqs), at(k), seqs[k + 1])
  BY PieceAt
<1>2. at(0) = 0 /\ FlattenSeq(seqs) = Joined(seqs, n)
  BY JoinedIs
<1> HIDE DEF at
<1>3. 0 \in P
  BY <1>2
<1>4. ASSUME NEW k \in Nat, k \in P PROVE k + 1 \in P
  <2> SUFFICES ASSUME k + 1 <= n PROVE at(k + 1) = w * (k + 1)
    OBVIOUS
  <2>1. k \in 0 .. n - 1 /\ k + 1 \in 1 .. n
    OBVIOUS
  <2>2. at(k + 1) = at(k) + w /\ at(k) = w * k
    BY <1>1, <1>4, <2>1 DEF OfLength
  <2>3. w * (k + 1) = w * k + w
    OBVIOUS
  <2> QED
    BY <2>2, <2>3
<1> HIDE DEF P
<1>5. \A k \in Nat : k \in P
  BY <1>3, <1>4, NaturalInduction
<1>6. \A k \in 0 .. n : at(k) = w * k
  BY <1>5 DEF P
<1>7. ASSUME NEW k \in 0 .. n - 1, NEW x \in 1 .. w
      PROVE  FlattenSeq(seqs)[w * k + x] = seqs[k + 1][x]
  <2>1. k + 1 \in 1 .. n /\ k \in 0 .. n
    OBVIOUS
  <2>2. at(k) = w * k /\ Len(seqs[k + 1]) = w
    BY <1>6, <2>1 DEF OfLength
  <2>3. FlattenSeq(seqs)[at(k) + x] = seqs[k + 1][x]
    BY <1>1, <2>2 DEF IsPiece
  <2> QED
    BY <2>2, <2>3
<1>8. Len(FlattenSeq(seqs)) = w * n
  <2>1. n \in 0 .. n
    OBVIOUS
  <2> QED
    BY <1>2, <1>6, <2>1 DEF at
<1> QED
  BY <1>7, <1>8 DEF Evenly

HexPairs(bytes) ==
  [i \in DOMAIN bytes |->
     <<HexDigits[(bytes[i] \div 16) + 1], HexDigits[(bytes[i] % 16) + 1]>>]

LEMMA HexIs ==
  ASSUME NEW bytes \in Seq(0 .. 255)
  PROVE  /\ Len(Hex(bytes)) = 2 * Len(bytes)
         /\ \A j \in 1 .. Len(bytes) :
              Unhex(Hex(bytes)[2 * j - 1], Hex(bytes)[2 * j]) = <<"byte", bytes[j]>>
<1> DEFINE n == Len(bytes)
           seqs == HexPairs(bytes)
           H == {HexDigits[i] : i \in 1 .. 16}
           Pair(v) == <<HexDigits[(v \div 16) + 1], HexDigits[(v % 16) + 1]>>
<1>1. n \in Nat /\ DOMAIN bytes = 1 .. n /\ \A i \in 1 .. n : bytes[i] \in 0 .. 255
  BY LenProperties
<1>2. ASSUME NEW v \in 0 .. 255 PROVE Pair(v) \in Seq(H) /\ Len(Pair(v)) = 2
  <2>1. (v \div 16) + 1 \in 1 .. 16 /\ (v % 16) + 1 \in 1 .. 16
    OBVIOUS
  <2>2. HexDigits[(v \div 16) + 1] \in H /\ HexDigits[(v % 16) + 1] \in H
    BY <2>1
  <2> HIDE DEF H
  <2> QED
    BY <2>2
<1> HIDE DEF H
<1>3. \A i \in 1 .. n : seqs[i] = Pair(bytes[i])
  BY <1>1 DEF HexPairs
<1>4. AreSequences(seqs, n, H) /\ OfLength(seqs, n, 2)
  <2>1. seqs = [i \in 1 .. n |-> Pair(bytes[i])]
    BY <1>1 DEF HexPairs
  <2> HIDE DEF seqs, Pair, n
  <2>2. seqs \in [1 .. n -> Seq(H)]
    BY <1>1, <1>2, <2>1
  <2>3. AreSequences(seqs, n, H)
    BY <1>1, <2>2, ArePieces
  <2>4. ASSUME NEW i \in 1 .. n PROVE Len(seqs[i]) = 2
    <3>1. bytes[i] \in 0 .. 255 /\ seqs[i] = Pair(bytes[i])
      BY <1>1, <1>3
    <3> QED
      BY <1>2, <3>1
  <2> QED
    BY <2>3, <2>4 DEF OfLength
<1>5. Hex(bytes) = FlattenSeq(seqs)
  BY DEF Hex, HexPairs
<1> HIDE DEF seqs
<1>6. /\ Len(Hex(bytes)) = 2 * n
      /\ \A k \in 0 .. n - 1, x \in 1 .. 2 : Hex(bytes)[2 * k + x] = seqs[k + 1][x]
  <2>1. 2 \in Nat
    OBVIOUS
  <2> HIDE DEF n
  <2>2. /\ Len(FlattenSeq(seqs)) = 2 * n
        /\ \A k \in 0 .. n - 1, x \in 1 .. 2 : FlattenSeq(seqs)[2 * k + x] = seqs[k + 1][x]
    BY <1>1, <1>4, <2>1, EvenPieces DEF Evenly
  <2> QED
    BY <1>5, <2>2
<1>7. ASSUME NEW j \in 1 .. n
      PROVE  Unhex(Hex(bytes)[2 * j - 1], Hex(bytes)[2 * j]) = <<"byte", bytes[j]>>
  <2>1. j - 1 \in 0 .. n - 1 /\ 2 * (j - 1) + 1 = 2 * j - 1 /\ 2 * (j - 1) + 2 = 2 * j
        /\ (j - 1) + 1 = j
    BY <1>1
  <2>2. Hex(bytes)[2 * (j - 1) + 1] = seqs[(j - 1) + 1][1]
        /\ Hex(bytes)[2 * (j - 1) + 2] = seqs[(j - 1) + 1][2]
    <3> DEFINE k == j - 1
    <3>1. k \in 0 .. n - 1 /\ 1 \in 1 .. 2 /\ 2 \in 1 .. 2
      BY <2>1
    <3> HIDE DEF k
    <3>2. Hex(bytes)[2 * k + 1] = seqs[k + 1][1] /\ Hex(bytes)[2 * k + 2] = seqs[k + 1][2]
      BY <1>6, <3>1
    <3> QED
      BY <3>2 DEF k
  <2>3. seqs[j] = Pair(bytes[j])
    BY <1>3
  <2> DEFINE v == bytes[j]
  <2>4. v \in 0 .. 255
    BY <1>1
  <2> HIDE DEF v
  <2>5. /\ Pair(v)[1] = HexDigits[(v \div 16) + 1]
        /\ Pair(v)[2] = HexDigits[(v % 16) + 1]
    OBVIOUS
  <2> HIDE DEF Pair
  <2> QED
    BY <2>1, <2>2, <2>3, <2>4, <2>5, UnhexIs DEF v
<1> QED
  BY <1>6, <1>7

-----------------------------------------------------------------------------
(* Base64: three bytes in four symbols.                                    *)
Recombine(x, y, z, one, second, third, four) ==
  /\ third # 64 /\ four # 64
  /\ (one * 4 + (second \div 16)) % 256 = x
  /\ (second * 16 + (third \div 4)) % 256 = y
  /\ (third * 64 + four) % 256 = z

LEMMA Sixths ==
  ASSUME NEW x \in 0 .. 255, NEW y \in 0 .. 255, NEW z \in 0 .. 255
  PROVE  Recombine(x, y, z, x \div 4, (x % 4) * 16 + (y \div 16),
                   (y % 16) * 4 + (z \div 64), z % 64)
<1> DEFINE xh == x \div 4
           xl == x % 4
           yh == y \div 16
           yl == y % 16
           zh == z \div 64
           zl == z % 64
           second == xl * 16 + yh
           third == yl * 4 + zh
<1>1. /\ xh \in 0 .. 63 /\ xl \in 0 .. 3 /\ x = 4 * xh + xl
      /\ yh \in 0 .. 15 /\ yl \in 0 .. 15 /\ y = 16 * yh + yl
      /\ zh \in 0 .. 3 /\ zl \in 0 .. 63 /\ z = 64 * zh + zl
  OBVIOUS
<1> HIDE DEF xh, xl, yh, yl, zh, zl
<1>2. third \in 0 .. 63 /\ second \in Nat
  BY <1>1
<1>3. second \div 16 = xl /\ third \div 4 = yl
  BY <1>1
<1>4. xh * 4 + xl = x
  BY <1>1
<1>5. second * 16 + yl = 256 * xl + y /\ third * 64 + zl = 256 * yl + z
  BY <1>1
<1> HIDE DEF second, third
<1>6. /\ (xh * 4 + (second \div 16)) % 256 = x
      /\ (second * 16 + (third \div 4)) % 256 = y
      /\ (third * 64 + zl) % 256 = z
  <2>1. x % 256 = x
    OBVIOUS
  <2>2. \A k \in Nat, v \in 0 .. 255 : (256 * k + v) % 256 = v
    OBVIOUS
  <2> QED
    BY <1>1, <1>3, <1>4, <1>5, <2>1, <2>2
<1>7. Recombine(x, y, z, xh, second, third, zl)
  <2>1. third # 64 /\ zl # 64
    BY <1>1, <1>2
  <2> QED
    BY <1>6, <2>1 DEF Recombine
<1> QED
  BY <1>7 DEF second, third, xh, xl, yh, yl, zh, zl

ByteIn(bytes, i) == IF i \in DOMAIN bytes THEN bytes[i] ELSE 0
Quad(bytes, k) ==
  <<ByteIn(bytes, k) \div 4,
    (ByteIn(bytes, k) % 4) * 16 + ByteIn(bytes, k + 1) \div 16,
    IF k + 1 \in DOMAIN bytes
    THEN (ByteIn(bytes, k + 1) % 16) * 4 + ByteIn(bytes, k + 2) \div 64 ELSE Padding,
    IF k + 2 \in DOMAIN bytes THEN ByteIn(bytes, k + 2) % 64 ELSE Padding>>
Quads(bytes) == [q \in 1 .. (Len(bytes) + 2) \div 3 |-> Quad(bytes, 3 * q - 2)]

LEMMA Base64Is == ASSUME NEW bytes PROVE Base64(bytes) = FlattenSeq(Quads(bytes))
BY DEF Base64, Quads, Quad, ByteIn

ThreeFrom(bytes, k) ==
  IF k + 2 <= Len(bytes) THEN <<bytes[k], bytes[k + 1], bytes[k + 2]>>
  ELSE IF k + 1 <= Len(bytes) THEN <<bytes[k], bytes[k + 1]>> ELSE <<bytes[k]>>

LEMMA QuadDecodes ==
  ASSUME NEW bytes \in Seq(0 .. 255), NEW k \in 1 .. Len(bytes), NEW q,
         q[1] = Quad(bytes, k)[1], q[2] = Quad(bytes, k)[2],
         q[3] = Quad(bytes, k)[3], q[4] = Quad(bytes, k)[4]
  PROVE  Base64Bytes(q) = ThreeFrom(bytes, k)
<1> DEFINE n == Len(bytes)
           x == ByteIn(bytes, k)
           y == ByteIn(bytes, k + 1)
           z == ByteIn(bytes, k + 2)
           two == k + 1 \in DOMAIN bytes
           three == k + 2 \in DOMAIN bytes
           third == (y % 16) * 4 + (z \div 64)
<1>1. n \in Nat /\ DOMAIN bytes = 1 .. n /\ \A i \in 1 .. n : bytes[i] \in 0 .. 255
  BY LenProperties
<1>2. /\ x \in 0 .. 255 /\ y \in 0 .. 255 /\ z \in 0 .. 255 /\ x = bytes[k]
      /\ (two <=> k + 1 <= n) /\ (three <=> k + 2 <= n) /\ (three => two)
      /\ (two => y = bytes[k + 1]) /\ (three => z = bytes[k + 2])
      /\ (~three => z = 0) /\ (~two => y = 0)
  BY <1>1 DEF ByteIn
<1>3. /\ q[1] = x \div 4 /\ q[2] = (x % 4) * 16 + (y \div 16)
      /\ q[3] = (IF two THEN third ELSE 64) /\ q[4] = (IF three THEN z % 64 ELSE 64)
  BY DEF Quad, Padding
<1> HIDE DEF x, y, z, two, three, n
<1> DEFINE second == (x % 4) * 16 + (y \div 16)
<1> DEFINE one == x \div 4
           four == z % 64
<1>4. Recombine(x, y, z, one, second, third, four)
  BY <1>2, Sixths
<1>5. /\ q[1] = one /\ q[2] = second
      /\ q[3] = (IF two THEN third ELSE 64) /\ q[4] = (IF three THEN four ELSE 64)
  BY <1>3
<1> HIDE DEF one, second, third, four
<1>6. /\ third # 64 /\ four # 64
      /\ (one * 4 + (second \div 16)) % 256 = x
      /\ (second * 16 + (third \div 4)) % 256 = y
      /\ (third * 64 + four) % 256 = z
  BY <1>4 DEF Recombine
<1>7. CASE three
  <2>1. q[3] = third /\ q[4] = four
    BY <1>2, <1>5, <1>7
  <2>2. Base64Bytes(q) = <<x, y, z>>
    BY <1>5, <1>6, <2>1 DEF Base64Bytes, Padding
  <2> QED
    BY <1>2, <1>7, <2>2 DEF ThreeFrom, n
<1>8. CASE two /\ ~three
  <2>1. q[3] = third /\ q[4] = 64
    BY <1>5, <1>8
  <2>2. Base64Bytes(q) = <<x, y>>
    BY <1>5, <1>6, <2>1 DEF Base64Bytes, Padding
  <2> QED
    BY <1>2, <1>8, <2>2 DEF ThreeFrom, n
<1>9. CASE ~two
  <2>1. q[3] = 64
    BY <1>5, <1>9
  <2>2. Base64Bytes(q) = <<x>>
    BY <1>5, <1>6, <2>1 DEF Base64Bytes, Padding
  <2>3. ~(k + 2 <= n) /\ ~(k + 1 <= n)
    BY <1>2, <1>9
  <2> QED
    BY <1>2, <2>2, <2>3 DEF ThreeFrom, n
<1> QED
  BY <1>7, <1>8, <1>9

GroupEnd(bytes, k) == IF k <= Len(bytes) THEN k ELSE Len(bytes)

LEMMA GroupIs ==
  ASSUME NEW bytes \in Seq(0 .. 255), NEW k \in 1 .. Len(bytes)
  PROVE  /\ ThreeFrom(bytes, k) = SubSeq(bytes, k, GroupEnd(bytes, k + 2))
         /\ ThreeFrom(bytes, k) \in Seq(0 .. 255)
<1> DEFINE n == Len(bytes)
           B == 0 .. 255
           end == GroupEnd(bytes, k + 2)
           new == SubSeq(bytes, k, end)
<1>1. n \in Nat /\ \A i \in 1 .. n : bytes[i] \in B
  BY LenProperties
<1>2. end \in k .. n /\ end - k + 1 \in 1 .. 3 /\ k \in 1 .. n
  BY <1>1 DEF GroupEnd
<1> HIDE DEF B
<1>3. /\ new \in Seq(B) /\ Len(new) = end - k + 1
      /\ \A i \in 1 .. end - k + 1 : new[i] = bytes[k + i - 1]
  <2>1. k \in Int /\ end \in Int /\ \A i \in k .. end : bytes[i] \in B
    BY <1>1, <1>2
  <2> HIDE DEF end, n
  <2> QED
    BY <1>2, <2>1, SubSeqProperties
<1> HIDE DEF new, n
<1> DEFINE group == ThreeFrom(bytes, k)
<1>4. group \in Seq(B) /\ Len(group) = end - k + 1 /\ \A i \in 1 .. end - k + 1 : group[i] = bytes[k + i - 1]
  <2>1. CASE k + 2 <= n
    <3>1. group = <<bytes[k], bytes[k + 1], bytes[k + 2]>> /\ end = k + 2
      BY <1>1, <2>1 DEF ThreeFrom, GroupEnd, n
    <3>2. bytes[k] \in B /\ bytes[k + 1] \in B /\ bytes[k + 2] \in B
      BY <1>1, <2>1
    <3>3. end - k + 1 = 3
      BY <3>1
    <3> HIDE DEF end, group
    <3> QED
      BY <3>1, <3>2, <3>3
  <2>2. CASE k + 1 = n
    <3>1. group = <<bytes[k], bytes[k + 1]>> /\ end = k + 1
      BY <1>1, <2>2 DEF ThreeFrom, GroupEnd, n
    <3>2. bytes[k] \in B /\ bytes[k + 1] \in B
      BY <1>1, <2>2
    <3>3. end - k + 1 = 2
      BY <3>1
    <3> HIDE DEF end, group
    <3> QED
      BY <3>1, <3>2, <3>3
  <2>3. CASE k = n
    <3>1. group = <<bytes[k]>> /\ end = k
      BY <1>1, <2>3 DEF ThreeFrom, GroupEnd, n
    <3>2. bytes[k] \in B
      BY <1>1, <2>3
    <3>3. end - k + 1 = 1
      BY <3>1
    <3> HIDE DEF end, group
    <3> QED
      BY <3>1, <3>2, <3>3
  <2> QED
    BY <1>1, <1>2, <2>1, <2>2, <2>3
<1> HIDE DEF group, end
<1>5. group = new
  BY <1>3, <1>4, SeqEqual
<1> QED
  BY <1>4, <1>5 DEF group, new, end, B

Threes(src) ==
  [k \in 1 .. Len(src) \div 4 |-> Base64Bytes(SubSeq(src, 4 * k - 3, 4 * k))]

LEMMA Base64DecodeIs ==
  ASSUME NEW src, NEW dlen
  PROVE  Base64Decode(src, dlen) =
           SubSeq(FlattenSeq(Threes(src)), 1,
                  IF Len(FlattenSeq(Threes(src))) < dlen
                  THEN Len(FlattenSeq(Threes(src))) ELSE dlen)
BY DEF Base64Decode, Threes

LEMMA ThreesAre ==
  ASSUME NEW bytes \in Seq(0 .. 255)
  PROVE  Threes(Base64(bytes)) =
           [k \in 1 .. (Len(bytes) + 2) \div 3 |-> ThreeFrom(bytes, 3 * k - 2)]
<1> DEFINE n == Len(bytes)
           Q == (n + 2) \div 3
           src == Base64(bytes)
           seqs == Quads(bytes)
<1>1. n \in Nat /\ DOMAIN bytes = 1 .. n /\ \A i \in 1 .. n : bytes[i] \in 0 .. 255
  BY LenProperties
<1>2. Q \in Nat /\ \A k \in 1 .. Q : 3 * k - 2 \in 1 .. n
  BY <1>1
<1>3. \A i \in Int : ByteIn(bytes, i) \in 0 .. 255
  BY <1>1 DEF ByteIn
<1>4. ASSUME NEW k \in Int PROVE Quad(bytes, k) \in Seq(Int) /\ Len(Quad(bytes, k)) = 4
  <2> DEFINE x == ByteIn(bytes, k)
             y == ByteIn(bytes, k + 1)
             z == ByteIn(bytes, k + 2)
  <2>1. x \in 0 .. 255 /\ y \in 0 .. 255 /\ z \in 0 .. 255
    BY <1>3
  <2> HIDE DEF x, y, z
  <2> DEFINE one == x \div 4
             second == (x % 4) * 16 + (y \div 16)
             third == IF k + 1 \in DOMAIN bytes THEN (y % 16) * 4 + (z \div 64) ELSE Padding
             four == IF k + 2 \in DOMAIN bytes THEN z % 64 ELSE Padding
  <2>2. one \in Int /\ second \in Int /\ third \in Int /\ four \in Int
    BY <2>1 DEF Padding
  <2>3. Quad(bytes, k) = <<one, second, third, four>>
    BY DEF Quad, x, y, z
  <2> HIDE DEF one, second, third, four
  <2> QED
    BY <2>2, <2>3
<1> HIDE DEF Q, n
<1>5. \A k \in 1 .. Q : seqs[k] = Quad(bytes, 3 * k - 2)
  BY DEF Quads, Q, n
<1>6. AreSequences(seqs, Q, Int) /\ OfLength(seqs, Q, 4)
  <2>1. \A k \in 1 .. Q : 3 * k - 2 \in Int
    BY <1>2
  <2>2. seqs = [k \in 1 .. Q |-> Quad(bytes, 3 * k - 2)]
    BY DEF Quads, Q, n
  <2> HIDE DEF seqs
  <2>3. seqs \in [1 .. Q -> Seq(Int)]
    BY <1>4, <2>1, <2>2
  <2>4. AreSequences(seqs, Q, Int)
    BY <1>2, <2>3, ArePieces
  <2>5. ASSUME NEW k \in 1 .. Q PROVE Len(seqs[k]) = 4
    BY <1>4, <1>5, <2>1
  <2> QED
    BY <2>4, <2>5 DEF OfLength
<1>7. Evenly(src, seqs, Q, 4)
  <2>1. 4 \in Nat
    OBVIOUS
  <2>2. src = FlattenSeq(seqs)
    BY Base64Is
  <2> HIDE DEF src, seqs
  <2> QED
    BY <1>2, <1>6, <2>1, <2>2, EvenPieces
<1> HIDE DEF src, seqs
<1>8. Len(src) = 4 * Q /\ Len(src) \div 4 = Q
  BY <1>2, <1>7 DEF Evenly
<1>9. ASSUME NEW k \in 1 .. Q
      PROVE  Base64Bytes(SubSeq(src, 4 * k - 3, 4 * k)) = ThreeFrom(bytes, 3 * k - 2)
  <2> DEFINE q == SubSeq(src, 4 * k - 3, 4 * k)
             quad == Quad(bytes, 3 * k - 2)
  <2>1. \A x \in 1 .. 4 : q[x] = src[(4 * k - 3) + x - 1]
    <3>1. /\ 4 * k - 3 \in Int /\ 4 * k \in Int
          /\ 1 .. 4 * k - (4 * k - 3) + 1 = 1 .. 4
      BY <1>2
    <3>2. \A i \in 4 * k - 3 .. 4 * k : src[i] \in {src[j] : j \in 4 * k - 3 .. 4 * k}
      OBVIOUS
    <3> DEFINE a == 4 * k - 3
               b == 4 * k
    <3>3. a \in Int /\ b \in Int /\ \A i \in a .. b : src[i] \in {src[j] : j \in a .. b}
      BY <3>1, <3>2
    <3>4. 1 .. b - a + 1 = 1 .. 4
      BY <3>1
    <3> HIDE DEF a, b
    <3>5. \A i \in 1 .. b - a + 1 : SubSeq(src, a, b)[i] = src[a + i - 1]
      BY <3>3, SubSeqProperties
    <3> QED
      BY <3>4, <3>5 DEF a, b
  <2>2. \A x \in 1 .. 4 : src[4 * (k - 1) + x] = seqs[(k - 1) + 1][x]
    <3>1. k - 1 \in 0 .. Q - 1
      BY <1>2
    <3> DEFINE j == k - 1
    <3> HIDE DEF j
    <3>2. \A x \in 1 .. 4 : src[4 * j + x] = seqs[j + 1][x]
      BY <1>7, <3>1 DEF Evenly, j
    <3> QED
      BY <3>2 DEF j
  <2>3. ASSUME NEW x \in 1 .. 4 PROVE q[x] = quad[x]
    <3>1. (4 * k - 3) + x - 1 = 4 * (k - 1) + x /\ (k - 1) + 1 = k
      BY <1>2
    <3>2. q[x] = src[4 * (k - 1) + x]
      BY <2>1, <3>1
    <3>3. src[4 * (k - 1) + x] = seqs[k][x]
      BY <2>2, <3>1
    <3> HIDE DEF q, quad
    <3> QED
      BY <1>5, <3>2, <3>3 DEF quad
  <2> HIDE DEF q, quad
  <2>4. q[1] = quad[1] /\ q[2] = quad[2] /\ q[3] = quad[3] /\ q[4] = quad[4]
    BY <2>3
  <2> DEFINE place == 3 * k - 2
  <2>5. place \in 1 .. Len(bytes) /\ quad = Quad(bytes, place)
    BY <1>2 DEF n, quad
  <2> HIDE DEF place
  <2>6. Base64Bytes(q) = ThreeFrom(bytes, place)
    BY <2>4, <2>5, QuadDecodes
  <2> QED
    BY <2>6 DEF q, place
<1>10. Threes(src) = [k \in 1 .. Q |-> Base64Bytes(SubSeq(src, 4 * k - 3, 4 * k))]
  BY <1>8 DEF Threes
<1>11. Threes(src) = [k \in 1 .. Q |-> ThreeFrom(bytes, 3 * k - 2)]
  BY <1>9, <1>10
<1> QED
  BY <1>11 DEF src, Q, n

LEMMA Base64Decodes ==
  ASSUME NEW bytes \in Seq(0 .. 255)
  PROVE  FlattenSeq(Threes(Base64(bytes))) = bytes
<1> DEFINE B == 0 .. 255
           n == Len(bytes)
           Q == (n + 2) \div 3
           seqs == Threes(Base64(bytes))
           end(k) == GroupEnd(bytes, 3 * k)
           Good(k) == Joined(seqs, k) = SubSeq(bytes, 1, end(k))
           P == {k \in Nat : k <= Q => Good(k)}
<1>1. n \in Nat /\ Q \in Nat /\ \A k \in 1 .. Q : 3 * k - 2 \in 1 .. n
  BY LenProperties
<1>2. seqs = [k \in 1 .. Q |-> ThreeFrom(bytes, 3 * k - 2)]
  BY ThreesAre
<1>3. 3 * Q >= n
  BY <1>1
<1> HIDE DEF Q, seqs
<1>4. ASSUME NEW k \in 1 .. Q
      PROVE  /\ seqs[k] = SubSeq(bytes, 3 * k - 2, end(k)) /\ seqs[k] \in Seq(B)
  <2>1. 3 * k - 2 \in 1 .. Len(bytes) /\ (3 * k - 2) + 2 = 3 * k
    BY <1>1
  <2> DEFINE place == 3 * k - 2
  <2>2. place \in 1 .. Len(bytes) /\ end(k) = GroupEnd(bytes, place + 2)
    BY <2>1
  <2> HIDE DEF place, end
  <2>3. ThreeFrom(bytes, place) = SubSeq(bytes, place, end(k)) /\ ThreeFrom(bytes, place) \in Seq(B)
    BY <2>2, GroupIs
  <2> QED
    BY <1>2, <2>3 DEF place
<1>5. AreSequences(seqs, Q, B)
  <2>1. seqs \in [1 .. Q -> Seq(B)]
    <3> HIDE DEF B
    <3> QED
      BY <1>2, <1>4
  <2> HIDE DEF B
  <2> QED
    BY <1>1, <2>1, ArePieces
<1>6. 0 \in P
  <2>1. end(0) = 0
    BY <1>1 DEF GroupEnd
  <2>2. SubSeq(bytes, 1, 0) = <<>>
    BY SubSeqEmpty
  <2>3. Joined(seqs, 0) = <<>>
    BY <1>1, <1>5, JoinedIs
  <2>4. Good(0)
    BY <2>1, <2>2, <2>3
  <2> HIDE DEF Good
  <2> QED
    BY <2>4
<1>7. ASSUME NEW k \in Nat, k \in P PROVE k + 1 \in P
  <2> HIDE DEF Good
  <2> SUFFICES ASSUME k + 1 <= Q PROVE Good(k + 1)
    OBVIOUS
  <2>1. k \in 0 .. Q - 1 /\ k + 1 \in 1 .. Q /\ Good(k)
    BY <1>1, <1>7
  <2>2. end(k) = 3 * k /\ 3 * (k + 1) - 2 = 3 * k + 1 /\ 3 * k + 1 \in 1 .. n
    <3>1. 3 * (k + 1) - 2 = 3 * k + 1
      OBVIOUS
    <3>2. 3 * (k + 1) - 2 \in 1 .. n
      BY <1>1, <2>1
    <3> QED
      BY <1>1, <3>1, <3>2 DEF GroupEnd
  <2> DEFINE e == end(k + 1)
             t == 3 * k
  <2>3. /\ seqs[k + 1] = SubSeq(bytes, t + 1, e)
        /\ Joined(seqs, k) = SubSeq(bytes, 1, t)
        /\ Joined(seqs, k + 1) = Joined(seqs, k) \o seqs[k + 1]
    <3>1. seqs[k + 1] = SubSeq(bytes, t + 1, e)
      BY <1>4, <2>1, <2>2
    <3>2. Joined(seqs, k) = SubSeq(bytes, 1, t)
      BY <2>1, <2>2 DEF Good
    <3>3. Joined(seqs, k + 1) = Joined(seqs, k) \o seqs[k + 1]
      BY <1>1, <1>5, <2>1, JoinedIs
    <3> QED
      BY <3>1, <3>2, <3>3
  <2>4. e \in t .. Len(bytes) /\ t \in 1 - 1 .. Len(bytes) /\ 1 \in 1 .. Len(bytes) + 1
    BY <1>1, <2>2 DEF GroupEnd
  <2> HIDE DEF e, t
  <2>5. SubSeq(bytes, 1, t) \o SubSeq(bytes, t + 1, e) = SubSeq(bytes, 1, e)
    BY <2>4, ConcatAdjacentSubSeq
  <2> QED
    BY <2>3, <2>5 DEF Good, e
<1> HIDE DEF P, Good
<1>8. Good(Q)
  <2>1. Q \in P
    BY <1>1, <1>6, <1>7, NaturalInduction
  <2> QED
    BY <1>1, <2>1 DEF P
<1>9. end(Q) = n
  BY <1>1, <1>3 DEF GroupEnd
<1>10. FlattenSeq(seqs) = Joined(seqs, Q)
  BY <1>1, <1>5, JoinedIs
<1> QED
  BY <1>8, <1>9, <1>10, SubSeqFull DEF Good, seqs

LEMMA BytesExactly == ASSUME NEW bytes \in Seq(0 .. 255) PROVE BytesExact(bytes)
<1> DEFINE len == Len(bytes)
<1>1. len \in Nat /\ \A i \in 1 .. len : bytes[i] \in 0 .. 255
  BY LenProperties
<1> SUFFICES ASSUME NEW n \in 0 .. len + 1
             PROVE  LET kept == SubSeq(bytes, 1, Min({n, Len(bytes)}))
                    IN  /\ Base64Decode(Base64(bytes), n) = kept
                        /\ GetHex(Hex(bytes), n) = [i \in DOMAIN kept |-> <<"byte", kept[i]>>]
  BY DEF BytesExact
<1> DEFINE m == IF len < n THEN len ELSE n
           kept == SubSeq(bytes, 1, m)
<1>2. Min({n, len}) = m /\ m \in 0 .. len
  <2>1. IsMin(m, {n, len}) /\ {n, len} \in SUBSET Int
    BY <1>1 DEF IsMin
  <2>2. m \in 0 .. len
    BY <1>1
  <2> HIDE DEF m
  <2> QED
    BY <2>1, <2>2, MinIs
<1>3. Base64Decode(Base64(bytes), n) = kept
  BY Base64DecodeIs, Base64Decodes
<1>4. Len(Hex(bytes)) \div 2 = len
  <2>1. Len(Hex(bytes)) = 2 * len
    BY HexIs
  <2> QED
    BY <1>1, <2>1
<1>5. GetHex(Hex(bytes), n) = [j \in 1 .. m |-> Unhex(Hex(bytes)[2 * j - 1], Hex(bytes)[2 * j])]
  BY <1>4 DEF GetHex
<1>6. \A j \in 1 .. len : Unhex(Hex(bytes)[2 * j - 1], Hex(bytes)[2 * j]) = <<"byte", bytes[j]>>
  BY HexIs
<1> HIDE DEF m
<1>7. DOMAIN kept = 1 .. m /\ \A j \in 1 .. m : kept[j] = bytes[j]
  <2>1. \A i \in 1 .. m : bytes[i] \in 0 .. 255
    BY <1>1, <1>2
  <2>2. m \in Int /\ 1 \in Int /\ m - 1 + 1 = m /\ (IF 1 <= m THEN m - 1 + 1 ELSE 0) = m
    BY <1>1, <1>2
  <2> DEFINE B == 0 .. 255
  <2>3. \A i \in 1 .. m : bytes[i] \in B
    BY <2>1
  <2> HIDE DEF B
  <2>4. /\ kept \in Seq(B) /\ Len(kept) = m
        /\ \A i \in 1 .. m : kept[i] = bytes[1 + i - 1]
    BY <2>2, <2>3, SubSeqProperties
  <2>5. \A i \in 1 .. m : 1 + i - 1 = i
    OBVIOUS
  <2> HIDE DEF kept
  <2> QED
    BY <2>4, <2>5, LenProperties
<1> HIDE DEF kept
<1>8. GetHex(Hex(bytes), n) = [j \in DOMAIN kept |-> <<"byte", kept[j]>>]
  <2>1. ASSUME NEW j \in 1 .. m
        PROVE  Unhex(Hex(bytes)[2 * j - 1], Hex(bytes)[2 * j]) = <<"byte", kept[j]>>
    <3>1. j \in 1 .. len
      BY <1>1, <1>2
    <3>2. Unhex(Hex(bytes)[2 * j - 1], Hex(bytes)[2 * j]) = <<"byte", bytes[j]>>
      BY <1>6, <3>1
    <3> QED
      BY <1>7, <3>2
  <2> QED
    BY <1>5, <1>7, <2>1
<1> QED
  BY <1>2, <1>3, <1>8 DEF kept, len

-----------------------------------------------------------------------------
(* Comparing.                                                              *)
AreCodes(C) == C \subseteq Int /\ \A v \in C : v % 256 \in 1 .. 255
IsCoded(s, C) == s \in Seq(C)

Differ(a, b) == {i \in DOMAIN a \cap DOMAIN b : a[i] # b[i]}

LEMMA CmpIs ==
  ASSUME NEW C, AreCodes(C), NEW a, IsCoded(a, C), NEW b, IsCoded(b, C)
  PROVE  /\ Cmp(a, b) \in Int
         /\ Cmp(b, a) = -Cmp(a, b)
         /\ Cmp(a, b) = 0 <=> a = b
<1> DEFINE m == IF Len(a) < Len(b) THEN Len(a) ELSE Len(b)
           rest(s) == IF Len(s) > m THEN s[m + 1] % 256 ELSE 0
           differ == Differ(a, b)
           at == CHOOSE i \in differ : \A k \in differ : i <= k
<1>1. Len(a) \in Nat /\ Len(b) \in Nat
  BY LenProperties DEF IsCoded
<1>2. DOMAIN a = 1 .. Len(a) /\ DOMAIN b = 1 .. Len(b)
  BY LenProperties DEF IsCoded
<1>3. \A i \in 1 .. Len(a) : a[i] \in C
  BY LenProperties DEF IsCoded
<1>4. \A i \in 1 .. Len(b) : b[i] \in C
  BY LenProperties DEF IsCoded
<1>5. /\ m \in Nat /\ m <= Len(a) /\ m <= Len(b) /\ (m = Len(a) \/ m = Len(b))
  BY <1>1
<1>6. DOMAIN a \cap DOMAIN b = 1 .. m /\ DOMAIN b \cap DOMAIN a = 1 .. m
  BY <1>1, <1>2, <1>5
<1>7. Cardinality(1 .. m) = m
  BY <1>5, FS_Interval
<1> HIDE DEF m
<1>8. Differ(b, a) = differ
  BY <1>6 DEF Differ
<1>9. /\ Cmp(a, b) = IF differ # {} THEN a[at] - b[at] ELSE rest(a) - rest(b)
      /\ Cmp(b, a) = IF differ # {} THEN b[at] - a[at] ELSE rest(b) - rest(a)
  <2> DEFINE CmpBy(x, y, both, far) ==
               LET first == CHOOSE i \in far : \A k \in far : i <= k
                   behind(s) == IF Len(s) > Cardinality(both)
                                THEN s[Cardinality(both) + 1] % 256 ELSE 0
               IN  IF far # {} THEN x[first] - y[first] ELSE behind(x) - behind(y)
  <2>1. /\ Cmp(a, b) = CmpBy(a, b, DOMAIN a \cap DOMAIN b, Differ(a, b))
        /\ Cmp(b, a) = CmpBy(b, a, DOMAIN b \cap DOMAIN a, Differ(b, a))
    BY DEF Cmp, Differ
  <2>2. /\ Cmp(a, b) = CmpBy(a, b, 1 .. m, differ)
        /\ Cmp(b, a) = CmpBy(b, a, 1 .. m, differ)
    <3> HIDE DEF CmpBy
    <3> QED
      BY <1>6, <1>8, <2>1
  <2> QED
    BY <1>7, <2>2
<1>10. differ \in SUBSET Nat /\ differ \subseteq 1 .. m
  BY <1>6 DEF Differ
<1>11. CASE differ # {}
  <2>1. at \in differ
    <3> HIDE DEF differ
    <3> QED
      BY <1>10, <1>11, SmallestExists DEF IsMin
  <2>2. a[at] # b[at]
    BY <2>1 DEF Differ
  <2>3. at \in 1 .. Len(a) /\ at \in 1 .. Len(b)
    <3> HIDE DEF at, differ
    <3> QED
      BY <1>1, <1>5, <1>10, <2>1
  <2> HIDE DEF at
  <2>4. a[at] \in Int /\ b[at] \in Int
    BY <1>3, <1>4, <2>3 DEF AreCodes
  <2>5. a # b
    BY <2>2
  <2> QED
    BY <1>9, <1>11, <2>2, <2>4, <2>5
<1>12. CASE differ = {}
  <2>1. \A i \in 1 .. m : a[i] = b[i]
    BY <1>6, <1>12 DEF Differ
  <2>2. /\ rest(a) \in Int /\ (rest(a) = 0 <=> Len(a) = m)
        /\ rest(b) \in Int /\ (rest(b) = 0 <=> Len(b) = m)
    <3>1. \A v \in C : v % 256 \in 1 .. 255
      BY DEF AreCodes
    <3>2. /\ Len(a) > m => a[m + 1] \in C
          /\ Len(b) > m => b[m + 1] \in C
      <4>1. /\ Len(a) > m => m + 1 \in 1 .. Len(a)
            /\ Len(b) > m => m + 1 \in 1 .. Len(b)
        BY <1>1, <1>5
      <4> QED
        BY <1>3, <1>4, <4>1
    <3>3. rest(a) \in Int /\ (rest(a) = 0 <=> Len(a) = m)
      <4>1. CASE Len(a) > m
        <5> DEFINE v == a[m + 1] % 256
        <5>1. v \in 1 .. 255
          BY <3>1, <3>2, <4>1
        <5>2. rest(a) = v
          BY <4>1
        <5>3. Len(a) # m
          BY <1>1, <1>5, <4>1
        <5> HIDE DEF rest, v
        <5>4. v \in Int /\ v # 0
          BY ONLY <5>1
        <5> QED
          BY <5>2, <5>3, <5>4
      <4>2. CASE Len(a) = m
        <5>1. rest(a) = 0
          BY <1>1, <1>5, <4>2
        <5> QED
          BY <4>2, <5>1
      <4> QED
        BY <1>1, <1>5, <4>1, <4>2
    <3>4. rest(b) \in Int /\ (rest(b) = 0 <=> Len(b) = m)
      <4>1. CASE Len(b) > m
        <5> DEFINE v == b[m + 1] % 256
        <5>1. v \in 1 .. 255
          BY <3>1, <3>2, <4>1
        <5>2. rest(b) = v
          BY <4>1
        <5>3. Len(b) # m
          BY <1>1, <1>5, <4>1
        <5> HIDE DEF rest, v
        <5>4. v \in Int /\ v # 0
          BY ONLY <5>1
        <5> QED
          BY <5>2, <5>3, <5>4
      <4>2. CASE Len(b) = m
        <5>1. rest(b) = 0
          BY <1>1, <1>5, <4>2
        <5> QED
          BY <4>2, <5>1
      <4> QED
        BY <1>1, <1>5, <4>1, <4>2
    <3> QED
      BY <3>3, <3>4
  <2> HIDE DEF rest
  <2>3. rest(a) = rest(b) <=> a = b
    <3>1. CASE Len(a) = Len(b)
      <4>1. a = b
        BY <1>5, <2>1, <3>1, SeqEqual DEF IsCoded
      <4> QED
        BY <4>1
    <3>2. CASE Len(a) # Len(b)
      <4>1. a # b
        BY <3>2
      <4> QED
        BY <1>5, <2>2, <3>2, <4>1
    <3> QED
      BY <3>1, <3>2
  <2> QED
    BY <1>9, <1>12, <2>2, <2>3
<1> QED
  BY <1>11, <1>12

LEMMA ComparesExactly == ASSUME NEW bytes \in Seq(0 .. 255) PROVE ComparesExact(bytes)
<1> SUFFICES ASSUME 0 \notin ToSet(bytes), NEW k \in 0 .. Len(bytes)
             PROVE  LET one == SubSeq(Chars(bytes), 1, k)
                        two == SubSeq(Chars(bytes), k + 1, Len(bytes))
                    IN  /\ Cmp(one, two) = 0 <=> one = two
                        /\ (Cmp(one, two) > 0) <=> (Cmp(two, one) < 0)
  BY DEF ComparesExact
<1> DEFINE n == Len(bytes)
           chars == Chars(bytes)
           C == {v \in Int : v # 0 /\ v > -129 /\ v < 128}
           one == SubSeq(chars, 1, k)
           two == SubSeq(chars, k + 1, n)
<1>1. n \in Nat /\ DOMAIN bytes = 1 .. n /\ \A i \in 1 .. n : bytes[i] \in 0 .. 255
  BY LenProperties
<1>2. \A i \in 1 .. n : bytes[i] # 0
  BY <1>1 DEF ToSet
<1>3. \A i \in 1 .. n : chars[i] \in C
  <2>1. DOMAIN bytes = 1 .. n /\ \A i \in 1 .. n : bytes[i] \in 1 .. 255
    BY <1>1, <1>2
  <2>2. \A i \in 1 .. n : chars[i] = IF bytes[i] > 127 THEN bytes[i] - 256 ELSE bytes[i]
    BY <2>1 DEF Chars
  <2> HIDE DEF chars
  <2> SUFFICES ASSUME NEW i \in 1 .. n
               PROVE  chars[i] \in C
    OBVIOUS
  <2> DEFINE v == bytes[i]
  <2>3. v \in 1 .. 255
    BY <2>1
  <2>4. chars[i] = IF v > 127 THEN v - 256 ELSE v
    BY <2>2
  <2> HIDE DEF v, n
  <2> QED
    BY ONLY <2>3, <2>4
<1>4. AreCodes(C)
  BY DEF AreCodes
<1> HIDE DEF chars, n, C
<1>5. one \in Seq(C) /\ two \in Seq(C)
  <2>1. k \in Int /\ 1 \in Int /\ k + 1 \in Int /\ n \in Int
    BY <1>1
  <2>2. (\A i \in 1 .. k : chars[i] \in C) /\ (\A i \in k + 1 .. n : chars[i] \in C)
    BY <1>1, <1>3 DEF n
  <2>3. one \in Seq(C)
    BY <2>1, <2>2, SubSeqProperties
  <2> DEFINE a == k + 1
  <2>4. a \in Int /\ \A i \in a .. n : chars[i] \in C
    BY <2>1, <2>2
  <2> HIDE DEF a
  <2>5. SubSeq(chars, a, n) \in Seq(C)
    BY <2>1, <2>4, SubSeqProperties
  <2> QED
    BY <2>3, <2>5 DEF a
<1> HIDE DEF one, two
<1>6. Cmp(one, two) \in Int /\ Cmp(two, one) = -Cmp(one, two) /\ (Cmp(one, two) = 0 <=> one = two)
  BY <1>5, <1>4, CmpIs DEF IsCoded
<1>7. (Cmp(one, two) > 0) <=> (Cmp(two, one) < 0)
  BY <1>6
<1> QED
  BY <1>6, <1>7 DEF one, two, chars, n

-----------------------------------------------------------------------------
(* Printing strings.                                                       *)
LEMMA CopiesAre ==
  ASSUME NEW c, NEW n \in Int
  PROVE  /\ Copies(c, n) \in Seq({c})
         /\ Len(Copies(c, n)) = IF n > 0 THEN n ELSE 0
         /\ \A i \in 1 .. n : Copies(c, n)[i] = c
         /\ n <= 0 => Copies(c, n) = <<>>
<1> DEFINE m == IF n > 0 THEN n ELSE 0
           f == [i \in 1 .. m |-> c]
<1>1. m \in Nat /\ Copies(c, n) = f
  BY DEF Copies
<1>2. f \in [1 .. m -> {c}] /\ \A i \in 1 .. m : f[i] = c
  OBVIOUS
<1> HIDE DEF f
<1>3. f \in Seq({c}) /\ Len(f) = m
  <2> HIDE DEF m
  <2> QED
    BY <1>1, <1>2, FunctionIsSequence
<1>4. \A i \in 1 .. n : i \in 1 .. m
  OBVIOUS
<1>5. n <= 0 => f = <<>>
  BY <1>3, EmptySeq
<1> QED
  BY <1>1, <1>2, <1>3, <1>4, <1>5

LaidOut(word, width, flags, S) ==
  /\ Padded(word, width, flags) = Layout(<<>>, word, width, flags)
  /\ Padded(word, width, flags) \in Seq(S \cup {Blank})
  /\ width = 0 => Padded(word, width, flags) = word

LEMMA PaddedIsLayout ==
  ASSUME NEW S, NEW word \in Seq(S), NEW width \in Nat, NEW flags, "zero" \notin flags
  PROVE  LaidOut(word, width, flags, S)
<1> DEFINE T == S \cup {Blank}
           missing == width - Len(word)
           pad == Copies(Blank, missing)
<1>1. Len(word) \in Nat /\ Len(<<>>) = 0 /\ missing \in Int
  BY LenProperties, EmptySeq
<1>2. word \in Seq(T)
  <2>1. S \subseteq T
    OBVIOUS
  <2> QED
    BY <2>1, SeqMonotonic
<1>3. pad \in Seq(T)
  <2>1. pad \in Seq({Blank})
    BY <1>1, CopiesAre
  <2>2. {Blank} \subseteq T
    OBVIOUS
  <2> HIDE DEF pad
  <2> QED
    BY <2>1, <2>2, SeqMonotonic
<1>4. width = 0 => pad = <<>>
  <2>1. width = 0 => missing <= 0
    BY <1>1
  <2> HIDE DEF missing
  <2> QED
    BY <1>1, <2>1, CopiesAre
<1>5. width - Len(<<>>) - Len(word) = missing
  BY <1>1
<1>6. Padded(word, width, flags) = IF "left" \in flags THEN word \o pad ELSE pad \o word
  BY DEF Padded
<1>7. Layout(<<>>, word, width, flags) =
        IF "left" \in flags THEN <<>> \o word \o pad ELSE pad \o <<>> \o word
  <2>1. Layout(<<>>, word, width, flags) =
          IF "left" \in flags THEN <<>> \o word \o Copies(Blank, width - Len(<<>>) - Len(word))
          ELSE IF "zero" \in flags
               THEN <<>> \o Copies("0", width - Len(<<>>) - Len(word)) \o word
               ELSE Copies(Blank, width - Len(<<>>) - Len(word)) \o <<>> \o word
    BY DEF Layout
  <2> QED
    BY <1>5, <2>1
<1> HIDE DEF pad, T
<1>8. /\ <<>> \o word = word /\ pad \o <<>> = pad
       /\ word \o pad \in Seq(T) /\ pad \o word \in Seq(T)
       /\ word \o <<>> = word
  BY <1>2, <1>3, ConcatEmptySeq, ConcatProperties
<1> QED
  BY <1>4, <1>6, <1>7, <1>8 DEF T, LaidOut

IsConversion(dir, conv, flags, width, prec) ==
  /\ dir.conv = conv /\ dir.flags = flags /\ dir.width = width /\ dir.prec = prec
  /\ dir.star = FALSE

LEMMA ConversionIs ==
  ASSUME NEW conv, NEW flags, NEW width, NEW prec
  PROVE  IsConversion(Conversion(conv, flags, width, prec), conv, flags, width, prec)
BY DEF Conversion, IsConversion

LEMMA ConvertsString ==
  ASSUME NEW flags, NEW width, NEW prec, NEW dir, IsConversion(dir, "s", flags, width, prec), NEW arg
  PROVE  /\ Convert(dir, arg) = Padded(StringCut(arg, prec, flags), width, flags)
         /\ dir.conv # "literal" /\ dir.star = FALSE
<1>1. dir.conv = "s" /\ dir.star = FALSE
  BY DEF IsConversion
<1>2. Convert(dir, arg) = Padded(StringCut(arg, dir.prec, dir.flags), dir.width, dir.flags)
  BY <1>1 DEF Convert
<1> QED
  BY <1>1, <1>2 DEF IsConversion

LEMMA ConvertsCharacter ==
  ASSUME NEW flags, NEW width, NEW prec, NEW dir, IsConversion(dir, "c", flags, width, prec), NEW arg
  PROVE  /\ Convert(dir, arg) = Padded(<<arg>>, width, flags)
         /\ dir.conv # "literal" /\ dir.star = FALSE
<1>1. dir.conv = "c" /\ dir.star = FALSE
  BY DEF IsConversion
<1>2. Convert(dir, arg) = Padded(<<arg>>, dir.width, dir.flags)
  BY <1>1 DEF Convert
<1> QED
  BY <1>1, <1>2 DEF IsConversion

(* Directives that each take one argument.                                 *)
TakeOne(directives, n) ==
  /\ DOMAIN directives = 1 .. n
  /\ \A i \in 1 .. n : directives[i].conv # "literal" /\ directives[i].star = FALSE

LEMMA FormatIs ==
  ASSUME NEW n \in Nat, NEW directives, TakeOne(directives, n), NEW args
  PROVE  Format(directives, args) =
           FlattenSeq([i \in 1 .. n |-> Convert(directives[i], args[i])])
<1> DEFINE others(i) == {k \in 1 .. i - 1 : directives[k].conv # "literal"}
           stars(i) == {k \in 1 .. i - 1 : directives[k].star}
           taken(i) == Cardinality(others(i)) + Cardinality(stars(i))
           word(i) == LET dir == directives[i]
                          at  == taken(i) + 1
                      IN  IF dir.conv = "literal" THEN <<dir.c>>
                          ELSE IF dir.star THEN Convert(WithStar(dir, args[at]), args[at + 1])
                          ELSE Convert(dir, args[at])
<1>1. Format(directives, args) = FlattenSeq([i \in DOMAIN directives |-> word(i)])
  BY DEF Format
<1>2. ASSUME NEW i \in 1 .. n PROVE word(i) = Convert(directives[i], args[i])
  <2>1. others(i) = 1 .. i - 1
    BY DEF TakeOne
  <2>2. stars(i) = {}
    BY DEF TakeOne
  <2>3. Cardinality(1 .. i - 1) = i - 1 /\ Cardinality({}) = 0
    <3>1. i - 1 \in Nat
      OBVIOUS
    <3> DEFINE m == i - 1
    <3> HIDE DEF m
    <3>2. Cardinality(1 .. m) = m
      BY <3>1, FS_Interval DEF m
    <3> QED
      BY <3>2, FS_EmptySet DEF m
  <2> HIDE DEF others, stars
  <2>4. taken(i) + 1 = i
    BY <2>1, <2>2, <2>3
  <2>5. directives[i].conv # "literal" /\ directives[i].star = FALSE
    BY DEF TakeOne
  <2> HIDE DEF taken
  <2> QED
    BY <2>4, <2>5
<1> HIDE DEF word
<1>3. [i \in DOMAIN directives |-> word(i)] = [i \in 1 .. n |-> Convert(directives[i], args[i])]
  BY <1>2 DEF TakeOne
<1> QED
  BY <1>1, <1>3

LEMMA FormatsOne ==
  ASSUME NEW S, NEW dir, dir.conv # "literal", dir.star = FALSE, NEW arg, Convert(dir, arg) \in Seq(S)
  PROVE  Format(<<dir>>, <<arg>>) = Convert(dir, arg)
<1> DEFINE one == Convert(dir, arg)
           ds == <<dir>>
           args == <<arg>>
<1>1. TakeOne(ds, 1)
  BY DEF TakeOne
<1>2. ds[1] = dir /\ args[1] = arg
  OBVIOUS
<1> HIDE DEF ds, args
<1>3. Format(ds, args) = FlattenSeq([i \in 1 .. 1 |-> one])
  <2>1. 1 \in Nat
    OBVIOUS
  <2>2. Format(ds, args) = FlattenSeq([i \in 1 .. 1 |-> Convert(ds[i], args[i])])
    BY <1>1, <2>1, FormatIs
  <2>3. \A i \in 1 .. 1 : Convert(ds[i], args[i]) = one
    BY <1>2
  <2> HIDE DEF one
  <2>4. [i \in 1 .. 1 |-> Convert(ds[i], args[i])] = [i \in 1 .. 1 |-> one]
    BY <2>3
  <2> QED
    BY <2>2, <2>4
<1> HIDE DEF one
<1> DEFINE seqs == [i \in 1 .. 1 |-> one]
<1>4. one \in Seq(S)
  BY DEF one
<1>5. AreSequences(seqs, 1, S)
  <2>1. seqs \in [1 .. 1 -> Seq(S)]
    BY <1>4
  <2>2. Len(seqs) = 1
    BY <2>1, FunctionIsSequence
  <2> QED
    BY <1>4, <2>2 DEF AreSequences
<1>6. seqs[1] = one
  OBVIOUS
<1> HIDE DEF seqs
<1>7. /\ Joined(seqs, 0) = <<>> /\ FlattenSeq(seqs) = Joined(seqs, 1)
      /\ Joined(seqs, 0 + 1) = Joined(seqs, 0) \o seqs[0 + 1]
  BY <1>5, JoinedIs
<1>8. <<>> \o one = one
  BY <1>4, ConcatEmptySeq
<1> QED
  BY <1>3, <1>6, <1>7, <1>8 DEF one, seqs, ds, args

LEMMA SingletonsFlat ==
  ASSUME NEW S, NEW word \in Seq(S)
  PROVE  FlattenSeq([i \in 1 .. Len(word) |-> <<word[i]>>]) = word
<1> DEFINE n == Len(word)
           seqs == [i \in 1 .. n |-> <<word[i]>>]
           all == FlattenSeq(seqs)
<1>1. n \in Nat /\ \A i \in 1 .. n : word[i] \in S
  BY LenProperties
<1>2. seqs \in [1 .. n -> Seq(S)] /\ \A i \in 1 .. n : seqs[i] = <<word[i]>>
  BY <1>1
<1> HIDE DEF n, seqs
<1>3. seqs \in Seq(Seq(S)) /\ Len(seqs) = n
  BY <1>1, <1>2, FunctionIsSequence
<1>4. AreSequences(seqs, n, S)
  <2>1. n = 0 => seqs = <<>>
    BY <1>3, EmptySeq
  <2> QED
    BY <1>2, <1>3, <2>1 DEF AreSequences
<1>5. OfLength(seqs, n, 1)
  <2> SUFFICES ASSUME NEW i \in 1 .. n PROVE Len(seqs[i]) = 1
    BY DEF OfLength
  <2> DEFINE x == word[i]
  <2>1. seqs[i] = <<x>>
    BY <1>2
  <2> HIDE DEF x
  <2>2. Len(<<x>>) = 1
    OBVIOUS
  <2> QED
    BY <2>1, <2>2
<1>6. Evenly(all, seqs, n, 1)
  BY <1>1, <1>4, <1>5, EvenPieces
<1>7. all \in Seq(S)
  <2>1. n \in 0 .. n
    BY <1>1
  <2> QED
    BY <1>1, <1>4, <2>1, JoinedIs, JoinedType
<1> HIDE DEF all
<1>8. Len(all) = n
  BY <1>1, <1>6 DEF Evenly
<1>9. ASSUME NEW i \in 1 .. n PROVE all[i] = word[i]
  <2>1. i - 1 \in 0 .. n - 1 /\ 1 \in 1 .. 1 /\ 1 * (i - 1) + 1 = i /\ (i - 1) + 1 = i
    BY <1>1
  <2>2. all[1 * (i - 1) + 1] = seqs[(i - 1) + 1][1]
    BY <1>6, <2>1 DEF Evenly
  <2> QED
    BY <1>2, <2>1, <2>2
<1>10. all = word
  BY <1>7, <1>8, <1>9, SeqEqual DEF n
<1> QED
  BY <1>10 DEF all, seqs, n

LEMMA PrintsString ==
  ASSUME NEW S, NEW word \in Seq(S), NEW flags, "zero" \notin flags, "prec" \notin flags,
         NEW width \in Nat
  PROVE  Format(<<Conversion("s", flags, width, 0)>>, <<word>>) = Layout(<<>>, word, width, flags)
<1> DEFINE c == Conversion("s", flags, width, 0)
<1>1. IsConversion(c, "s", flags, width, 0)
  BY ConversionIs
<1> HIDE DEF c
<1>2. Convert(c, word) = Padded(StringCut(word, 0, flags), width, flags)
  BY <1>1, ConvertsString
<1>3. c.conv # "literal" /\ c.star = FALSE
  BY <1>1, ConvertsString
<1>4. StringCut(word, 0, flags) = word
  BY DEF StringCut
<1>5. LaidOut(word, width, flags, S)
  BY PaddedIsLayout
<1>6. Convert(c, word) \in Seq(S \cup {Blank})
  BY <1>2, <1>4, <1>5 DEF LaidOut
<1>7. Format(<<c>>, <<word>>) = Convert(c, word)
  BY <1>3, <1>6, FormatsOne
<1> QED
  BY <1>2, <1>4, <1>5, <1>7 DEF c, LaidOut

LEMMA PrintsCut ==
  ASSUME NEW S, NEW word \in Seq(S), NEW flags, "zero" \notin flags,
         NEW width \in Nat, NEW prec \in Nat
  PROVE  Format(<<Conversion("s", flags \cup {"prec"}, width, prec)>>, <<word>>) =
           Layout(<<>>, SubSeq(word, 1, Min({prec, Len(word)})), width, flags)
<1> DEFINE n == Len(word)
           more == flags \cup {"prec"}
           c == Conversion("s", more, width, prec)
           cut == StringCut(word, prec, more)
<1>1. n \in Nat /\ \A i \in 1 .. n : word[i] \in S
  BY LenProperties
<1>2. cut = IF prec < n THEN SubSeq(word, 1, prec) ELSE word
  BY DEF StringCut
<1>3. cut = SubSeq(word, 1, Min({prec, n}))
  <2>1. IsMin(IF prec < n THEN prec ELSE n, {prec, n}) /\ {prec, n} \in SUBSET Int
    BY <1>1 DEF IsMin
  <2>2. Min({prec, n}) = IF prec < n THEN prec ELSE n
    BY <2>1, MinIs
  <2>3. SubSeq(word, 1, n) = word
    BY SubSeqFull
  <2> HIDE DEF cut, n
  <2> QED
    BY <1>2, <2>2, <2>3
<1>4. cut \in Seq(S)
  <2>1. ASSUME prec < n PROVE SubSeq(word, 1, prec) \in Seq(S)
    <3>1. \A i \in 1 .. prec : word[i] \in S
      BY <1>1, <2>1
    <3>2. 1 \in Int /\ prec \in Int
      OBVIOUS
    <3> QED
      BY <3>1, <3>2, SubSeqProperties
  <2> HIDE DEF cut, n
  <2> QED
    BY <1>2, <2>1
<1>5. "left" \in more <=> "left" \in flags
  OBVIOUS
<1>6. IsConversion(c, "s", more, width, prec)
  BY ConversionIs
<1> HIDE DEF c, more
<1>7. Convert(c, word) = Padded(cut, width, more)
  BY <1>6, ConvertsString
<1>8. c.conv # "literal" /\ c.star = FALSE
  BY <1>6, ConvertsString
<1> HIDE DEF cut, n
<1>9. Padded(cut, width, more) = Padded(cut, width, flags)
  BY <1>5 DEF Padded
<1>10. /\ Padded(cut, width, flags) = Layout(<<>>, cut, width, flags)
       /\ Padded(cut, width, flags) \in Seq(S \cup {Blank})
  <2>1. LaidOut(cut, width, flags, S)
    BY <1>4, PaddedIsLayout
  <2> QED
    BY <2>1 DEF LaidOut
<1>11. Convert(c, word) \in Seq(S \cup {Blank})
  BY <1>7, <1>9, <1>10
<1>12. Format(<<c>>, <<word>>) = Convert(c, word)
  BY <1>8, <1>11, FormatsOne
<1>13. Format(<<c>>, <<word>>) = Layout(<<>>, SubSeq(word, 1, Min({prec, n})), width, flags)
  BY <1>3, <1>7, <1>9, <1>10, <1>12
<1> QED
  BY <1>13 DEF c, more, n

LEMMA PrintsCharacters ==
  ASSUME NEW S, NEW word \in Seq(S), NEW flags, "zero" \notin flags
  PROVE  Format([i \in DOMAIN word |-> Conversion("c", flags, 0, 0)], word) = word
<1> DEFINE n == Len(word)
           c == Conversion("c", flags, 0, 0)
           directives == [i \in DOMAIN word |-> c]
<1>1. n \in Nat /\ DOMAIN word = 1 .. n /\ \A i \in 1 .. n : word[i] \in S
  BY LenProperties
<1>2. IsConversion(c, "c", flags, 0, 0)
  BY ConversionIs
<1> HIDE DEF c
<1>3. ASSUME NEW x \in S PROVE Convert(c, x) = <<x>>
  <2> DEFINE one == <<x>>
  <2>1. Convert(c, x) = Padded(one, 0, flags)
    BY <1>2, ConvertsCharacter
  <2>2. one \in Seq(S) /\ 0 \in Nat
    OBVIOUS
  <2> HIDE DEF one
  <2>3. Padded(one, 0, flags) = one
    BY <2>2, PaddedIsLayout DEF LaidOut
  <2> QED
    BY <2>1, <2>3 DEF one
<1>4. c.conv # "literal" /\ c.star = FALSE
  BY <1>2, ConvertsCharacter
<1> HIDE DEF n
<1>5. \A i \in 1 .. n : directives[i] = c
  BY <1>1
<1>6. TakeOne(directives, n)
  <2>1. DOMAIN directives = 1 .. n
    BY <1>1
  <2> HIDE DEF directives
  <2> QED
    BY <1>4, <1>5, <2>1 DEF TakeOne
<1> HIDE DEF directives
<1>7. Format(directives, word) = FlattenSeq([i \in 1 .. n |-> Convert(directives[i], word[i])])
  BY <1>1, <1>6, FormatIs
<1>8. [i \in 1 .. n |-> Convert(directives[i], word[i])] = [i \in 1 .. n |-> <<word[i]>>]
  <2>1. \A i \in 1 .. n : Convert(directives[i], word[i]) = <<word[i]>>
    BY <1>1, <1>3, <1>5
  <2> QED
    BY <2>1
<1>9. FlattenSeq([i \in 1 .. n |-> <<word[i]>>]) = word
  BY SingletonsFlat DEF n
<1> QED
  BY <1>7, <1>8, <1>9 DEF directives, c

LEMMA PrintsExactly ==
  ASSUME NEW S, NEW word \in Seq(S), MaxText \in Nat
  PROVE  PrintsExact(word)
<1> SUFFICES ASSUME NEW flags \in SUBSET {"left"}, NEW width \in 0 .. MaxText,
                    NEW prec \in 0 .. MaxText
             PROVE  /\ PrintsWhole(word, width, flags)
                    /\ PrintsStart(word, prec, width, flags)
                    /\ PrintsEach(word, flags)
  BY DEF PrintsExact
<1>1. "zero" \notin flags /\ "prec" \notin flags /\ width \in Nat /\ prec \in Nat
  OBVIOUS
<1>2. PrintsWhole(word, width, flags)
  BY <1>1, PrintsString DEF PrintsWhole
<1>3. PrintsStart(word, prec, width, flags)
  BY <1>1, PrintsCut DEF PrintsStart
<1>4. PrintsEach(word, flags)
  BY <1>1, PrintsCharacters DEF PrintsEach
<1> QED
  BY <1>2, <1>3, <1>4

LEMMA FitsAlways == ASSUME NEW S, NEW word \in Seq(S) PROVE FitsExactly(word)
<1> SUFFICES ASSUME NEW count \in 1 .. Len(word) + 2
             PROVE  LET before == Copies(Untouched, count + 1)
                        after == Snprintf(word, count, before)
                        kept == SubSeq(word, 1, Min({Len(word), count - 1}))
                    IN  /\ SubSeq(after, 1, Len(kept) + 1) = kept \o <<Zero>>
                        /\ Last(after) = Untouched
  BY DEF FitsExactly
<1> DEFINE n == Len(word)
           T == S \cup {Zero, Untouched}
           end == IF n < count THEN n ELSE count - 1
           before == Copies(Untouched, count + 1)
           after == Snprintf(word, count, before)
           kept == SubSeq(word, 1, end)
<1>1. n \in Nat /\ count \in Nat /\ count >= 1 /\ \A i \in 1 .. n : word[i] \in S
  BY LenProperties
<1>2. end \in Nat /\ end <= n /\ end + 1 <= count
  BY <1>1
<1>3. Min({n, count - 1}) = end
  <2>1. IsMin(end, {n, count - 1}) /\ {n, count - 1} \in SUBSET Int
    BY <1>1 DEF IsMin
  <2> HIDE DEF end
  <2> QED
    BY <2>1, MinIs
<1>4. DOMAIN before = 1 .. count + 1 /\ \A i \in 1 .. count + 1 : before[i] = Untouched
  <2> DEFINE m == count + 1
  <2>1. /\ before \in Seq({Untouched}) /\ Len(before) = m
        /\ \A i \in 1 .. m : before[i] = Untouched
    <3>1. m \in Int /\ m > 0
      BY <1>1
    <3> DEFINE filled == Copies(Untouched, m)
    <3> HIDE DEF m
    <3>2. filled \in Seq({Untouched}) /\ Len(filled) = m /\ \A i \in 1 .. m : filled[i] = Untouched
      BY ONLY <3>1, CopiesAre
    <3> QED
      BY <3>2 DEF m
  <2> HIDE DEF before
  <2> QED
    BY <2>1, LenProperties
<1>5. after = [i \in DOMAIN before |->
                 IF i > count THEN before[i]
                 ELSE IF i = end + 1 THEN Zero
                 ELSE IF i <= n THEN word[i] ELSE before[i]]
  BY DEF Snprintf
<1> HIDE DEF before, after, end
<1>6. /\ DOMAIN after = 1 .. count + 1
      /\ after[count + 1] = Untouched /\ after[end + 1] = Zero
      /\ \A i \in 1 .. end : after[i] = word[i]
  <2>1. DOMAIN after = 1 .. count + 1
    BY <1>4, <1>5
  <2>2. count + 1 \in 1 .. count + 1 /\ count + 1 > count
    BY <1>1
  <2>3. end + 1 \in 1 .. count + 1 /\ ~(end + 1 > count)
    BY <1>1, <1>2
  <2>4. \A i \in 1 .. end : i \in 1 .. count + 1 /\ ~(i > count) /\ i # end + 1 /\ i <= n
    BY <1>1, <1>2
  <2> HIDE DEF n
  <2> QED
    BY <1>4, <1>5, <2>1, <2>2, <2>3, <2>4
<1>7. after \in Seq(T) /\ Len(after) = count + 1
  <2>1. \A i \in 1 .. count + 1 : after[i] \in T
    <3> SUFFICES ASSUME NEW i \in 1 .. count + 1 PROVE after[i] \in T
      OBVIOUS
    <3>1. after[i] \in {before[i], Zero} \/ (i <= n /\ after[i] = word[i])
      BY <1>4, <1>5
    <3>2. i <= n => word[i] \in S
      BY <1>1
    <3> QED
      BY <1>4, <3>1, <3>2
  <2>2. after = [i \in 1 .. count + 1 |-> after[i]]
    BY <1>4, <1>5
  <2>3. after \in [1 .. count + 1 -> T]
    <3> HIDE DEF T
    <3> QED
      BY <2>1, <2>2
  <2> DEFINE m == count + 1
  <2>4. m \in Nat /\ after \in [1 .. m -> T]
    BY <1>1, <2>3
  <2> HIDE DEF m
  <2>5. after \in Seq(T) /\ Len(after) = m
    BY <2>4, FunctionIsSequence
  <2> QED
    BY <2>5 DEF m
<1>8. Last(after) = Untouched
  BY <1>6, <1>7 DEF Last
<1>9. kept \in Seq(T) /\ Len(kept) = end /\ \A i \in 1 .. end : kept[i] = word[i]
  <2>1. \A i \in 1 .. end : word[i] \in T
    BY <1>1, <1>2
  <2>2. end \in Int /\ 1 \in Int
    BY <1>2
  <2> HIDE DEF T
  <2>3. /\ kept \in Seq(T) /\ Len(kept) = IF 1 <= end THEN end - 1 + 1 ELSE 0
        /\ \A i \in 1 .. end - 1 + 1 : kept[i] = word[1 + i - 1]
    BY <2>1, <2>2, SubSeqProperties
  <2> HIDE DEF kept
  <2> QED
    BY <1>2, <2>3
<1> HIDE DEF kept
<1>10. SubSeq(after, 1, end + 1) = kept \o <<Zero>>
  <2> DEFINE front == SubSeq(after, 1, end + 1)
             back == kept \o <<Zero>>
  <2>1. \A i \in 1 .. end + 1 : after[i] \in T
    <3>1. \A i \in 1 .. end + 1 : i \in 1 .. Len(after)
      BY <1>1, <1>2, <1>7
    <3> HIDE DEF T
    <3> QED
      BY <1>7, <3>1, LenProperties
  <2> DEFINE m == end + 1
  <2>2. m \in Int /\ 1 <= m /\ 1 \in Int
    BY <1>2
  <2>3. /\ SubSeq(after, 1, m) \in Seq(T) /\ Len(SubSeq(after, 1, m)) = IF 1 <= m THEN m - 1 + 1 ELSE 0
        /\ \A i \in 1 .. m - 1 + 1 : SubSeq(after, 1, m)[i] = after[1 + i - 1]
    <3> HIDE DEF m, T
    <3>1. \A i \in 1 .. m : after[i] \in T
      BY <2>1 DEF m
    <3> QED
      BY <2>2, <3>1, SubSeqProperties
  <2>4. front \in Seq(T) /\ Len(front) = end + 1 /\ \A i \in 1 .. end + 1 : front[i] = after[i]
    <3> HIDE DEF T
    <3> QED
      BY <1>2, <2>3
  <2>5. <<Zero>> \in Seq(T) /\ Len(<<Zero>>) = 1 /\ <<Zero>>[1] = Zero
    OBVIOUS
  <2>6. /\ back \in Seq(T) /\ Len(back) = Len(kept) + Len(<<Zero>>)
        /\ \A i \in 1 .. Len(kept) + Len(<<Zero>>) :
             back[i] = IF i <= Len(kept) THEN kept[i] ELSE <<Zero>>[i - Len(kept)]
    <3> HIDE DEF T
    <3> QED
      BY <1>9, <2>5, ConcatProperties
  <2> HIDE DEF front, back
  <2>7. Len(back) = end + 1 /\ back[end + 1] = Zero /\ \A i \in 1 .. end : back[i] = kept[i]
    BY <1>2, <1>9, <2>5, <2>6
  <2>8. ASSUME NEW i \in 1 .. end + 1 PROVE front[i] = back[i]
    <3>1. i \in 1 .. end \/ i = end + 1
      BY <1>2
    <3> QED
      BY <1>6, <1>9, <2>4, <2>7, <3>1
  <2>9. front = back
    <3> HIDE DEF T
    <3> QED
      BY <2>4, <2>6, <2>7, <2>8, SeqEqual
  <2> QED
    BY <2>9 DEF front, back
<1> QED
  BY <1>3, <1>8, <1>9, <1>10 DEF kept, after, before, end

-----------------------------------------------------------------------------
(* The inputs are strings and bytes.                                       *)
StringInv ==
  /\ subject = "string" => input \in Seq(Characters)
  /\ subject = "bytes" => input \in Seq(Codes)

LEMMA StringStart == StringInit => StringInv
BY EmptySeq DEF StringInit, StringInv

LEMMA StringStep == StringInv /\ [StringNext]_vars => StringInv'
<1> SUFFICES ASSUME StringInv, [StringNext]_vars PROVE StringInv'
  OBVIOUS
<1>1. CASE ExtendString
  <2>1. subject = "string" /\ subject' = subject /\ input \in Seq(Characters)
    BY <1>1 DEF ExtendString, Extend, StringInv
  <2>2. PICK c \in Characters : input' = Append(input, c)
    BY <1>1 DEF ExtendString, Extend
  <2>3. input' \in Seq(Characters)
    BY <2>1, <2>2, AppendProperties
  <2> QED
    BY <2>1, <2>3 DEF StringInv
<1>2. CASE ExtendBytes
  <2>1. subject = "bytes" /\ subject' = subject /\ input \in Seq(Codes)
    BY <1>2 DEF ExtendBytes, Extend, StringInv
  <2>2. PICK c \in Codes : input' = Append(input, c)
    BY <1>2 DEF ExtendBytes, Extend
  <2>3. input' \in Seq(Codes)
    BY <2>1, <2>2, AppendProperties
  <2> QED
    BY <2>1, <2>3 DEF StringInv
<1>3. CASE subject \notin {"string", "bytes"} /\ UNCHANGED subject
  BY <1>3 DEF StringInv
<1>4. CASE UNCHANGED vars
  BY <1>4 DEF vars, StringInv
<1> QED
  BY <1>1, <1>2, <1>3, <1>4 DEF StringNext

LEMMA StringsExactlyThen == StringInv => StringsExact
<1> SUFFICES ASSUME StringInv PROVE StringsExact
  OBVIOUS
<1>1. ASSUME subject = "string"
      PROVE  /\ EscapesExact(input) /\ TrimsExact(input) /\ SubstringsExact(input)
             /\ PrintsExact(input) /\ FitsExactly(input)
             /\ \A sub \in Subs : SearchesExact(input, sub)
             /\ \A sub \in Subs, rep \in Reps : ReplacesExact(input, sub, rep)
  <2>1. input \in Seq(Characters) /\ MaxText \in Nat
    BY <1>1, StringsAssumption DEF StringInv
  <2>2. /\ EscapesExact(input) /\ TrimsExact(input) /\ SubstringsExact(input)
        /\ PrintsExact(input) /\ FitsExactly(input)
    BY <2>1, EscapesExactly, TrimsExactly, SubstringsExactly, PrintsExactly, FitsAlways
  <2>3. \A sub \in Subs : sub \in Seq(Characters) /\ sub # <<>>
    BY StringsAssumption
  <2>4. \A rep \in Reps : rep \in Seq(Characters)
    BY StringsAssumption
  <2> QED
    BY <2>1, <2>2, <2>3, <2>4, SearchesExactly, ReplacesExactly
<1>2. ASSUME subject = "bytes" PROVE BytesExact(input) /\ ComparesExact(input)
  <2>1. input \in Seq(Codes)
    BY <1>2 DEF StringInv
  <2>2. Codes \subseteq 0 .. 255
    BY StringsAssumption
  <2> DEFINE B == 0 .. 255
  <2> HIDE DEF B
  <2>3. input \in Seq(B)
    BY <2>1, <2>2, SeqMonotonic DEF B
  <2> QED
    BY <2>3, BytesExactly, ComparesExactly DEF B
<1> QED
  BY <1>1, <1>2 DEF StringsExact

(* The helpers on strings do what their names say for every string of any  *)
(* length over any characters, for every string that is looked for or put  *)
(* in its place, and for every sequence of bytes.                          *)
THEOREM StringsExactly == StringSpec => []StringsExact
<1>1. StringSpec => []StringInv
  BY StringStart, StringStep, PTL DEF StringSpec
<1> QED
  BY <1>1, StringsExactlyThen, PTL
=============================================================================
