-------------------------------- MODULE GJson --------------------------------
(***************************************************************************)
(* GJson (src/src/gjson.c): g_json_parse builds a tree of GValues from the *)
(* callbacks of mjson(), one Step per round of mjson's loop, while memory  *)
(* may run out; the client then edits the tree and frees it.               *)
(*                                                                         *)
(* A node is a GValue.  kids are what a container's GMap or GPtrArray      *)
(* holds: a map's are sorted by key, an array's have key 0.  A hollow      *)
(* container has no map or array, or a map without its own array, because  *)
(* the memory for it was missing when it was created.                      *)
(***************************************************************************)
EXTENDS MJson, FiniteSets

CONSTANTS
  MaxFailures,   \* bound: purposes for which allocations fail in one behaviour
  MaxLexemes,    \* bound: lexemes in a text
  MaxEdits       \* bound: the client's changes of the tree

ASSUME GJsonAssumption == MaxLexemes \in Nat /\ MaxEdits \in Nat /\ MaxFailures \in Nat

None == -1          \* a NULL last_key
Garbled == 99       \* a key buffer that was never written
Cut == 98           \* what precedes an escape that cannot be decoded

VARIABLES
  text, sc,      \* what mjson has consumed, and its state
  node,          \* every GValue made, by number
  d,             \* JsonParseData and the way the callback ended
  edits,
  phase,
  loose,         \* history: nodes that array_set and array_remove handed over
  failed         \* history: what an allocation failed for

jvars == <<text, sc, node, d, edits, phase, loose, failed>>

Node(kind, v) ==
  [kind |-> kind, v |-> v, kids |-> <<>>, hollow |-> FALSE, freed |-> 0]
Kid(key, n) == [key |-> key, n |-> n]

(* Without memory for the stack itself g_ptr_array_add fails on NULL as it *)
(* does in Pushes without memory for the first item.                       *)
JInit ==
  /\ text = <<>> /\ sc = Start /\ node = <<>>
  /\ d = [root |-> 0, stack |-> <<>>, room |-> 0, last_key |-> None,
          last_alloc |-> 0, end |-> "no"]
  /\ edits = 0 /\ phase = "parsing" /\ loose = {} /\ failed = {}

-----------------------------------------------------------------------------
(* g_value_free of a value and, through its map's or array's callback, of  *)
(* what it holds.                                                          *)
Closed(nodes, S) ==
  \A p \in S : \A i \in DOMAIN nodes[p].kids : nodes[p].kids[i].n \in S

(* The least set with n that holds the kids of its nodes.                  *)
Below(nodes, n) ==
  {m \in DOMAIN nodes :
     \A S \in SUBSET DOMAIN nodes : n \in S /\ Closed(nodes, S) => m \in S}

ReleaseAll(nodes, S) ==
  [m \in DOMAIN nodes |->
     IF m \in S THEN [nodes[m] EXCEPT !.freed = @ + 1] ELSE nodes[m]]
Release(nodes, n) == ReleaseAll(nodes, Below(nodes, n))

(* g_map_set: an entry with the key is replaced and its value freed.       *)
MapSet(nodes, p, key, n) ==
  LET kids == nodes[p].kids
      at == Cardinality({i \in DOMAIN kids : kids[i].key < key}) + 1
  IN  IF at \in DOMAIN kids /\ kids[at].key = key
      THEN [Release(nodes, kids[at].n) EXCEPT ![p].kids[at].n = n]
      ELSE [nodes EXCEPT ![p].kids = InsertAt(@, at, Kid(key, n))]

-----------------------------------------------------------------------------
(* The callback: from a state of [node, d, failed] to the set of states it *)
(* may leave.  end is "stop" when it returns -1, which makes mjson return  *)
(* the characters read so far, and "crash" when it uses a NULL pointer.    *)
State == [node |-> node, d |-> d, failed |-> failed]
Ends(s, end) == [s EXCEPT !.d.end = end]
Fails(s, what) == [Ends(s, "stop") EXCEPT !.failed = @ \cup {what}]
MayFail(s) == Cardinality(s.failed) < MaxFailures
OrFails(states, s, what) == states \cup (IF MayFail(s) THEN {Fails(s, what)} ELSE {})

Made(s, new) == [s EXCEPT !.node = Append(@, new)]
MadeHollow(s, new) ==
  [Made(s, [new EXCEPT !.hollow = TRUE]) EXCEPT !.failed = @ \cup {"hollow"}]
Parent(s) == Last(s.d.stack)

(* json_parse_add_value of the newest node; the parent of an outermost     *)
(* value is NULL.  The result of g_json_set is not looked at.              *)
AddToArray(s, n) ==
  IF s.node[Parent(s)].hollow THEN {Ends(s, "crash")}
  ELSE OrFails({[s EXCEPT !.node[Parent(s)].kids = Append(@, Kid(0, n))]},
               [s EXCEPT !.node = Release(@, n)], "add")
AddToMap(s, n) ==
  LET lost == [s EXCEPT !.failed = @ \cup {"set"}]
  IN  IF s.d.last_key = None THEN {Ends([s EXCEPT !.node = Release(@, n)], "stop")}
      ELSE IF s.node[Parent(s)].hollow THEN {lost}
      ELSE {[s EXCEPT !.node = MapSet(@, Parent(s), s.d.last_key, n)]}
             \cup (IF MayFail(s) THEN {lost} ELSE {})
AddValue(s) ==
  LET n == Len(s.node)
  IN  IF s.d.stack = <<>> THEN {Ends(s, "crash")}
      ELSE IF s.node[Parent(s)].kind = "[" THEN AddToArray(s, n) ELSE AddToMap(s, n)

(* g_ptr_array_add(d->stack, val_new); the stack's memory is kept by pops. *)
Push(s) == [s EXCEPT !.d.stack = Append(@, Len(s.node))]
Pushes(s) ==
  LET more == [Push(s) EXCEPT !.d.room = IF Len(s.d.stack) = @ THEN @ + 1 ELSE @]
  IN  IF Len(s.d.stack) < s.d.room THEN {more}
      ELSE OrFails({more}, [s EXCEPT !.node = Release(@, Len(s.node))], "push")

OpenContainer(s, kind) ==
  LET new == Node(kind, 0)
      made == {Made(s, new)} \cup (IF MayFail(s) THEN {MadeHollow(s, new)} ELSE {})
      added(m) == IF s.d.stack = <<>> THEN {[m EXCEPT !.d.root = Len(m.node)]}
                  ELSE AddValue(m)
      opened == UNION {added(m) : m \in made}
  IN  OrFails(UNION {IF o.d.end = "no" THEN Pushes(o) ELSE {o} : o \in opened},
              s, "value")

CloseContainer_Keeps(s) == {s}
CloseContainer(s) == {[s EXCEPT !.d.stack = Front(@)]}

(* A string of the value v has v characters, and an escape that cannot be  *)
(* decoded eight.  The buffer grows when it must; mjson_get_string writes  *)
(* the key into it, or nothing that can be relied on.                      *)
TextLen(v) == IF v = 0 THEN 8 ELSE v
SetKey(s, v) ==
  LET grows == s.d.last_key = None \/ s.d.last_alloc <= TextLen(v) + 2
      e == IF grows THEN [s EXCEPT !.d.last_alloc = TextLen(v) + 3] ELSE s
      keys == IF v # 0 THEN {v} ELSE {Garbled} \cup ({s.d.last_key} \ {None})
      none == [e EXCEPT !.failed = @ \cup {"key"}, !.d.last_key = None]
  IN  {[e EXCEPT !.d.last_key = k] : k \in keys}
        \cup (IF grows /\ MayFail(s) THEN {Ends(none, "crash")} ELSE {})
        \cup (IF grows /\ MayFail(s) /\ v = 0 THEN {none} ELSE {})

(* mjson_get_string gives up at an escape that it cannot decode, and what  *)
(* it has decoded by then is kept.  g_value_set_str copies the string once *)
(* more; without memory for that the value is a NULL string.               *)
Decoded(lexeme) ==
  IF lexeme.kind = "string" /\ lexeme.v = 0 THEN Cut ELSE lexeme.v

AddScalar(s, lexeme) ==
  LET new == Node(lexeme.kind, Decoded(lexeme))
      m == Made(s, new)
      is_text == lexeme.kind = "string"
      copies == {m} \cup (IF MayFail(s) /\ is_text THEN {MadeHollow(s, new)} ELSE {})
      added == UNION {AddValue(c) : c \in copies}
      drops == [m EXCEPT !.node = Release(@, Len(@))]
  IN  OrFails(IF is_text THEN OrFails(added, drops, "string") ELSE added, s, "value")

(* json_parse_cb                                                           *)
Callback(s, event, lexeme) ==
  CASE event \in Containers -> OpenContainer(s, event)
    [] event \in Closers    -> CloseContainer(s)
    [] event = "key"        -> SetKey(s, lexeme.v)
    [] event \in Scalars    -> AddScalar(s, lexeme)
    [] OTHER                -> {s}

(* One round of mjson's loop.  When the scanner or the callback ends it,   *)
(* g_json_parse returns the root, or frees it if the text is not JSON.     *)
GiveUp_Forgets == UNCHANGED node
GiveUp == node' = IF d.root = 0 THEN node ELSE Release(node, d.root)

Rejected ==
  /\ GiveUp
  /\ d' = [d EXCEPT !.root = 0] /\ phase' = "returned" /\ UNCHANGED failed

Step(lexeme) ==
  /\ phase = "parsing" /\ Len(text) < MaxLexemes
  /\ text' = Append(text, lexeme)
  /\ sc' = Scan(sc, lexeme)
  /\ IF sc'.status = "error" THEN Rejected
     ELSE \E s \in Callback(State, sc'.event, lexeme) :
            /\ node' = s.node /\ d' = s.d /\ failed' = s.failed
            /\ phase' = IF s.d.end = "crash" THEN "crashed"
                        ELSE IF s.d.end = "stop" \/ sc'.status = "done"
                        THEN "returned" ELSE "parsing"
  /\ UNCHANGED <<edits, loose>>

(* The text ends before its JSON does.                                     *)
EndOfText ==
  /\ phase = "parsing"
  /\ sc' = Invalid(sc)
  /\ Rejected
  /\ UNCHANGED <<text, edits, loose>>

-----------------------------------------------------------------------------
(* What clients do with the tree: the g_json_* calls on a container p that *)
(* create a value and store it, and those that take one out.               *)
Edits(p) ==
  /\ phase = "returned" /\ edits < MaxEdits /\ edits' = edits + 1
  /\ p \in DOMAIN node /\ node[p].kind \in Containers /\ ~node[p].hollow
  /\ d.root # 0 /\ p \in Below(node, d.root)
  /\ UNCHANGED <<text, sc, d, phase>>

NewLeaf == Append(node, Node("number", 1))

(* g_json_set_int and its like, for which g_value_new has memory: without  *)
(* memory for the entry the value is lost.                                 *)
SetMember(p, key) ==
  /\ Edits(p) /\ node[p].kind = "{"
  /\ \/ node' = MapSet(NewLeaf, p, key, Len(NewLeaf)) /\ UNCHANGED failed
     \/ MayFail(State) /\ node' = NewLeaf /\ failed' = failed \cup {"set"}
  /\ UNCHANGED loose

RemoveMember(p, key) ==
  /\ Edits(p) /\ node[p].kind = "{"
  /\ LET kids == node[p].kids
     IN \E i \in DOMAIN kids :
          /\ kids[i].key = key
          /\ node' = [Release(node, kids[i].n) EXCEPT ![p].kids = RemoveAt(@, i)]
  /\ UNCHANGED <<loose, failed>>

RemoveAllMembers(p) ==
  /\ Edits(p) /\ node[p].kind = "{"
  /\ node' = [ReleaseAll(node, Below(node, p) \ {p}) EXCEPT ![p].kids = <<>>]
  /\ UNCHANGED <<loose, failed>>

(* g_json_array_add_int, g_json_array_insert_int and their like.           *)
InsertItem(p, i) ==
  /\ Edits(p) /\ node[p].kind = "["
  /\ i \in 0 .. Len(node[p].kids)
  /\ \/ /\ node' = [NewLeaf EXCEPT
                      ![p].kids = InsertAt(@, i + 1, Kid(0, Len(NewLeaf)))]
        /\ UNCHANGED failed
     \/ /\ MayFail(State)
        /\ node' = Release(NewLeaf, Len(NewLeaf))
        /\ failed' = failed \cup {"add"}
  /\ UNCHANGED loose

(* g_json_array_set and g_json_array_remove free nothing: the item is the  *)
(* client's from then on.                                                  *)
TakeItem(p, i, replaces) ==
  /\ Edits(p) /\ node[p].kind = "["
  /\ i \in DOMAIN node[p].kids
  /\ loose' = loose \cup {node[p].kids[i].n}
  /\ node' = IF replaces THEN [NewLeaf EXCEPT ![p].kids[i].n = Len(NewLeaf)]
             ELSE [node EXCEPT ![p].kids = RemoveAt(@, i)]
  /\ UNCHANGED failed

FreeLoose(n) ==
  /\ phase \in {"returned", "freed"} /\ n \in loose
  /\ node' = Release(node, n) /\ loose' = loose \ {n}
  /\ UNCHANGED <<text, sc, d, edits, phase, failed>>

FreeRoot ==
  /\ phase = "returned" /\ d.root # 0
  /\ node' = Release(node, d.root) /\ d' = [d EXCEPT !.root = 0]
  /\ phase' = "freed"
  /\ UNCHANGED <<text, sc, edits, loose, failed>>

JNext ==
  \/ \E lexeme \in Lexemes : Step(lexeme)
  \/ EndOfText
  \/ \E p \in DOMAIN node :
       \/ \E key \in Strings \ {0} : SetMember(p, key) \/ RemoveMember(p, key)
       \/ RemoveAllMembers(p)
       \/ \E i \in 0 .. Len(node[p].kids) : InsertItem(p, i)
       \/ \E i \in DOMAIN node[p].kids, replaces \in BOOLEAN : TakeItem(p, i, replaces)
  \/ \E n \in loose : FreeLoose(n)
  \/ FreeRoot

JSpec == JInit /\ [][JNext]_jvars

-----------------------------------------------------------------------------
(* Every value made is held once, by the root, a container or the client,  *)
(* or was freed once, wherever the text is broken off, an allocation fails *)
(* or the client edits the tree; not when the parser's stack or a map has  *)
(* no memory for it (gjson.c:158 and gjson.c:184).                         *)
Holders(n) ==
  {p \in DOMAIN node : node[p].freed = 0 /\ \E i \in DOMAIN node[p].kids : node[p].kids[i].n = n}
    \cup (IF d.root = n THEN {0} ELSE {}) \cup (IF n \in loose THEN {-1} ELSE {})

ValuesHeldOrFreedOnce ==
  phase # "crashed" /\ failed \cap {"set", "push"} = {} =>
    \A n \in DOMAIN node :
      IF node[n].freed = 0 THEN Cardinality(Holders(n)) = 1
      ELSE node[n].freed = 1 /\ Holders(n) = {}

(* The stack of json_parse_cb is mjson's own nesting: the container to     *)
(* which the next value goes is the one the text has open, it is alive,    *)
(* and it is in the one around it.                                         *)
StacksAgree ==
  phase = "parsing" =>
    /\ Len(d.stack) = Len(sc.nesting)
    /\ \A i \in DOMAIN d.stack :
         /\ node[d.stack[i]].kind = sc.nesting[i] /\ node[d.stack[i]].freed = 0
         /\ i > 1 /\ "set" \notin failed => d.stack[i - 1] \in Holders(d.stack[i])
=============================================================================
