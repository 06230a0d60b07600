-------------------------------- MODULE JsonText ------------------------------
(***************************************************************************)
(* What the tree and the scanner of GJson mean as text: the generator of   *)
(* gjson.c, and a reader that knows a text only by its brackets and commas.*)
(***************************************************************************)
EXTENDS GJson

-----------------------------------------------------------------------------
(* _json_to_string                                                         *)
Join(parts) ==
  FlattenSeq([i \in DOMAIN parts |->
                IF i < Len(parts) THEN Append(parts[i], Mark(",")) ELSE parts[i]])

String(v) == [kind |-> "string", v |-> v]

RECURSIVE Stringify(_, _)
Stringify(nodes, n) ==
  LET kids == nodes[n].kids
      kid(i) == Stringify(nodes, kids[i].n)
  IN  CASE nodes[n].kind = "[" ->
             <<Mark("[")>> \o Join([i \in DOMAIN kids |-> kid(i)]) \o <<Mark("]")>>
        [] nodes[n].kind = "{" ->
             <<Mark("{")>>
               \o Join([i \in DOMAIN kids |-> <<String(kids[i].key), Mark(":")>> \o kid(i)])
               \o <<Mark("}")>>
        [] OTHER -> <<[kind |-> nodes[n].kind, v |-> nodes[n].v]>>

-----------------------------------------------------------------------------
(* What a text means, without a scanner: the items of the container that   *)
(* begins at a and ends at b lie between the commas at its own depth.      *)
Depth(t, a, i) ==
  Cardinality({j \in a .. i : t[j].kind \in Containers})
    - Cardinality({j \in a .. i : t[j].kind \in Closers})

Items(t, a, b) ==
  LET commas == {i \in a .. b : t[i].kind = "," /\ Depth(t, a, i) = 1}
      cuts == SetToSortSeq({a, b} \cup commas, <)
  IN  SelectSeq([i \in 1 .. Len(cuts) - 1 |-> <<cuts[i] + 1, cuts[i + 1] - 1>>],
                LAMBDA item : item[1] <= item[2])

RECURSIVE Canonical(_, _, _)
Canonical(t, a, b) ==
  LET items == Items(t, a, b)
      keys == SetToSortSeq({t[items[i][1]].v : i \in DOMAIN items}, <)
      last(key) == items[CHOOSE i \in DOMAIN items :
                           /\ t[items[i][1]].v = key
                           /\ \A j \in DOMAIN items :
                                t[items[j][1]].v = key => j <= i]
  IN  CASE t[a].kind = "[" ->
             <<t[a]>> \o Join([i \in DOMAIN items |->
                                 Canonical(t, items[i][1], items[i][2])]) \o <<t[b]>>
        [] t[a].kind = "{" ->
             <<t[a]>> \o Join([i \in DOMAIN keys |->
                                 <<String(keys[i]), Mark(":")>>
                                   \o Canonical(t, last(keys[i])[1] + 2, last(keys[i])[2])])
                     \o <<t[b]>>
        [] OTHER -> <<t[a]>>

(* Where the value at a path lies; <<0, 0>> if there is none.              *)
RECURSIVE Locate(_, _, _, _)
Locate(t, a, b, path) ==
  IF path = <<>> THEN <<a, b>>
  ELSE LET items == Items(t, a, b)
           step == Head(path)
           found == {i \in DOMAIN items :
                       IF step[1] = "key"
                       THEN t[a].kind = "{" /\ t[items[i][1]].v = step[2]
                       ELSE t[a].kind = "[" /\ i = step[2] + 1}
       IN  IF t[a].kind \notin Containers \/ found = {} THEN <<0, 0>>
           ELSE LET item == items[CHOOSE i \in found : \A j \in found : i <= j]
                IN  Locate(t, IF step[1] = "key" THEN item[1] + 2 ELSE item[1],
                           item[2], Tail(path))

-----------------------------------------------------------------------------
Document == sc.status = "done" /\ text[1].kind \in Containers
KeysDecodable ==
  \A i \in 1 .. Len(text) - 1 : text[i] = String(0) => text[i + 1] # Mark(":")

CutText ==
  [i \in DOMAIN text |-> IF text[i] = String(0) THEN String(Cut) ELSE text[i]]

(* What g_json_parse returns means what the text says, nested and repeated *)
(* keys and trailing commas included, and nothing is returned for a text   *)
(* that is not JSON: json_parse_cb's stack, key buffer and map make the    *)
(* same tree as reading the text by its brackets and commas.  It does not  *)
(* where an escape cannot be decoded: a string value then ends before the  *)
(* escape, and a key may be anything.                                      *)
ParsedMeansText ==
  phase = "returned" /\ failed = {} /\ edits = 0 /\ KeysDecodable =>
    IF Document
    THEN d.root # 0 /\ Stringify(node, d.root) = Canonical(CutText, 1, Len(text))
    ELSE d.root = 0

(* mjson_find and mjson_next, which follow the text by counters of depths  *)
(* and indices, find what a reader finds: the value at every path of two   *)
(* steps, and each member once, with its key or its index.                 *)
Steps == {KeyStep(k) : k \in Strings} \cup {IndexStep(i) : i \in 0 .. 2}
Paths == {<<>>} \cup {<<a>> : a \in Steps} \cup {<<a, b>> : a, b \in Steps}

LookupsAgree ==
  Document /\ phase = "returned" /\ edits = 0 =>
    /\ \A path \in Paths :
         LET f == Find(text, path)
             at == Locate(text, 1, Len(text), path)
         IN  IF at = <<0, 0>> THEN Len(path) = 2 \/ f.tok = "none"
             ELSE f.tok = text[at[1]].kind /\ <<f.from + 1, f.from + f.len>> = at
    /\ LET items == Items(text, 1, Len(text))
           off == IF text[1].kind = "{" THEN 2 ELSE 0
       IN  Members(text) =
             [i \in DOMAIN items |->
                [koff |-> IF off = 2 THEN items[i][1] - 1 ELSE i - 1,
                 voff |-> items[i][1] + off - 1,
                 vlen |-> items[i][2] - items[i][1] - off + 1]]
=============================================================================
