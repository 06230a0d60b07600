-------------------------------- MODULE GMap --------------------------------
(***************************************************************************)
(* GMap (src/src/gmap.c): an array of entries sorted by key, searched by   *)
(* halving.  A map made with a key_new_handler keeps copies of the keys,   *)
(* and releases a copy with its entry; a value is released by the callback *)
(* it came with, else by the map's default one, if any.                    *)
(*                                                                         *)
(* A key is a number (what key_compare_handler orders), a value and the    *)
(* key copy of the same call share a token.  Clients give each value to    *)
(* one set only: a value set again is released before it is stored.        *)
(***************************************************************************)
EXTENDS Integers, Sequences, SequencesExt

CONSTANTS
  Keys,
  MaxSets         \* bound: calls of g_map_set in one behaviour

MapAssumption == Keys \subseteq Nat \ {0} /\ MaxSets \in Nat

VARIABLES
  own_keys,      \* key_new_handler and key_free_callback are not NULL
  own_values,    \* value_default_free_callback is not NULL
  has_data,      \* g_array_new returned an array (its result is not checked)
  data,          \* the entries of the array
  alloc,         \* entries the array has memory for
  token,         \* sets so far
  released,      \* history: what the map's callbacks were called with
  held,          \* history: tokens of the values the map accepted
  copied,        \* history: tokens of the key copies made
  answer,        \* the last call and what it returned
  open           \* g_map_free has not been called

vars == <<own_keys, own_values, has_data, data, alloc, token, released, held,
          copied, answer, open>>
options == <<own_keys, own_values, has_data>>

Entry == [key: Keys, token: 1 .. MaxSets, custom: BOOLEAN]
Callbacks == {"key", "default", "custom", "none"}
Answer(call, key, result) == [call |-> call, key |-> key, result |-> result]

Init ==
  /\ own_keys \in BOOLEAN /\ own_values \in BOOLEAN /\ has_data \in BOOLEAN
  /\ data = <<>> /\ alloc = 0
  /\ token = 0 /\ released = <<>> /\ held = {} /\ copied = {}
  /\ answer = Answer("new", 0, 0)
  /\ open = TRUE

-----------------------------------------------------------------------------
(* g_map_free_key_value                                                    *)
ValueCallback(e) ==
  IF e.custom THEN "custom" ELSE IF own_values THEN "default" ELSE "none"

KeyRelease(t) == IF own_keys THEN <<[token |-> t, by |-> "key"]>> ELSE <<>>
FreeKeyValue(e) ==
  KeyRelease(e.token) \o
    IF ValueCallback(e) = "none" THEN <<>>
    ELSE <<[token |-> e.token, by |-> ValueCallback(e)]>>

(* g_map_lookup: <<m, m>> where the key is, else the places left and right *)
(* of where it would be; <<-1, -1>> in an empty map.                       *)
Lookup_OneLeft(key) ==
  LET search[at \in (0 .. Len(data)) \X (-1 .. Len(data) - 1)] ==
        LET l == at[1]
            r == at[2]
            m == (l + r) \div 2
            k == data[m + 1].key
        IN  IF l >= r THEN <<r, l>>
            ELSE IF key = k THEN <<m, m>>
            ELSE search[IF key < k THEN <<l, m - 1>> ELSE <<m + 1, r>>]
  IN  IF data = <<>> THEN <<-1, -1>> ELSE search[<<0, Len(data) - 1>>]
Lookup(key) ==
  LET search[at \in (0 .. Len(data)) \X (-1 .. Len(data) - 1)] ==
        LET l == at[1]
            r == at[2]
            m == (l + r) \div 2
            k == data[m + 1].key
        IN  IF l > r THEN <<r, l>>
            ELSE IF key = k THEN <<m, m>>
            ELSE search[IF key < k THEN <<l, m - 1>> ELSE <<m + 1, r>>]
  IN  IF data = <<>> THEN <<-1, -1>> ELSE search[<<0, Len(data) - 1>>]

(* Where g_map_lookup found the key, counted from 1; 0 if it did not.       *)
Index(key) ==
  LET at == Lookup(key) IN IF at[1] = at[2] THEN at[1] + 1 ELSE 0

-----------------------------------------------------------------------------
(* g_map_set_with: an entry with the key exists.                           *)
Replace(i, e) ==
  /\ released' = released \o FreeKeyValue(data[i])
  /\ data' = [data EXCEPT ![i] = e]
  /\ UNCHANGED alloc

(* g_array_insert at 0 or to the right of where the search ended.          *)
InsertPosition_Left(key) == IF data = <<>> THEN 0 ELSE Max({Lookup(key)[1], 0})
InsertPosition(key) == IF data = <<>> THEN 0 ELSE Lookup(key)[2]

InsertEntry(e) ==
  /\ has_data
  /\ data' = InsertAt(data, InsertPosition(e.key) + 1, e)
  /\ alloc' = Max({alloc, Len(data) + 1})
  /\ UNCHANGED released

(* The array cannot grow, or there is none: the copy of the key is given   *)
(* back.                                                                   *)
InsertFails_KeepsKey(t) ==
  /\ ~has_data \/ Len(data) = alloc
  /\ UNCHANGED <<data, alloc, released>>
InsertFails(t) ==
  /\ ~has_data \/ Len(data) = alloc
  /\ released' = released \o KeyRelease(t)
  /\ UNCHANGED <<data, alloc>>

SetWith(key, custom) ==
  LET t == token + 1
      e == [key |-> key, token |-> t, custom |-> custom]
      done == /\ held' = held \cup {t}
              /\ answer' = Answer("set", key, 1)
      fails == held' = held /\ answer' = Answer("set", key, 0)
  IN  /\ open
      /\ token < MaxSets
      /\ token' = t
      /\ \/ /\ copied' = IF own_keys THEN copied \cup {t} ELSE copied
            /\ \/ Index(key) # 0 /\ Replace(Index(key), e) /\ done
               \/ Index(key) = 0 /\ InsertEntry(e) /\ done
               \/ Index(key) = 0 /\ InsertFails(t) /\ fails
         \/ \* key_new_handler returns NULL
            /\ own_keys /\ fails
            /\ UNCHANGED <<data, alloc, released, copied>>
      /\ UNCHANGED <<options, open>>

Get(key) ==
  /\ open
  /\ answer' = Answer("get", key,
                      IF Index(key) = 0 THEN 0 ELSE data[Index(key)].token)
  /\ UNCHANGED <<options, data, alloc, token, released, held, copied, open>>

RemoveKey(key) ==
  /\ open
  /\ answer' = Answer("remove", key, 0)
  /\ IF Index(key) = 0
     THEN UNCHANGED <<data, released>>
     ELSE /\ released' = released \o FreeKeyValue(data[Index(key)])
          /\ data' = RemoveAt(data, Index(key))
  /\ UNCHANGED <<options, alloc, token, held, copied, open>>

(* g_map_remove_all, which keeps the array's memory, and g_map_free.       *)
RemoveAll(call) ==
  /\ open
  /\ released' = released \o FlattenSeq([i \in DOMAIN data |-> FreeKeyValue(data[i])])
  /\ data' = <<>>
  /\ answer' = Answer(call, 0, 0)
  /\ open' = (call # "free")
  /\ UNCHANGED <<options, alloc, token, held, copied>>

Next ==
  \/ \E key \in Keys :
       \/ \E custom \in BOOLEAN : SetWith(key, custom)
       \/ Get(key)
       \/ RemoveKey(key)
  \/ \E call \in {"remove_all", "free"} : RemoveAll(call)

Spec == Init /\ [][Next]_vars

-----------------------------------------------------------------------------
(* The entries are sorted and no key is there twice: every insertion goes  *)
(* to the place where the search for the key ended.                        *)
TypeOK ==
  /\ own_keys \in BOOLEAN /\ own_values \in BOOLEAN /\ has_data \in BOOLEAN
  /\ data \in Seq(Entry) /\ Len(data) <= alloc /\ alloc \in 0 .. MaxSets
  /\ \A i, j \in DOMAIN data : i < j => data[i].key < data[j].key
  /\ ~has_data => alloc = 0
  /\ token \in 0 .. MaxSets
  /\ released \in Seq([token: 1 .. MaxSets, by: Callbacks])
  /\ held \subseteq 1 .. token /\ copied \subseteq 1 .. token
  /\ open \in BOOLEAN

(* Every copy of a key is in an entry or was released once, whatever calls *)
(* failed, and every value the map accepted is in an entry or, if it was   *)
(* the map's to release, was released once.                                *)
Count(t, callbacks) ==
  Cardinality({i \in DOMAIN released : released[i].token = t /\ released[i].by \in callbacks})
InMap(t) == \E i \in DOMAIN data : data[i].token = t

NothingLost ==
  /\ \A t \in 1 .. token :
       Count(t, {"key"}) = IF t \in copied /\ ~(InMap(t)) THEN 1 ELSE 0
  /\ \A t \in 1 .. token :
       /\ Count(t, {"default", "custom"}) <= 1
       /\ t \notin held \/ InMap(t) => Count(t, {"default", "custom"}) = 0
       /\ t \in held /\ ~InMap(t) /\ own_values =>
            Count(t, {"default", "custom"}) = 1

(* The map behaves as a finite function, whatever is set, replaced and     *)
(* removed in whatever order, and releases each value with its callback.   *)
Content ==
  [k \in {data[i].key : i \in DOMAIN data} |->
     LET e == data[CHOOSE i \in DOMAIN data : data[i].key = k]
     IN  [value |-> e.token, by |-> ValueCallback(e)]]
ValuesOut ==
  {[value |-> e.token, by |-> e.by] : e \in {x \in ToSet(released) : x.by # "key"}}

Map == INSTANCE FiniteMap WITH
  Values <- 1 .. MaxSets, None <- "none", content <- Content, out <- ValuesOut

ImplementsMap == Map!Spec
=============================================================================
