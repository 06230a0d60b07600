------------------------------ MODULE Registry ------------------------------
(***************************************************************************)
(* The registries of the program: the auto containers (src/src/gauto.c),   *)
(* a map from names to arrays of pointers that are freed together, and the *)
(* class system (src/src/gobject.c), a map of classes that is itself a     *)
(* pointer in the container "GClassSystem" and is also reached through     *)
(* name_to_class.  Freeing all containers goes through them in the order   *)
(* of their names, and leaves name_to_class as it is.                      *)
(*                                                                         *)
(* Maps and arrays are those of GMap and GArray, used here through what    *)
(* they promise.  A container is a number, in the order of the names.      *)
(* Clients free containers by name, all of them, or reset the class        *)
(* system; "GClassSystem" itself is freed only by the last two.            *)
(***************************************************************************)
EXTENDS Integers, Sequences, FiniteSets, SequencesExt

CONSTANTS
  Containers,     \* the names in use
  ClassSystem,    \* "GClassSystem"
  Depth,          \* classes, each the base of the next
  Client,         \* an object that is in no container
  MaxObjects,     \* bound: objects created
  AllocMayFail

ASSUME RegistryAssumption ==
  /\ Containers \subseteq Nat /\ ClassSystem \in Containers
  /\ Client \notin Containers
  /\ Depth \in Nat \ {0}
  /\ MaxObjects \in Nat /\ AllocMayFail \in BOOLEAN

VARIABLES
  containers,      \* name -> pointers; the static variable is NULL before
                   \*   the first use and after g_auto_free: no name then
  name_to_class,   \* "NULL", "live", or "freed": it points to a freed map
  registered,      \* the classes in the live map, with their g_base_class
  objects,         \* the objects created
  fault,           \* freed memory was used
  calls,           \* g_class_X calls in progress, innermost last
  wanted,          \* the object they are for
  careless         \* history: classes were freed under objects that remain,
                   \*   or used after g_auto_free without a reset

vars == <<containers, name_to_class, registered, objects, fault, calls,
          wanted, careless>>
registry == <<containers, name_to_class, registered, objects, fault>>

(* The classes of a program, numbered so that a class comes after its base *)
(* (GObject, GStream, GMemoryStream); NULL is NoClass.                     *)
Classes == 1 .. Depth
NoClass == 0
Base(class) == class - 1

(* A pointer in a container: an object's number, or the map of classes.    *)
ClassMap == 0
Nothing == [class |-> NoClass, where |-> Client]

(* stale: the object's g_class points to a class that was freed.           *)
Object == [class: Classes, where: Containers \cup {Client}, stale: BOOLEAN,
           freed: Nat]
Frame == [class: Classes, phase: {"lookup", "register"}]

Init ==
  /\ containers = <<>> /\ name_to_class = "NULL" /\ registered = <<>>
  /\ objects = <<>> /\ fault = FALSE
  /\ calls = <<>> /\ wanted = Nothing
  /\ careless = FALSE

Idle == wanted = Nothing
Live(o) == objects[o].freed = 0

-----------------------------------------------------------------------------
(* g_map_set: one entry of a map is added or replaced.                     *)
With(map, key, value) ==
  [k \in DOMAIN map \cup {key} |-> IF k = key THEN value ELSE map[k]]

(* g_auto_with, when every allocation succeeds.                            *)
Pointers(name) == IF name \in DOMAIN containers THEN containers[name] ELSE <<>>
AutoWith(name, pointer) ==
  With(containers, name, Append(Pointers(name), pointer))

(* When one fails, an empty container may have been made.                  *)
AutoFailed(name) == {containers, With(containers, name, Pointers(name))}

(* The free callbacks of a container's pointers, on what they change.      *)
State == [registered |-> registered, objects |-> objects, fault |-> fault,
          map |-> name_to_class]

(* g_object_free: finalize is read from the object's class.                *)
FreeObject(s, o) ==
  [s EXCEPT !.objects[o].freed = @ + 1,
            !.fault = @ \/ s.objects[o].stale \/ s.objects[o].freed > 0]

(* g_map_free of the class map.                                            *)
FreeClasses(s) ==
  [s EXCEPT !.registered = <<>>,
            !.objects = [o \in DOMAIN @ |-> [@[o] EXCEPT !.stale = TRUE]],
            !.map = "freed"]

FreePointer(s, p) == IF p = ClassMap THEN FreeClasses(s) ELSE FreeObject(s, p)
FreeContainer(s, name) == FoldLeft(FreePointer, s, Pointers(name))

Becomes(s) ==
  /\ registered' = s.registered /\ objects' = s.objects /\ fault' = s.fault
  /\ name_to_class' = s.map

-----------------------------------------------------------------------------
(* g_object_new(X), for the client or for g_auto: the class is wanted, and *)
(* the call of g_class_X begins.                                           *)
ObjectNew(class, where) ==
  /\ Idle
  /\ Len(objects) < MaxObjects
  /\ wanted' = [class |-> class, where |-> where]
  /\ calls' = <<[class |-> class, phase |-> "lookup"]>>
  /\ UNCHANGED <<registry, careless>>

Top == calls[Len(calls)]

(* g_class: g_init_class_system makes the map if there is none.            *)
InitClassSystem ==
  \/ /\ name_to_class = "NULL"
     /\ name_to_class' = "live"
     /\ containers' = AutoWith(ClassSystem, ClassMap)
  \/ /\ name_to_class = "NULL" /\ AllocMayFail
     /\ containers' \in AutoFailed(ClassSystem)
     /\ UNCHANGED name_to_class
  \/ /\ name_to_class # "NULL"
     /\ UNCHANGED <<name_to_class, containers>>

UsesFreedMap ==
  /\ fault' = (fault \/ name_to_class = "freed")
  /\ careless' = (careless \/ name_to_class = "freed")

Found(class) == class \in DOMAIN registered

(* Back to the caller: g_register_class of the class that needed this one  *)
(* as its base, or g_object_new_with.                                      *)
Return ==
  calls' = IF Len(calls) = 1 THEN <<>>
           ELSE [Front(calls) EXCEPT ![Len(calls) - 1].phase = "register"]

(* g_class_X looks its class up, and calls its base's g_class_Y before it  *)
(* registers.                                                              *)
LookupClass ==
  /\ calls # <<>> /\ Top.phase = "lookup"
  /\ InitClassSystem
  /\ UsesFreedMap
  /\ CASE Found(Top.class) -> Return
       [] ~Found(Top.class) /\ Base(Top.class) # NoClass ->
            calls' = Append(calls, [class |-> Base(Top.class), phase |-> "lookup"])
       [] OTHER ->
            calls' = [calls EXCEPT ![Len(calls)].phase = "register"]
  /\ UNCHANGED <<registered, objects, wanted>>

(* g_register_class: the base is whatever CLASS(baseclass) returned, NULL  *)
(* if it could not be registered.                                          *)
RegisterClass ==
  /\ calls # <<>> /\ Top.phase = "register"
  /\ InitClassSystem
  /\ UsesFreedMap
  /\ \/ /\ name_to_class' = "live"
        /\ registered' =
             With(registered, Top.class,
                  IF Found(Base(Top.class)) THEN Base(Top.class) ELSE NoClass)
     \/ \* no memory for the class, its name or its entry, or no map
        /\ AllocMayFail
        /\ UNCHANGED registered
  /\ Return
  /\ UNCHANGED <<objects, wanted>>

(* g_object_new_with, and g_auto_with if the object is for a container: it *)
(* frees the object if it cannot keep the pointer.                         *)
NewObject(where) == [class |-> wanted.class, where |-> where, stale |-> FALSE,
                     freed |-> 0]
AutoFails_Forgets ==
  /\ AllocMayFail /\ wanted.where # Client
  /\ objects' = Append(objects, [NewObject(wanted.where) EXCEPT !.freed = 0])
  /\ containers' \in AutoFailed(wanted.where)
AutoFails ==
  /\ AllocMayFail /\ wanted.where # Client
  /\ objects' = Append(objects, [NewObject(wanted.where) EXCEPT !.freed = 1])
  /\ containers' \in AutoFailed(wanted.where)

ObjectCreate ==
  /\ ~Idle /\ calls = <<>>
  /\ wanted' = Nothing
  /\ \/ /\ Found(wanted.class)
        /\ \/ /\ objects' = Append(objects, NewObject(wanted.where))
              /\ containers' =
                   IF wanted.where = Client THEN containers
                   ELSE AutoWith(wanted.where, Len(objects) + 1)
           \/ AutoFails
     \/ \* no class, or no memory for the object
        /\ AllocMayFail
        /\ UNCHANGED <<objects, containers>>
  /\ UNCHANGED <<name_to_class, registered, fault, calls, careless>>

(* g_object_free by the client that holds the object.                      *)
ObjectFree(o) ==
  /\ Idle /\ Live(o) /\ objects[o].where = Client
  /\ Becomes(FreeObject(State, o))
  /\ UNCHANGED <<containers, calls, wanted, careless>>

-----------------------------------------------------------------------------
(* g_auto_container_free                                                   *)
Others(name) == [n \in DOMAIN containers \ {name} |-> containers[n]]
ContainerFree(name) ==
  /\ Idle /\ name \in DOMAIN containers \ {ClassSystem}
  /\ Becomes(FreeContainer(State, name))
  /\ containers' = Others(name)
  /\ UNCHANGED <<calls, wanted, careless>>

(* g_auto_free: every container, in the order of the map.                  *)
Order_Descending(names) ==
  CHOOSE s \in SetToSeqs(names) : \A i, j \in DOMAIN s : i < j => s[i] > s[j]
Order(names) ==
  CHOOSE s \in SetToSeqs(names) : \A i, j \in DOMAIN s : i < j => s[i] < s[j]

Behind(o) == objects[o].where = Client \/ objects[o].where > ClassSystem
AutoFree ==
  /\ Idle /\ containers # <<>>
  /\ Becomes(FoldLeft(FreeContainer, State, Order(DOMAIN containers)))
  /\ containers' = <<>>
  /\ careless' = (careless \/ (name_to_class = "live" /\
                               \E o \in DOMAIN objects : Live(o) /\ Behind(o)))
  /\ UNCHANGED <<calls, wanted>>

(* g_class_system_reset, also after g_auto_free.                           *)
ClassSystemReset_Forgets ==
  /\ Idle
  /\ name_to_class' = "NULL" /\ registered' = <<>>
  /\ careless' = (careless \/ \E o \in DOMAIN objects : Live(o))
  /\ UNCHANGED <<containers, objects, fault, calls, wanted>>
ClassSystemReset ==
  /\ Idle
  /\ LET s == FreeContainer(State, ClassSystem)
     IN  /\ registered' = s.registered /\ objects' = s.objects /\ fault' = s.fault
  /\ name_to_class' = "NULL"
  /\ containers' = Others(ClassSystem)
  /\ careless' = (careless \/ \E o \in DOMAIN objects : Live(o))
  /\ UNCHANGED <<calls, wanted>>

(* Nothing is said about what follows a use of freed memory.               *)
Next ==
  /\ ~fault
  /\ \/ \E class \in Classes, where \in (Containers \cup {Client}) \ {ClassSystem} :
          ObjectNew(class, where)
     \/ LookupClass
     \/ RegisterClass
     \/ ObjectCreate
     \/ \E o \in DOMAIN objects : ObjectFree(o)
     \/ \E name \in Containers : ContainerFree(name)
     \/ AutoFree
     \/ ClassSystemReset

Spec == Init /\ [][Next]_vars

-----------------------------------------------------------------------------
(* An object is finalized through a class that still exists, and g_class   *)
(* reads a map that still exists, provided the client leaves no object     *)
(* behind when the classes go (in no container, or in one whose name comes *)
(* after "GClassSystem") and resets the class system after g_auto_free     *)
(* before it uses classes again.                                           *)
ClassesOutliveObjects == ~careless => ~fault

(* An object that was created is in the one container it was given to, or  *)
(* the client's, or was freed once, also when g_auto_with failed.  The map *)
(* of classes is known to its container exactly when name_to_class points  *)
(* to it, and a base class is registered with its derived ones.            *)
InContainer(n, o) == n \in DOMAIN containers /\ Contains(containers[n], o)
HeldOrFreedOnce ==
  /\ ~fault =>
       \A o \in DOMAIN objects :
         /\ objects[o].freed <= 1
         /\ \A n \in Containers :
              InContainer(n, o) <=> Live(o) /\ objects[o].where = n
         /\ \A n \in DOMAIN containers : IsInjective(containers[n])
  /\ name_to_class = "live" <=> InContainer(ClassSystem, ClassMap)
  /\ name_to_class # "live" => registered = <<>>
  /\ \A c \in DOMAIN registered :
       registered[c] # NoClass => registered[c] \in DOMAIN registered
=============================================================================
