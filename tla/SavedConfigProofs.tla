-------------------------- MODULE SavedConfigProofs --------------------------
(***************************************************************************)
(* Proofs about the catalogue and the files of the config store, with the  *)
(* history variable of MCFunctionCatalog, for every number of functions,   *)
(* handlers and saves.                                                     *)
(***************************************************************************)
EXTENDS MCFunctionCatalog, FunctionCatalogProofs

(***************************************************************************)
(* Why a file is current when no save of its function is under way: as     *)
(* long as saves of the identifier do not overlap and none is lost, the    *)
(* one that is under way holds the function's present object, or its       *)
(* present fields, because every change of them spawns another. No two     *)
(* identifiers share an object, so that a PUT changes no other function.   *)
(***************************************************************************)
InFlight(s, i) == saver[s].pc # "idle" /\ saver[s].id = i

Single(i) == \A s, t \in Savers : InFlight(s, i) /\ InFlight(t, i) => s = t

Carries(i) == \A s \in Savers : InFlight(s, i) =>
  /\ saver[s].pc = "spawned" => saver[s].obj = functions[i]
  /\ saver[s].pc = "posting" => saver[s].data = heap[functions[i]]

Filed(i) == i \in DOMAIN configs /\ configs[i] = heap[functions[i]]

Current(i) ==
  i \in DOMAIN functions =>
    /\ Carries(i)
    /\ (\A s \in Savers : ~ InFlight(s, i)) => Filed(i)

OwnObjects ==
  \A i, j \in DOMAIN functions : functions[i] = functions[j] => i = j

SureInv ==
  /\ CatalogInv
  /\ OwnObjects
  /\ \A i \in FnMillis \ unsure : Single(i) /\ Current(i)

LEMMA SureInvInit == MCInit => SureInv
<1> SUFFICES ASSUME MCInit PROVE SureInv
  OBVIOUS
<1>1. CatalogInv
  BY CatalogInvInit DEF MCInit
<1>2. DOMAIN functions = {} /\ \A s \in Savers : saver[s].pc = "idle"
  BY EmptyMapEntries DEF MCInit, CatalogInit, IdleSaver
<1>3. QED
  BY <1>1, <1>2 DEF SureInv, OwnObjects, Single, Current, InFlight

LEMMA OwnObjectsStep ==
  ASSUME CatalogInv, OwnObjects, CatalogNext
  PROVE  OwnObjects'
<1>1. ASSUME NEW o \in Objects, NEW t \in FnMillis, NEW n \in Names, NEW s \in Savers,
             CreateFunction(o, t, n, s)
      PROVE  OwnObjects'
  <2>1. functions' = Put(functions, t, o) /\ ~ Allocated(o)
    BY <1>1 DEF CreateFunction
  <2>2. /\ DOMAIN functions' = DOMAIN functions \cup {t}
        /\ functions'[t] = o
        /\ \A x \in DOMAIN functions : x # t => functions'[x] = functions[x]
    BY <2>1 DEF Put
  <2>3. \A x \in DOMAIN functions : functions[x] # o
    BY <2>1 DEF CatalogInv, SavesCarryFields
  <2>4. QED
    BY <2>2, <2>3 DEF OwnObjects
<1>2. ASSUME NEW j \in FnMillis, DeleteFunction(j)
      PROVE  OwnObjects'
  <2>1. functions' = Drop(functions, j)
    BY <1>2 DEF DeleteFunction
  <2>2. /\ DOMAIN functions' = DOMAIN functions \ {j}
        /\ \A x \in DOMAIN functions \ {j} : functions'[x] = functions[x]
    BY <2>1, DropEntries
  <2>3. QED
    BY <2>2 DEF OwnObjects
<1>3. CASE ProcessDies
  <2>1. functions' = EmptyMap
    BY <1>3 DEF ProcessDies, Restart, PanicSave, CatalogLost
  <2>2. QED
    BY <2>1, EmptyMapEntries DEF OwnObjects
<1>4. CASE UNCHANGED functions
  BY <1>4 DEF OwnObjects
<1>5. QED
  BY <1>1, <1>2, <1>3, <1>4
  DEF CatalogNext, CatalogRequest, UpdateFunction, SaverStep, LookupAndSpawnSave,
      MarshalSave, DeliverSave, LoseSave

\* A step that is about another identifier.
LEMMA ElsewhereStaysCurrent ==
  ASSUME NEW i, Current(i),
         i \in DOMAIN functions' =>
           /\ i \in DOMAIN functions /\ functions'[i] = functions[i]
           /\ heap'[functions[i]] = heap[functions[i]],
         \A s \in Savers : InFlight(s, i)' <=> InFlight(s, i),
         \A s \in Savers : InFlight(s, i) => saver'[s] = saver[s],
         i \in DOMAIN configs => i \in DOMAIN configs' /\ configs'[i] = configs[i]
  PROVE  Current(i)'
<1> SUFFICES ASSUME i \in DOMAIN functions'
             PROVE  Carries(i)' /\ ((\A s \in Savers : ~ InFlight(s, i)') => Filed(i)')
  BY DEF Current
<1>1. Carries(i) /\ ((\A s \in Savers : ~ InFlight(s, i)) => Filed(i))
  BY DEF Current
<1>2. Carries(i)'
  BY <1>1 DEF Carries
<1>3. Filed(i) => Filed(i)'
  BY DEF Filed
<1>4. QED
  BY <1>1, <1>2, <1>3

\* A step that leaves one save of the identifier in flight, with the object or
\* the fields that it should have.
LEMMA OneSaveIsCurrent ==
  ASSUME NEW i, NEW s \in Savers, Single(i)', InFlight(s, i)',
         saver'[s].pc = "spawned" => saver'[s].obj = functions'[i],
         saver'[s].pc = "posting" => saver'[s].data = heap'[functions'[i]]
  PROVE  Current(i)'
  BY DEF Current, Carries, Single

\* What a step does to the slots of other identifiers.
OnlySlot(s, i) ==
  /\ \A x \in Savers : x # s => saver'[x] = saver[x]
  /\ saver[s].pc # "idle" => saver[s].id # i
  /\ saver'[s].pc # "idle" => saver'[s].id # i

LEMMA OnlySlotElsewhere ==
  ASSUME NEW s \in Savers, NEW i, OnlySlot(s, i)
  PROVE  /\ \A x \in Savers : InFlight(x, i)' <=> InFlight(x, i)
         /\ \A x \in Savers : InFlight(x, i) => saver'[x] = saver[x]
  BY DEF OnlySlot, InFlight

LEMMA CreateKeepsCurrent ==
  ASSUME SureInv, NEW i \in FnMillis, Current(i), Single(i)',
         NEW o \in Objects, NEW t \in FnMillis, NEW n \in Names, NEW s \in Savers,
         CreateFunction(o, t, n, s)
  PROVE  Current(i)'
<1> DEFINE r == [pc |-> "spawned", id |-> t, obj |-> o, data |-> NoName]
<1>1. /\ ~ Allocated(o) /\ saver[s].pc = "idle"
      /\ heap' = [heap EXCEPT ![o] = n]
      /\ functions' = Put(functions, t, o)
      /\ saver' = [saver EXCEPT ![s] = r]
      /\ UNCHANGED configs
  BY DEF CreateFunction
<1>2. r.pc = "spawned" /\ r.id = t /\ r.obj = o
  OBVIOUS
<1> HIDE DEF r
<1>3. saver'[s] = r /\ \A x \in Savers : x # s => saver'[x] = saver[x]
  BY <1>1 DEF SureInv, CatalogInv, CatalogTypeOK
<1>4. /\ DOMAIN functions' = DOMAIN functions \cup {t}
      /\ functions'[t] = o
      /\ \A x \in DOMAIN functions : x # t => functions'[x] = functions[x]
  BY <1>1 DEF Put
<1>5. CASE i = t
  BY <1>2, <1>3, <1>4, <1>5, OneSaveIsCurrent DEF InFlight
<1>6. CASE i # t
  <2>1. OnlySlot(s, i)
    BY <1>1, <1>2, <1>3, <1>6 DEF OnlySlot
  <2>2. i \in DOMAIN functions' =>
          /\ i \in DOMAIN functions /\ functions'[i] = functions[i]
          /\ heap'[functions[i]] = heap[functions[i]]
    <3> SUFFICES ASSUME i \in DOMAIN functions' PROVE
          /\ i \in DOMAIN functions /\ functions'[i] = functions[i]
          /\ heap'[functions[i]] = heap[functions[i]]
      OBVIOUS
    <3>1. i \in DOMAIN functions /\ functions'[i] = functions[i]
      BY <1>4, <1>6
    <3>2. functions[i] \in Objects /\ functions[i] # o
      BY <1>1, <3>1 DEF SureInv, CatalogInv, CatalogTypeOK, SavesCarryFields
    <3>3. QED
      BY <1>1, <3>1, <3>2 DEF SureInv, CatalogInv, CatalogTypeOK
  <2>3. QED
    BY <1>1, <2>1, <2>2, OnlySlotElsewhere, ElsewhereStaysCurrent
<1>7. QED
  BY <1>5, <1>6

LEMMA UpdateKeepsCurrent ==
  ASSUME SureInv, NEW i \in FnMillis, Current(i), Single(i)',
         NEW j \in FnMillis, NEW n \in UpdateNames, NEW s \in Savers,
         UpdateFunction(j, n, s)
  PROVE  Current(i)'
<1> DEFINE r == [pc |-> "put", id |-> j, obj |-> NoObject, data |-> NoName]
<1>1. /\ j \in DOMAIN functions /\ saver[s].pc = "idle"
      /\ heap' = [heap EXCEPT ![functions[j]] = n]
      /\ saver' = [saver EXCEPT ![s] = r]
      /\ UNCHANGED <<functions, configs>>
  BY DEF UpdateFunction
<1>2. r.pc = "put" /\ r.id = j
  OBVIOUS
<1> HIDE DEF r
<1>3. saver'[s] = r /\ \A x \in Savers : x # s => saver'[x] = saver[x]
  BY <1>1 DEF SureInv, CatalogInv, CatalogTypeOK
<1>4. CASE i = j
  BY <1>2, <1>3, <1>4, OneSaveIsCurrent DEF InFlight
<1>5. CASE i # j
  <2>1. OnlySlot(s, i)
    BY <1>1, <1>2, <1>3, <1>5 DEF OnlySlot
  <2>2. i \in DOMAIN functions => heap'[functions[i]] = heap[functions[i]]
    <3> SUFFICES ASSUME i \in DOMAIN functions PROVE heap'[functions[i]] = heap[functions[i]]
      OBVIOUS
    <3>1. functions[i] \in Objects /\ functions[i] # functions[j]
      BY <1>1, <1>5 DEF SureInv, OwnObjects, CatalogInv, CatalogTypeOK
    <3>2. QED
      BY <1>1, <3>1 DEF SureInv, CatalogInv, CatalogTypeOK
  <2>3. QED
    BY <1>1, <2>1, <2>2, OnlySlotElsewhere, ElsewhereStaysCurrent
<1>6. QED
  BY <1>4, <1>5

LEMMA DeleteKeepsCurrent ==
  ASSUME SureInv, NEW i \in FnMillis, Current(i), NEW j \in FnMillis, DeleteFunction(j)
  PROVE  Current(i)'
<1>1. functions' = Drop(functions, j) /\ UNCHANGED <<heap, saver, configs>>
  BY DEF DeleteFunction
<1>2. /\ DOMAIN functions' = DOMAIN functions \ {j}
      /\ \A x \in DOMAIN functions \ {j} : functions'[x] = functions[x]
  BY <1>1, DropEntries
<1>3. QED
  BY <1>1, <1>2, ElsewhereStaysCurrent DEF InFlight

\* A save that goes on takes what its function is by then.
LEMMA SaveKeepsCurrent ==
  ASSUME SureInv, NEW i \in FnMillis, Current(i), Single(i)', NEW s \in Savers,
         LookupAndSpawnSave(s) \/ MarshalSave(s)
  PROVE  Current(i)'
<1>1. /\ saver[s] \in Saver /\ saver \in [Savers -> Saver]
      /\ UNCHANGED <<heap, functions, configs>>
  BY DEF SureInv, CatalogInv, CatalogTypeOK, LookupAndSpawnSave, MarshalSave
<1>2. /\ saver[s].pc # "idle" /\ saver'[s].pc # "idle"
      /\ saver'[s].id = saver[s].id
      /\ \A x \in Savers : x # s => saver'[x] = saver[x]
  BY <1>1 DEF LookupAndSpawnSave, MarshalSave, Saver
<1>3. CASE saver[s].id # i
  <2>1. OnlySlot(s, i)
    BY <1>2, <1>3 DEF OnlySlot
  <2>2. QED
    BY <1>1, <2>1, OnlySlotElsewhere, ElsewhereStaysCurrent
<1>4. CASE saver[s].id = i /\ i \notin DOMAIN functions
  BY <1>1, <1>4 DEF Current
<1>5. CASE saver[s].id = i /\ i \in DOMAIN functions
  <2>1. InFlight(s, i) /\ InFlight(s, i)'
    BY <1>2, <1>5 DEF InFlight
  <2>2. CASE LookupAndSpawnSave(s)
    <3>1. saver'[s].pc = "spawned" /\ saver'[s].obj = functions[i]
      BY <1>1, <1>5, <2>2 DEF LookupAndSpawnSave, Saver
    <3>2. QED
      BY <1>1, <2>1, <3>1, OneSaveIsCurrent
  <2>3. CASE MarshalSave(s)
    <3>1. saver[s].pc = "spawned" /\ saver'[s].pc = "posting"
            /\ saver'[s].data = heap[saver[s].obj]
      BY <1>1, <2>3 DEF MarshalSave, Saver
    <3>2. saver[s].obj = functions[i]
      BY <1>5, <2>1, <3>1 DEF Current, Carries
    <3>3. QED
      BY <1>1, <2>1, <3>1, <3>2, OneSaveIsCurrent
  <2>4. QED
    BY <2>2, <2>3
<1>6. QED
  BY <1>3, <1>4, <1>5

\* The save that ends was the only one: its file is what it carried.
LEMMA DeliverKeepsCurrent ==
  ASSUME SureInv, NEW i \in FnMillis, Current(i), Single(i), NEW s \in Savers, DeliverSave(s)
  PROVE  Current(i)'
<1>1. /\ saver[s].pc = "posting"
      /\ configs' = Put(configs, saver[s].id, saver[s].data)
      /\ saver' = [saver EXCEPT ![s] = IdleSaver]
      /\ UNCHANGED <<heap, functions>>
  BY DEF DeliverSave
<1>2. /\ saver'[s].pc = "idle"
      /\ \A x \in Savers : x # s => saver'[x] = saver[x]
  BY <1>1 DEF SureInv, CatalogInv, CatalogTypeOK, IdleSaver
<1>3. /\ DOMAIN configs' = DOMAIN configs \cup {saver[s].id}
      /\ configs'[saver[s].id] = saver[s].data
      /\ \A x \in DOMAIN configs : x # saver[s].id => configs'[x] = configs[x]
  BY <1>1 DEF Put
<1>4. CASE saver[s].id # i
  <2>1. OnlySlot(s, i)
    BY <1>2, <1>4 DEF OnlySlot
  <2>2. QED
    BY <1>1, <1>3, <1>4, <2>1, OnlySlotElsewhere, ElsewhereStaysCurrent
<1>5. CASE saver[s].id = i
  <2> SUFFICES ASSUME i \in DOMAIN functions PROVE Carries(i)' /\ Filed(i)'
    BY <1>1 DEF Current
  <2>1. InFlight(s, i)
    BY <1>1, <1>5 DEF InFlight
  <2>2. saver[s].data = heap[functions[i]]
    BY <1>1, <2>1 DEF Current, Carries
  <2>3. Filed(i)'
    BY <1>1, <1>3, <1>5, <2>2 DEF Filed
  <2>4. \A x \in Savers : ~ InFlight(x, i)'
    BY <1>2, <2>1 DEF Single, InFlight
  <2>5. QED
    BY <2>3, <2>4 DEF Carries
<1>6. QED
  BY <1>4, <1>5

LEMMA LoseKeepsCurrent ==
  ASSUME SureInv, NEW i \in FnMillis, Current(i), NEW s \in Savers, LoseSave(s),
         saver[s].id # i
  PROVE  Current(i)'
<1>1. saver' = [saver EXCEPT ![s] = IdleSaver] /\ UNCHANGED <<heap, functions, configs>>
  BY DEF LoseSave
<1>2. /\ saver'[s].pc = "idle"
      /\ \A x \in Savers : x # s => saver'[x] = saver[x]
  BY <1>1 DEF SureInv, CatalogInv, CatalogTypeOK, IdleSaver
<1>3. OnlySlot(s, i)
  BY <1>2 DEF OnlySlot
<1>4. QED
  BY <1>1, <1>3, OnlySlotElsewhere, ElsewhereStaysCurrent

LEMMA DeathKeepsCurrent ==
  ASSUME NEW i \in FnMillis, ProcessDies
  PROVE  Current(i)'
<1>1. functions' = EmptyMap
  BY DEF ProcessDies, Restart, PanicSave, CatalogLost
<1>2. QED
  BY <1>1, EmptyMapEntries DEF Current

LEMMA SureInvStep == SureInv /\ [MCNext]_MCVars => SureInv'
<1> SUFFICES ASSUME SureInv, [MCNext]_MCVars PROVE SureInv'
  OBVIOUS
<1>1. CASE UNCHANGED MCVars
  <2>1. CatalogInv'
    BY <1>1, CatalogInvStep DEF SureInv, MCVars
  <2>2. QED
    BY <1>1, <2>1
    DEF SureInv, MCVars, catalogVars, OwnObjects, Single, Current, Carries, Filed, InFlight
<1>2. CASE MCNext
  <2>1. CatalogInv' /\ OwnObjects'
    BY <1>2, CatalogInvStep, OwnObjectsStep DEF MCNext, SureInv
  <2>2. ASSUME NEW i \in FnMillis \ unsure'
        PROVE  Single(i)' /\ Current(i)'
    <3>1. /\ unsure \subseteq unsure'
          /\ ~ Overlapping(i)'
          /\ \A s \in Savers : LoseSave(s) => saver[s].id \in unsure'
      BY <1>2 DEF MCNext
    <3>2. Single(i)'
      BY <3>1 DEF Overlapping, SavesInFlight, Single, InFlight
    <3>3. Single(i) /\ Current(i)
      BY <3>1 DEF SureInv
    <3>4. CASE CatalogRequest
      BY <3>2, <3>3, <3>4, CreateKeepsCurrent, UpdateKeepsCurrent, DeleteKeepsCurrent
      DEF CatalogRequest
    <3>5. CASE \E s \in Savers : SaverStep(s)
      BY <3>1, <3>2, <3>3, <3>5, SaveKeepsCurrent, DeliverKeepsCurrent, LoseKeepsCurrent
      DEF SaverStep
    <3>6. CASE ProcessDies
      BY <3>2, <3>6, DeathKeepsCurrent
    <3>7. Current(i)'
      BY <1>2, <3>4, <3>5, <3>6 DEF MCNext, CatalogNext
    <3>8. QED
      BY <3>2, <3>7
  <2>3. QED
    BY <2>1, <2>2 DEF SureInv
<1>3. QED
  BY <1>1, <1>2

\* A function whose saves have all returned has a file with its current fields,
\* whatever PUTs, DELETEs, panics and restarts came in between, unless two of
\* its saves overlapped or one was lost: whether or not two functions may be
\* created in one millisecond.
THEOREM SureConfigsAreCurrent == MCSpec => []SureConfigIsCurrent
<1>1. SureInv => SureConfigIsCurrent
  <2> SUFFICES ASSUME SureInv, NEW i \in DOMAIN functions \ unsure, SavesInFlight(i) = {}
               PROVE  i \in DOMAIN configs /\ configs[i] = heap[functions[i]]
    BY DEF SureConfigIsCurrent
  <2>1. i \in FnMillis /\ \A s \in Savers : ~ InFlight(s, i)
    BY DEF SureInv, CatalogInv, CatalogTypeOK, SavesInFlight, InFlight
  <2>2. QED
    BY <2>1 DEF SureInv, Current, Filed
<1>2. SureInv /\ [MCNext]_MCVars => SureInv'
  BY SureInvStep
<1>3. QED
  BY <1>1, <1>2, SureInvInit, PTL DEF MCSpec
=============================================================================
