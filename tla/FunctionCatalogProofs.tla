------------------------ MODULE FunctionCatalogProofs ------------------------
(***************************************************************************)
(* Proofs about FunctionCatalog, for every number of functions, handlers   *)
(* and saves.                                                              *)
(***************************************************************************)
EXTENDS FunctionCatalog, TLAPS

\* Deleting an entry: the other entries are what they were.
LEMMA DropEntries ==
  ASSUME NEW f, NEW k
  PROVE  /\ DOMAIN Drop(f, k) = DOMAIN f \ {k}
         /\ \A x \in DOMAIN f \ {k} : Drop(f, k)[x] = f[x]
  BY DEF Drop, Restrict

LEMMA EmptyMapEntries == DOMAIN EmptyMap = {}
  BY DEF EmptyMap

LEMMA IdleSaverType == IdleSaver \in Saver
  BY DEF IdleSaver, Saver

-----------------------------------------------------------------------------
(***************************************************************************)
(* CatalogTypeOK is not inductive: that a file only ever holds fields      *)
(* comes from the objects a save points at being allocated, and from what  *)
(* it carries having been read from one.                                   *)
(***************************************************************************)
SavesCarryFields ==
  /\ \A i \in DOMAIN functions : Allocated(functions[i])
  /\ \A s \in Savers : saver[s].obj # NoObject => Allocated(saver[s].obj)
  /\ \A s \in Savers : saver[s].pc # "idle" => saver[s].id \in FnMillis
  /\ \A s \in Savers : saver[s].pc = "posting" => saver[s].data \in Names

CatalogInv == CatalogTypeOK /\ SavesCarryFields

LEMMA CatalogInvInit == CatalogInit => CatalogInv
<1> SUFFICES ASSUME CatalogInit PROVE CatalogInv
  OBVIOUS
<1>1. saver \in [Savers -> Saver]
  BY IdleSaverType DEF CatalogInit
<1>2. CatalogTypeOK
  BY <1>1, CatalogAssumption, EmptyMapEntries DEF CatalogInit, CatalogTypeOK
<1>3. SavesCarryFields
  BY EmptyMapEntries DEF CatalogInit, SavesCarryFields, IdleSaver
<1>4. QED
  BY <1>2, <1>3 DEF CatalogInv

\* What is left when the process dies is well typed, and nothing is under way.
LEMMA CatalogInvLost ==
  ASSUME CatalogInv, CatalogLost, restarts' \in Nat, panicked' \in BOOLEAN
  PROVE  CatalogInv'
<1>1. saver' \in [Savers -> Saver]
  BY IdleSaverType DEF CatalogLost
<1>2. CatalogTypeOK'
  BY <1>1, EmptyMapEntries DEF CatalogInv, CatalogTypeOK, CatalogLost
<1>3. SavesCarryFields'
  BY EmptyMapEntries DEF CatalogLost, SavesCarryFields, IdleSaver
<1>4. QED
  BY <1>2, <1>3 DEF CatalogInv

\* A step that writes one slot keeps `saver` well typed when the new content is.
LEMMA SaverWrite ==
  ASSUME CatalogTypeOK, NEW s \in Savers, NEW r \in Saver,
         saver' = [saver EXCEPT ![s] = r]
  PROVE  /\ saver' \in [Savers -> Saver]
         /\ saver'[s] = r
         /\ \A x \in Savers : x # s => saver'[x] = saver[x]
  BY DEF CatalogTypeOK

\* Every step of the catalogue preserves the invariant.
LEMMA CatalogInvStep == CatalogInv /\ [CatalogNext]_catalogVars => CatalogInv'
<1> SUFFICES ASSUME CatalogInv, [CatalogNext]_catalogVars
             PROVE  CatalogInv'
  OBVIOUS
<1> USE CatalogAssumption DEF Allocated
<1>0. CatalogTypeOK /\ SavesCarryFields
  BY DEF CatalogInv
<1>1. ASSUME NEW o \in Objects, NEW t \in FnMillis, NEW n \in Names, NEW s \in Savers,
             CreateFunction(o, t, n, s)
      PROVE  CatalogInv'
  <2> DEFINE r == [pc |-> "spawned", id |-> t, obj |-> o, data |-> NoName]
  <2>1. r \in Saver
    BY DEF Saver
  <2>2. saver' = [saver EXCEPT ![s] = r]
    BY <1>1 DEF CreateFunction
  <2>3. /\ saver' \in [Savers -> Saver]
        /\ saver'[s] = r
        /\ \A x \in Savers : x # s => saver'[x] = saver[x]
    BY <1>0, <2>1, <2>2, SaverWrite
  <2>4. /\ heap' \in [Objects -> Names \cup {NoName}]
        /\ heap'[o] = n
        /\ \A x \in Objects : x # o => heap'[x] = heap[x]
    BY <1>0, <1>1 DEF CreateFunction, CatalogTypeOK
  <2>5. /\ DOMAIN functions' = DOMAIN functions \cup {t}
        /\ functions'[t] = o
        /\ \A x \in DOMAIN functions : x # t => functions'[x] = functions[x]
    <3>1. functions' = Put(functions, t, o)
      BY <1>1 DEF CreateFunction
    <3>2. QED
      BY <3>1 DEF Put
  <2>6. CatalogTypeOK'
    <3>1. DOMAIN functions' \subseteq FnMillis /\ \A i \in DOMAIN functions' : functions'[i] \in Objects
      BY <1>0, <2>5 DEF CatalogTypeOK
    <3>2. fnIssued' \subseteq FnMillis
      BY <1>0, <1>1 DEF CreateFunction, FreshFnId, CatalogTypeOK
    <3>3. UNCHANGED <<configs, restarts, panicked>>
      BY <1>1 DEF CreateFunction
    <3>4. QED
      BY <1>0, <2>3, <2>4, <3>1, <3>2, <3>3 DEF CatalogTypeOK
  <2>7. SavesCarryFields'
    <3>1. \A i \in DOMAIN functions' : heap'[functions'[i]] # NoName
      BY <1>0, <2>4, <2>5 DEF CatalogTypeOK, SavesCarryFields
    <3>2. \A x \in Savers : saver'[x].obj # NoObject => heap'[saver'[x].obj] # NoName
      BY <1>0, <2>3, <2>4 DEF CatalogTypeOK, SavesCarryFields, Saver
    <3>3. \A x \in Savers : saver'[x].pc = "posting" => saver'[x].data \in Names
      BY <1>0, <2>3 DEF SavesCarryFields
    <3>4. \A x \in Savers : saver'[x].pc # "idle" => saver'[x].id \in FnMillis
      BY <1>0, <2>3 DEF SavesCarryFields
    <3>5. QED
      BY <3>1, <3>2, <3>3, <3>4 DEF SavesCarryFields
  <2>8. QED
    BY <2>6, <2>7 DEF CatalogInv
<1>2. ASSUME NEW i \in FnMillis, NEW n \in UpdateNames, NEW s \in Savers,
             UpdateFunction(i, n, s)
      PROVE  CatalogInv'
  <2> DEFINE r == [pc |-> "put", id |-> i, obj |-> NoObject, data |-> NoName]
  <2>1. r \in Saver
    BY DEF Saver
  <2>2. saver' = [saver EXCEPT ![s] = r]
    BY <1>2 DEF UpdateFunction
  <2>3. /\ saver' \in [Savers -> Saver]
        /\ saver'[s] = r
        /\ \A x \in Savers : x # s => saver'[x] = saver[x]
    BY <1>0, <2>1, <2>2, SaverWrite
  <2>4. /\ heap' \in [Objects -> Names \cup {NoName}]
        /\ \A x \in Objects : heap'[x] = heap[x] \/ heap'[x] = n
    BY <1>0, <1>2 DEF UpdateFunction, CatalogTypeOK
  <2>5. CatalogTypeOK'
    BY <1>0, <1>2, <2>3, <2>4 DEF UpdateFunction, CatalogTypeOK
  <2>6. SavesCarryFields'
    <3>1. \A x \in DOMAIN functions' : heap'[functions'[x]] # NoName
      BY <1>0, <1>2, <2>4 DEF UpdateFunction, CatalogTypeOK, SavesCarryFields
    <3>2. \A x \in Savers : saver'[x].obj # NoObject => heap'[saver'[x].obj] # NoName
      BY <1>0, <2>3, <2>4 DEF CatalogTypeOK, SavesCarryFields, Saver
    <3>3. \A x \in Savers : saver'[x].pc = "posting" => saver'[x].data \in Names
      BY <1>0, <2>3 DEF SavesCarryFields
    <3>4. \A x \in Savers : saver'[x].pc # "idle" => saver'[x].id \in FnMillis
      BY <1>0, <2>3 DEF SavesCarryFields
    <3>5. QED
      BY <3>1, <3>2, <3>3, <3>4 DEF SavesCarryFields
  <2>7. QED
    BY <2>5, <2>6 DEF CatalogInv
<1>3. ASSUME NEW i \in FnMillis, DeleteFunction(i)
      PROVE  CatalogInv'
  <2>1. /\ DOMAIN functions' = DOMAIN functions \ {i}
        /\ \A x \in DOMAIN functions \ {i} : functions'[x] = functions[x]
    BY <1>3, DropEntries DEF DeleteFunction
  <2>2. CatalogTypeOK'
    BY <1>0, <1>3, <2>1 DEF DeleteFunction, CatalogTypeOK
  <2>3. SavesCarryFields'
    BY <1>0, <1>3, <2>1 DEF DeleteFunction, SavesCarryFields
  <2>4. QED
    BY <2>2, <2>3 DEF CatalogInv
<1>4. ASSUME NEW s \in Savers, LookupAndSpawnSave(s)
      PROVE  CatalogInv'
  <2> DEFINE k == saver[s].id
             p == IF k \in DOMAIN functions THEN functions[k] ELSE NoObject
             r == [saver[s] EXCEPT !.pc = "spawned", !.obj = p]
  <2>1. saver[s] \in Saver /\ p \in Objects \cup {NoObject}
    BY <1>0 DEF CatalogTypeOK
  <2>2. /\ r \in Saver
        /\ r.pc = "spawned" /\ r.obj = p
    BY <2>1 DEF Saver
  <2>3. saver' = [saver EXCEPT ![s] = r]
    BY <1>0, <1>4 DEF LookupAndSpawnSave, CatalogTypeOK
  <2>4. /\ saver' \in [Savers -> Saver]
        /\ saver'[s] = r
        /\ \A x \in Savers : x # s => saver'[x] = saver[x]
    BY <1>0, <2>2, <2>3, SaverWrite
  <2>5. CatalogTypeOK'
    BY <1>0, <1>4, <2>4 DEF LookupAndSpawnSave, CatalogTypeOK
  <2>6. SavesCarryFields'
    BY <1>0, <1>4, <2>2, <2>4 DEF LookupAndSpawnSave, SavesCarryFields
  <2>7. QED
    BY <2>5, <2>6 DEF CatalogInv
<1>5. ASSUME NEW s \in Savers, MarshalSave(s)
      PROVE  CatalogInv'
  <2> DEFINE v == heap[saver[s].obj]
             r == [saver[s] EXCEPT !.pc = "posting", !.data = v]
  <2>1. saver[s] \in Saver /\ v \in Names
    BY <1>0, <1>5 DEF MarshalSave, CatalogTypeOK, SavesCarryFields, Saver
  <2>2. /\ r \in Saver
        /\ r.pc = "posting" /\ r.data = v /\ r.obj = saver[s].obj
    BY <2>1 DEF Saver
  <2>3. saver' = [saver EXCEPT ![s] = r]
    BY <1>0, <1>5 DEF MarshalSave, CatalogTypeOK
  <2>4. /\ saver' \in [Savers -> Saver]
        /\ saver'[s] = r
        /\ \A x \in Savers : x # s => saver'[x] = saver[x]
    BY <1>0, <2>2, <2>3, SaverWrite
  <2>5. CatalogTypeOK'
    BY <1>0, <1>5, <2>4 DEF MarshalSave, CatalogTypeOK
  <2>6. SavesCarryFields'
    BY <1>0, <1>5, <2>1, <2>2, <2>4 DEF MarshalSave, SavesCarryFields
  <2>7. QED
    BY <2>5, <2>6 DEF CatalogInv
<1>6. ASSUME NEW s \in Savers, DeliverSave(s) \/ LoseSave(s)
      PROVE  CatalogInv'
  <2>1. saver' = [saver EXCEPT ![s] = IdleSaver]
    BY <1>6 DEF DeliverSave, LoseSave
  <2>2. /\ saver' \in [Savers -> Saver]
        /\ saver'[s] = IdleSaver
        /\ \A x \in Savers : x # s => saver'[x] = saver[x]
    BY <1>0, <2>1, IdleSaverType, SaverWrite
  <2>3. DOMAIN configs' \subseteq FnMillis /\ \A i \in DOMAIN configs' : configs'[i] \in Names
    <3>1. CASE LoseSave(s)
      BY <1>0, <3>1 DEF LoseSave, CatalogTypeOK
    <3>2. CASE DeliverSave(s)
      <4>1. saver[s].data \in Names /\ saver[s].pc = "posting"
        BY <1>0, <3>2 DEF DeliverSave, SavesCarryFields
      <4>2. saver[s].id \in FnMillis
        BY <1>0, <4>1 DEF SavesCarryFields, CatalogTypeOK, Saver
      <4>3. configs' = Put(configs, saver[s].id, saver[s].data)
        BY <3>2 DEF DeliverSave
      <4>4. /\ DOMAIN configs' = DOMAIN configs \cup {saver[s].id}
            /\ configs'[saver[s].id] = saver[s].data
            /\ \A x \in DOMAIN configs : x # saver[s].id => configs'[x] = configs[x]
        BY <4>3 DEF Put
      <4>5. QED
        BY <1>0, <4>1, <4>2, <4>4 DEF CatalogTypeOK
    <3>3. QED
      BY <1>6, <3>1, <3>2
  <2>4. CatalogTypeOK'
    BY <1>0, <1>6, <2>2, <2>3 DEF DeliverSave, LoseSave, CatalogTypeOK
  <2>5. SavesCarryFields'
    BY <1>0, <1>6, <2>2 DEF DeliverSave, LoseSave, SavesCarryFields, IdleSaver
  <2>6. QED
    BY <2>4, <2>5 DEF CatalogInv
<1>7. CASE ProcessDies
  <2>1. CASE Restart
    BY <1>0, <2>1, CatalogInvLost DEF Restart, CatalogTypeOK
  <2>2. CASE \E s \in Savers : PanicSave(s)
    BY <1>0, <2>2, CatalogInvLost DEF PanicSave, CatalogTypeOK
  <2>3. QED
    BY <1>7, <2>1, <2>2 DEF ProcessDies
<1>8. CASE UNCHANGED catalogVars
  BY <1>0, <1>8 DEF catalogVars, CatalogInv, CatalogTypeOK, SavesCarryFields
<1>9. QED
  BY <1>1, <1>2, <1>3, <1>4, <1>5, <1>6, <1>7, <1>8
  DEF CatalogNext, CatalogRequest, SaverStep

\* Every reachable state of the catalogue is well typed; in particular a file
\* of the config store never holds anything but fields of a function.
THEOREM CatalogTypeCorrect == CatalogSpec => []CatalogTypeOK
<1>1. CatalogInv => CatalogTypeOK
  BY DEF CatalogInv
<1>2. QED
  BY <1>1, CatalogInvInit, CatalogInvStep, PTL DEF CatalogSpec

\* When no two functions are created in one millisecond, an identifier names
\* one object for ever, however PUTs, DELETEs, saves and crashes interleave.
THEOREM CatalogIdentifiers ==
  ASSUME DistinctFnIds
  PROVE  CatalogSpec => IdentifiersNeverReused
<1> DEFINE Kept == \A i \in DOMAIN functions' :
                     \/ i \in DOMAIN functions /\ functions'[i] = functions[i]
                     \/ i \notin fnIssued
<1>1. [CatalogNext]_catalogVars => [Kept]_catalogVars
  <2> SUFFICES ASSUME CatalogNext PROVE Kept
    OBVIOUS
  <2>1. CASE UNCHANGED functions
    BY <2>1
  <2>2. ASSUME NEW o \in Objects, NEW t \in FnMillis, NEW n \in Names, NEW s \in Savers,
               CreateFunction(o, t, n, s)
        PROVE  Kept
    <3>1. functions' = Put(functions, t, o) /\ t \notin fnIssued
      BY <2>2 DEF CreateFunction, FreshFnId
    <3>2. QED
      BY <3>1 DEF Put
  <2>3. ASSUME NEW i \in FnMillis, DeleteFunction(i)
        PROVE  Kept
    <3>1. functions' = Drop(functions, i)
      BY <2>3 DEF DeleteFunction
    <3>2. /\ DOMAIN functions' = DOMAIN functions \ {i}
          /\ \A x \in DOMAIN functions \ {i} : functions'[x] = functions[x]
      BY <3>1, DropEntries
    <3>3. QED
      BY <3>2
  <2>4. CASE ProcessDies
    BY <2>4, EmptyMapEntries DEF ProcessDies, Restart, PanicSave, CatalogLost
  <2>5. QED
    BY <2>1, <2>2, <2>3, <2>4
    DEF CatalogNext, CatalogRequest, UpdateFunction, SaverStep, LookupAndSpawnSave,
        MarshalSave, DeliverSave, LoseSave
<1>2. QED
  BY <1>1, PTL DEF CatalogSpec, IdentifiersNeverReused
=============================================================================
