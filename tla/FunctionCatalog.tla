--------------------------- MODULE FunctionCatalog ---------------------------
(***************************************************************************)
(* The function half of the function manager: the blueprints a client      *)
(* creates, updates and deletes, and the background saves that copy each   *)
(* of them to the config store.                                            *)
(*                                                                         *)
(* The manager keeps pointers: `functions` maps an identifier to a heap    *)
(* object, and a save goroutine or a deployment that was handed the        *)
(* pointer reads the object later, whatever the map says by then.          *)
(***************************************************************************)
EXTENDS Naturals, Maps

CONSTANTS
  Objects,        \* heap cells for Function structs; each POST uses a fresh one
  Names,          \* values of the mutable fields of a function
  UpdateNames,    \* the ones clients PUT
  FnMillis,       \* the milliseconds at which functions are created
  Savers,         \* PUT handlers and the save goroutines, one slot each
  DistinctFnIds,  \* TRUE: no two POSTs fall in the same millisecond
  StoreMayFail,   \* TRUE: the POST to the config store may fail
  MaxRestarts,    \* bound: process restarts that are not panics
  NoName,         \* a heap cell never allocated
  NoObject        \* Go's nil *Function

ASSUME CatalogAssumption ==
  /\ UpdateNames \subseteq Names
  /\ FnMillis \subseteq Nat
  /\ DistinctFnIds \in BOOLEAN
  /\ StoreMayFail \in BOOLEAN
  /\ MaxRestarts \in Nat
  /\ NoName \notin Names
  /\ NoObject \notin Objects

VARIABLES
  fnIssued,   \* history: the milliseconds that were made identifiers
  heap,       \* object -> the function's mutable fields
  functions,  \* Store.functions: identifier -> object
  saver,      \* slot -> the PUT handler or save goroutine in it
  configs,    \* config store's functions/ directory: identifier -> fields
  restarts,   \* restarts of the process so far
  panicked    \* a nil pointer was dereferenced

catalogVars == <<fnIssued, heap, functions, saver, configs, restarts, panicked>>

-----------------------------------------------------------------------------
\* What one slot is doing. "put": the PUT handler between UpdateFunction and
\* GetFunction; "spawned": saveToConfigStore has the pointer but has not
\* marshalled it; "posting": the request is on its way. A goroutine that
\* returns frees its slot.
IdleSaver == [pc |-> "idle", id |-> 0, obj |-> NoObject, data |-> NoName]

Saver == [pc : {"idle", "put", "spawned", "posting"},
          id : FnMillis \cup {0},
          obj : Objects \cup {NoObject},
          data : Names \cup {NoName}]

Allocated(o) == heap[o] # NoName

CatalogTypeOK ==
  /\ fnIssued \subseteq FnMillis
  /\ heap \in [Objects -> Names \cup {NoName}]
  /\ DOMAIN functions \subseteq FnMillis
  /\ \A i \in DOMAIN functions : functions[i] \in Objects
  /\ saver \in [Savers -> Saver]
  /\ DOMAIN configs \subseteq FnMillis
  /\ \A i \in DOMAIN configs : configs[i] \in Names
  /\ restarts \in Nat
  /\ panicked \in BOOLEAN

CatalogInit ==
  /\ fnIssued = {}
  /\ heap = [o \in Objects |-> NoName]
  /\ functions = EmptyMap
  /\ saver = [s \in Savers |-> IdleSaver]
  /\ configs = EmptyMap
  /\ restarts = 0
  /\ panicked = FALSE

-----------------------------------------------------------------------------
\* fmt.Sprintf("fn-%d", time.Now().UnixMilli()), read before the store's lock is
\* taken: functions may be stored in another order than that of their identifiers.
FreshFnId(t) ==
  /\ t \in FnMillis
  /\ DistinctFnIds => t \notin fnIssued

\* POST /api/functions: allocate, store, and spawn the save with the pointer.
CreateFunction(o, t, n, s) ==
  /\ ~ Allocated(o)
  /\ FreshFnId(t)
  /\ saver[s].pc = "idle"
  /\ fnIssued' = fnIssued \cup {t}
  /\ heap' = [heap EXCEPT ![o] = n]
  /\ functions' = Put(functions, t, o)
  /\ saver' = [saver EXCEPT ![s] = [pc |-> "spawned", id |-> t, obj |-> o,
                                    data |-> NoName]]
  /\ UNCHANGED <<configs, restarts, panicked>>

\* Mutant of UpdateFunction: PUT creates a function that is not there.
UpdateFunctionUpserts(i, n, s) ==
  /\ saver[s].pc = "idle"
  /\ \E o \in Objects :
       /\ IF i \in DOMAIN functions THEN o = functions[i] ELSE ~ Allocated(o)
       /\ heap' = [heap EXCEPT ![o] = n]
       /\ functions' = Put(functions, i, o)
  /\ UNCHANGED <<fnIssued, saver, configs, restarts, panicked>>

\* PUT /api/functions/:id, up to the release of the store's lock: the fields
\* given are assigned through the pointer. An absent identifier is a 404.
UpdateFunction(i, n, s) ==
  /\ i \in DOMAIN functions
  /\ saver[s].pc = "idle"
  /\ heap' = [heap EXCEPT ![functions[i]] = n]
  /\ saver' = [saver EXCEPT ![s] = [pc |-> "put", id |-> i, obj |-> NoObject,
                                    data |-> NoName]]
  /\ UNCHANGED <<fnIssued, functions, configs, restarts, panicked>>

\* Mutant of LookupAndSpawnSave: an update is not saved.
UpdateWithoutSave(s) ==
  /\ saver[s].pc = "put"
  /\ saver' = [saver EXCEPT ![s] = IdleSaver]
  /\ UNCHANGED <<fnIssued, heap, functions, configs, restarts, panicked>>

\* PUT, after the lock is released: look the function up again and spawn the
\* save with whatever pointer comes back, nil included.
LookupAndSpawnSave(s) ==
  /\ saver[s].pc = "put"
  /\ LET i == saver[s].id
     IN saver' = [saver EXCEPT ![s].pc = "spawned",
                               ![s].obj = IF i \in DOMAIN functions
                                          THEN functions[i] ELSE NoObject]
  /\ UNCHANGED <<fnIssued, heap, functions, configs, restarts, panicked>>

\* DELETE /api/functions/:id: the map entry goes; the object lives on for
\* whoever holds the pointer, and the config store is not told.
DeleteFunction(i) ==
  /\ i \in DOMAIN functions
  /\ functions' = Drop(functions, i)
  /\ UNCHANGED <<fnIssued, heap, saver, configs, restarts, panicked>>

-----------------------------------------------------------------------------
\* Mutants of MarshalSave: the ignored marshalling error posts an empty
\* document; a function that was deleted meanwhile is not saved.
MarshalNothing(s) ==
  /\ saver[s].pc = "spawned"
  /\ saver[s].obj # NoObject
  /\ saver' = [saver EXCEPT ![s].pc = "posting"]
  /\ UNCHANGED <<fnIssued, heap, functions, configs, restarts, panicked>>

MarshalIfListed(s) ==
  /\ saver[s].pc = "spawned"
  /\ saver[s].obj # NoObject
  /\ saver' = [saver EXCEPT ![s] =
                 IF @.id \in DOMAIN functions
                 THEN [@ EXCEPT !.pc = "posting", !.data = heap[saver[s].obj]]
                 ELSE IdleSaver]
  /\ UNCHANGED <<fnIssued, heap, functions, configs, restarts, panicked>>

\* saveToConfigStore marshals the object when the goroutine runs, not when it
\* was spawned.
MarshalSave(s) ==
  /\ saver[s].pc = "spawned"
  /\ saver[s].obj # NoObject
  /\ saver' = [saver EXCEPT ![s].pc = "posting", ![s].data = heap[saver[s].obj]]
  /\ UNCHANGED <<fnIssued, heap, functions, configs, restarts, panicked>>

\* The config store's handler overwrites functions/<id>.json.
DeliverSave(s) ==
  /\ saver[s].pc = "posting"
  /\ configs' = Put(configs, saver[s].id, saver[s].data)
  /\ saver' = [saver EXCEPT ![s] = IdleSaver]
  /\ UNCHANGED <<fnIssued, heap, functions, restarts, panicked>>

\* The POST fails (10 s timeout, refused, ...): logged, never retried.
LoseSave(s) ==
  /\ StoreMayFail
  /\ saver[s].pc = "posting"
  /\ saver' = [saver EXCEPT ![s] = IdleSaver]
  /\ UNCHANGED <<fnIssued, heap, functions, configs, restarts, panicked>>

-----------------------------------------------------------------------------
\* What a process that dies loses: the store and every goroutine. Only the
\* config store's files are left; nothing reads them back at start-up.
CatalogLost ==
  /\ functions' = EmptyMap
  /\ saver' = [s \in Savers |-> IdleSaver]
  /\ UNCHANGED <<fnIssued, heap, configs>>

\* A save goroutine given nil evaluates f.ID: the panic is not recovered and
\* takes the whole process down.
PanicSave(s) ==
  /\ saver[s].pc = "spawned"
  /\ saver[s].obj = NoObject
  /\ panicked' = TRUE
  /\ UNCHANGED restarts
  /\ CatalogLost

Restart ==
  /\ restarts < MaxRestarts
  /\ restarts' = restarts + 1
  /\ UNCHANGED panicked
  /\ CatalogLost

-----------------------------------------------------------------------------
SaverStep(s) == LookupAndSpawnSave(s) \/ MarshalSave(s) \/ DeliverSave(s) \/ LoseSave(s)

CatalogRequest ==
  \/ \E o \in Objects, t \in FnMillis, n \in Names, s \in Savers :
       CreateFunction(o, t, n, s)
  \/ \E i \in FnMillis, n \in UpdateNames, s \in Savers : UpdateFunction(i, n, s)
  \/ \E i \in FnMillis : DeleteFunction(i)

ProcessDies == Restart \/ \E s \in Savers : PanicSave(s)

CatalogNext ==
  \/ CatalogRequest
  \/ \E s \in Savers : SaverStep(s)
  \/ ProcessDies

CatalogSpec == CatalogInit /\ [][CatalogNext]_catalogVars

-----------------------------------------------------------------------------
(* Properties *)

SavesInFlight(i) == {s \in Savers : saver[s].pc # "idle" /\ saver[s].id = i}

\* An identifier names one object for ever: a step never points an identifier
\* already handed out at another object, and a deleted function never comes
\* back, whatever PUT handlers and saves were under way when it was deleted.
IdentifiersNeverReused ==
  [][\A i \in DOMAIN functions' :
       \/ i \in DOMAIN functions /\ functions'[i] = functions[i]
       \/ i \notin fnIssued]_catalogVars
=============================================================================
