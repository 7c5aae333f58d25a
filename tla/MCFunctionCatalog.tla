-------------------------- MODULE MCFunctionCatalog --------------------------
\* FunctionCatalog on a small instance, with a history variable for what makes
\* a file of the config store unreliable: of two saves that overlap the older
\* may be written last, and a POST that is lost is not repeated.
EXTENDS FunctionCatalog

VARIABLE unsure  \* identifiers of which two saves overlapped or one was lost

MCVars == <<catalogVars, unsure>>

MCInit == CatalogInit /\ unsure = {}

Overlapping(i) == \E s, t \in SavesInFlight(i) : s # t

MCNext ==
  /\ CatalogNext
  /\ unsure' = unsure \cup {i \in FnMillis : Overlapping(i)'}
                      \cup {saver[s].id : s \in {u \in Savers : LoseSave(u)}}

\* Goroutines that can run are run: the Go scheduler is fair and the HTTP
\* client gives up after 10 s.
MCSpec ==
  /\ MCInit
  /\ [][MCNext]_MCVars
  /\ \A s \in Savers : WF_MCVars(SaverStep(s) /\ MCNext)

\* A function whose saves have all returned has a file with its current
\* fields, whatever PUTs, DELETEs and restarts came in between, unless two of
\* its saves overlapped or one was lost.
SureConfigIsCurrent ==
  \A i \in DOMAIN functions \ unsure :
    SavesInFlight(i) = {} => /\ i \in DOMAIN configs
                             /\ configs[i] = heap[functions[i]]

\* A function that was accepted reaches the config store, even when it is
\* deleted first, unless a save of it is lost or the process dies.
EventuallySaved ==
  \A i \in FnMillis :
    i \in DOMAIN functions ~> \/ i \in DOMAIN configs \cup unsure
                              \/ panicked \/ restarts > 0
=============================================================================
