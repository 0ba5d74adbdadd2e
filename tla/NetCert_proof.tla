--------------------------- MODULE NetCert_proof ---------------------------
(***************************************************************************)
(* Proofs about the network certificate, for any number of ids and faults. *)
(*                                                                         *)
(* A container is named after the certificate that was on disk when its    *)
(* key was made, so everything rests on which names can meet: the name an  *)
(* attempt writes to is that of the current certificate, and no pair in    *)
(* the store is bound to it unless a save was cut short (PairInv).         *)
(***************************************************************************)
EXTENDS NetCert, FiniteSetTheorems, TLAPS

\* The steps of save once the new certificate is bound, and the ones after the sweep.
Late == {"chain", "chainfill", "crt", "crtfill"}
Bound == {"trust", "sweep"} \cup Late
Early == {"ask", "add", "bind"}
Places == {"rest", "key", "keyfill"} \cup Early \cup Bound

Bindings == Names \cup {Unbound, Absent}

\* The container that the attempt at hand, or the next one, writes its key to.
Base == IF at = "rest" THEN crt ELSE prev

TypeInv ==
  /\ windows \in BOOLEAN /\ crt \in Names \cup {Torn}
  /\ store \in [Ids -> Bindings] /\ cont \in [Names -> Names]
  /\ at \in Places /\ new \in Names /\ prev \in Names
  /\ doomed \subseteq Ids /\ victim \in Bindings
  /\ broken \in BOOLEAN /\ held \in BOOLEAN /\ provided \in BOOLEAN /\ faults \in Nat

\* Where an attempt is tells what it has done: its id is new to the store, the
\* certificate it replaces is on disk until its own is written, and what it sweeps
\* is never its own.
AttemptInv ==
  /\ at \in {"key", "keyfill"} => ~windows
  /\ at \in {"add", "bind", "trust", "sweep"} => windows
  /\ ~windows => (\A n \in Names : cont[n] = None) /\ (\A i \in Ids : store[i] = Absent)
  /\ at # "rest" => new \in Ids /\ new # prev /\ crt = IF at = "crtfill" THEN Torn ELSE prev
  /\ at # "rest" => \A i \in Ids : store[i] # new
  /\ at \in {"ask", "add"} => store[new] = Absent
  /\ at = "bind" => store[new] = Unbound
  /\ windows /\ at \in Bound => store[new] = prev
  /\ at # "sweep" => doomed = {} /\ victim = Absent
  /\ new \notin doomed

\* No save was cut short: the containers in use and the one to be written to are
\* different ones, and the pair of the certificate on disk is whole.
PairInv ==
  ~broken =>
    /\ windows =>
         /\ crt # Torn \/ at = "crtfill"
         /\ \A i \in Ids : store[i] = Base => at \in Bound /\ i = new
         /\ held /\ at \in {"rest"} \cup Early =>
              \E i \in Ids : store[i] \in Names \ {Base} /\ cont[store[i]] = i
         /\ at # "rest" => cont[prev] = new /\ victim # prev
    /\ ~windows /\ held /\ at \in {"rest", "ask"} => Usable

\* What a save on unix has written so far, whatever came before it.
FileInv ==
  ~windows =>
    /\ at \in Late => keyfile = new
    /\ at \in {"crt", "crtfill"} => chain = "ok"

\* A device that has been given a certificate has one in its store ever after, and
\* whoever stands aside is not in an attempt.
AsideInv ==
  /\ aside => at = "rest"
  /\ provided => ProvidedByUs
  /\ StandsAsideOnlyBefore

\* The containers with a key, but for the one that is written to; those of them no
\* certificate is bound to; and those that the sweep at hand leaves.
Kept == {n \in Names : cont[n] # None /\ n # Base}
Orphans == {n \in Kept : \A i \in Ids : store[i] # n}
Spared == {n \in Kept : n # victim /\ \A i \in doomed : store[i] # n}

\* One container is in use; every other one is either swept by the attempt at hand or
\* there because of a fault.
CountInv ==
  /\ Cardinality(Kept) <= 1 + faults
  /\ at \in {"rest", "trust"} \cup Early => Cardinality(Orphans) <= faults
  /\ at = "sweep" => Cardinality(Spared) <= faults
  /\ at \in Late => Cardinality(Kept) <= faults

NetInv == TypeInv /\ AttemptInv /\ PairInv /\ FileInv /\ AsideInv /\ CountInv

-----------------------------------------------------------------------------
(* The steps.                                                              *)

\* The ids, and the values that are none.
LEMMA IdFacts ==
  /\ MaxIds \in Nat \ {0} /\ Ids \subseteq Nat \ {0} /\ Ids \subseteq Names
  /\ None \in Names /\ None \notin Ids /\ Names \subseteq Nat
  /\ Torn \notin Names /\ Unbound \notin Names /\ Absent \notin Names
  /\ Torn # None /\ Unbound # Absent /\ 1 \in Ids
  BY NetCertBoundsAssumption DEF Ids, Names, None, Torn, Unbound, Absent

\* The id of a new key is one that nothing refers to (newDeviceKey).
LEMMA FreshFacts ==
  ASSUME TypeInv, NEW i \in Fresh
  PROVE  /\ i \in Ids /\ i \notin {keyfile, crt, new, prev} /\ store[i] = Absent
         /\ (\A k \in Ids : store[k] # i)
         /\ (\A n \in Names : cont[n] # i) /\ cont[i] = None
  BY IdFacts DEF Fresh, Used

\* The key of an attempt goes to the container named after the certificate on disk,
\* on Windows, and is new.
Keying ==
  /\ at = "rest" /\ crt \in Names /\ aside' = FALSE
  /\ windows' = windows /\ mode' = mode /\ keyfile' = keyfile /\ chain' = chain
  /\ crt' = crt /\ store' = store
  /\ held' = held /\ provided' = provided /\ broken' = broken
  /\ cont' \in [Names -> Names] /\ \A n \in Names : n # crt => cont'[n] = cont[n]
  /\ ~windows => cont' = cont
  /\ \/ Rest /\ faults' = faults + 1
     \/ /\ at' = "ask" /\ prev' = crt /\ doomed' = doomed /\ victim' = victim
        /\ faults' = faults
        /\ new' \in Ids /\ new' # crt /\ store[new'] = Absent
        /\ \A k \in Ids : store[k] # new'
        /\ windows => cont'[crt] = new'

\* newDeviceKey and its failure are such steps.
LEMMA KeyStep ==
  ASSUME TypeInv, NoKey \/ newDeviceKey
  PROVE  Keying
  <1>1. at = "rest" /\ ~LoadFails /\ aside' = FALSE
    BY Zenon DEF NoKey, newDeviceKey, GoesOn
  <1>2. crt \in Names /\ cont \in [Names -> Names]
    BY <1>1 DEF LoadFails, TypeInv
  <1>3. /\ windows' = windows /\ mode' = mode /\ keyfile' = keyfile /\ chain' = chain
        /\ crt' = crt /\ store' = store
        /\ held' = held /\ provided' = provided /\ broken' = broken
    BY Zenon DEF NoKey, newDeviceKey, histVars, fileVars, siteVars
  <1>4. CASE NoKey
    <2>1. /\ Rest /\ faults' = faults + 1
          /\ cont' = cont \/ (windows /\ \E i \in Fresh : cont' = [cont EXCEPT ![crt] = i])
      BY <1>4, Zenon DEF NoKey, Finish, createCNGKey, keyContainerName
    <2>2. \A i \in Fresh : i \in Names
      BY IdFacts, FreshFacts, Zenon
    <2>3. /\ cont' \in [Names -> Names] /\ \A n \in Names : n # crt => cont'[n] = cont[n]
          /\ ~windows => cont' = cont
      BY <1>2, <2>1, <2>2
    <2> QED BY <1>1, <1>2, <1>3, <2>1, <2>3, Zenon DEF Keying
  <1>5. CASE newDeviceKey
    <2>1. PICK i \in Fresh :
            new' = i /\ cont' = IF windows THEN [cont EXCEPT ![crt] = i] ELSE cont
      BY <1>5, Zenon DEF newDeviceKey, createCNGKey, keyContainerName
    <2>2. /\ at' = "ask" /\ prev' = crt /\ doomed' = doomed /\ victim' = victim
          /\ faults' = faults
      BY <1>5, Zenon DEF newDeviceKey
    <2>3. i \in Ids /\ i # crt /\ store[i] = Absent /\ (\A k \in Ids : store[k] # i)
      BY FreshFacts
    <2>4. /\ cont' \in [Names -> Names] /\ \A n \in Names : n # crt => cont'[n] = cont[n]
          /\ ~windows => cont' = cont
          /\ windows => cont'[crt] = new'
      BY <1>2, <2>1, <2>3, IdFacts
    <2> QED BY <1>1, <1>2, <1>3, <2>1, <2>2, <2>3, <2>4, Zenon DEF Keying
  <1> QED BY <1>4, <1>5, Zenon

\* The writes of save, step by step: a file is truncated, then filled.
Writing ==
  /\ windows' = windows /\ crt' = crt /\ store' = store /\ cont' = cont
  /\ new' = new /\ prev' = prev /\ doomed' = doomed /\ victim' = victim
  /\ mode' = mode /\ aside' = aside
  /\ held' = held /\ provided' = provided /\ broken' = broken /\ faults' = faults
  /\ \/ at = "key" /\ at' = "keyfill"
     \/ at = "keyfill" /\ at' = "chain" /\ keyfile' = new
     \/ at = "chain" /\ at' = "chainfill" /\ keyfile' = keyfile
     \/ at = "chainfill" /\ at' = "crt" /\ keyfile' = keyfile /\ chain' = "ok"

\* writeKey and writeChain are such steps.
LEMMA WriteStep ==
  ASSUME writeKey \/ writeChain
  PROVE  Writing
  BY Zenon DEF Writing, writeKey, writeChain, To, storeVars, siteVars, loopVars, histVars

\* The new certificate in the store, without a key and then with one.
Binding ==
  /\ windows' = windows /\ crt' = crt /\ cont' = cont
  /\ new' = new /\ prev' = prev /\ doomed' = doomed /\ victim' = victim
  /\ mode' = mode /\ aside' = aside
  /\ held' = held /\ broken' = broken /\ faults' = faults
  /\ \A i \in Ids : i # new => store'[i] = store[i]
  /\ store' \in [Ids -> Bindings]
  /\ \/ at = "add" /\ at' = "bind" /\ store'[new] = Unbound /\ provided' = provided
     \/ at = "bind" /\ at' = "trust" /\ store'[new] = prev /\ provided' = TRUE

\* addToStore and bindKey are such steps.
LEMMA BindStep ==
  ASSUME TypeInv, AttemptInv, addToStore \/ bindKey
  PROVE  Binding
  <1>1. /\ windows' = windows /\ crt' = crt /\ cont' = cont
        /\ new' = new /\ prev' = prev /\ doomed' = doomed /\ victim' = victim
        /\ mode' = mode /\ aside' = aside
        /\ held' = held /\ broken' = broken /\ faults' = faults
    BY Zenon DEF addToStore, bindKey, To, fileVars, siteVars, loopVars, histVars
  <1>2. \E b \in {Unbound, prev} :
          /\ store' = [store EXCEPT ![new] = b]
          /\ \/ at = "add" /\ at' = "bind" /\ b = Unbound /\ provided' = provided
             \/ at = "bind" /\ at' = "trust" /\ b = prev /\ provided' = TRUE
    BY Zenon DEF addToStore, bindKey, To, histVars, keyContainerName
  <1>3. {Unbound, prev} \subseteq Bindings /\ store \in [Ids -> Bindings] /\ new \in Ids
    BY <1>2 DEF TypeInv, AttemptInv, Bindings
  <1> QED BY <1>1, <1>2, <1>3 DEF Binding

\* The types are kept by every step.
LEMMA TypeStep ==
  ASSUME TypeInv, AttemptInv, Next
  PROVE  TypeInv'
  <1> USE DEF TypeInv, Places, Early, Late, Bound, Bindings, fileVars, storeVars, tryVars, siteVars, histVars
  <1> USE IdFacts
  <1>1. CASE StandAside
    BY <1>1 DEF StandAside, Finish, Rest
  <1>2. CASE EnsureEnds
    BY <1>2 DEF EnsureEnds, GoesOn, Finish, Rest
  <1>3. CASE NoKey
    <2>1. Keying
      BY <1>3, KeyStep, Zenon
    <2>2. faults' \in Nat /\ at' \in Places
      BY <2>1 DEF Keying, Rest
    <2>3. new' \in Names /\ prev' \in Names /\ doomed' \subseteq Ids /\ victim' \in Bindings
      BY <2>1 DEF Keying, Rest
    <2> QED BY <2>1, <2>2, <2>3, Zenon DEF Keying
  <1>4. CASE newDeviceKey
    <2>1. Keying
      BY <1>4, KeyStep, Zenon
    <2>2. faults' \in Nat /\ at' \in Places
      BY <2>1 DEF Keying, Rest
    <2>3. new' \in Names /\ prev' \in Names /\ doomed' \subseteq Ids /\ victim' \in Bindings
      BY <2>1 DEF Keying, Rest
    <2> QED BY <2>1, <2>2, <2>3, Zenon DEF Keying
  <1>5. CASE Request
    BY <1>5 DEF Request
  <1>6. CASE RequestFails
    BY <1>6 DEF RequestFails, discard, keyContainerName, Finish, Rest
  <1>7. CASE buildCSRFails
    BY <1>7 DEF buildCSRFails, discard, keyContainerName, Finish, Rest
  <1>8. CASE addToStore
    <2>1. Binding
      BY <1>8, BindStep, Zenon
    <2> QED BY <2>1 DEF Binding
  <1>9. CASE bindKey
    <2>1. Binding
      BY <1>9, BindStep, Zenon
    <2> QED BY <2>1 DEF Binding
  <1>10. CASE installChain
    BY <1>10 DEF installChain, To
  <1>11. CASE sweepSuperseded
    BY <1>11 DEF sweepSuperseded
  <1>12. CASE deleteCNGKey
    BY <1>12 DEF deleteCNGKey
  <1>13. CASE Swept
    BY <1>13 DEF Swept, To
  <1>14. CASE writeKey
    <2>1. Writing
      BY <1>14, WriteStep, Zenon
    <2> QED BY <2>1 DEF Writing
  <1>15. CASE writeChain
    <2>1. Writing
      BY <1>15, WriteStep, Zenon
    <2> QED BY <2>1 DEF Writing
  <1>16. CASE writeCert
    BY <1>16 DEF writeCert, To
  <1>17. CASE Saved
    BY <1>17 DEF Saved, Rest
  <1>18. CASE SaveFails
    BY <1>18 DEF SaveFails, Saving, keyContainerName, Finish, Rest
  <1>19. CASE Crash
    BY <1>19 DEF Crash, Saving, Rest
  <1>20. CASE TimePasses
    BY <1>20 DEF TimePasses
  <1>21. CASE DirectoryAppears
    BY <1>21 DEF DirectoryAppears
  <1> HIDE DEF TypeInv, Places, Early, Late, Bound, Bindings, fileVars, storeVars, tryVars, siteVars, histVars
  <1> QED
    BY <1>1, <1>2, <1>3, <1>4, <1>5, <1>6, <1>7, <1>8, <1>9, <1>10, <1>11, <1>12,
       <1>13, <1>14, <1>15, <1>16, <1>17, <1>18, <1>19, <1>20, <1>21,
       SMT DEF Next, Attempt, Install, Write

\* What an attempt has done so far: kept by every step.
LEMMA AttemptStep ==
  ASSUME TypeInv, AttemptInv, Next
  PROVE  AttemptInv'
  <1> USE DEF AttemptInv, Places, Early, Late, Bound, fileVars, storeVars, tryVars, siteVars, histVars
  <1> USE IdFacts DEF TypeInv
  <1>1. CASE StandAside
    BY <1>1 DEF StandAside, Finish, Rest
  <1>2. CASE EnsureEnds
    BY <1>2 DEF EnsureEnds, GoesOn, Finish, Rest
  <1>3. CASE NoKey
    <2>1. Keying
      BY <1>3, KeyStep, Zenon
    <2> QED BY <2>1 DEF Keying, Rest
  <1>4. CASE newDeviceKey
    <2>1. Keying
      BY <1>4, KeyStep, Zenon
    <2> QED BY <2>1 DEF Keying, Rest
  <1>5. CASE Request
    BY <1>5 DEF Request
  <1>6. CASE RequestFails
    BY <1>6 DEF RequestFails, discard, keyContainerName, Finish, Rest
  <1>7. CASE buildCSRFails
    BY <1>7 DEF buildCSRFails, discard, keyContainerName, Finish, Rest
  <1>8. CASE addToStore
    <2>1. Binding
      BY <1>8, BindStep, Zenon
    <2> QED BY <2>1 DEF Binding
  <1>9. CASE bindKey
    <2>1. Binding
      BY <1>9, BindStep, Zenon
    <2> QED BY <2>1 DEF Binding
  <1>10. CASE installChain
    BY <1>10 DEF installChain, To
  <1>11. CASE sweepSuperseded
    BY <1>11 DEF sweepSuperseded
  <1>12. CASE deleteCNGKey
    BY <1>12 DEF deleteCNGKey
  <1>13. CASE Swept
    BY <1>13 DEF Swept, To
  <1>14. CASE writeKey
    <2>1. Writing
      BY <1>14, WriteStep, Zenon
    <2> QED BY <2>1 DEF Writing
  <1>15. CASE writeChain
    <2>1. Writing
      BY <1>15, WriteStep, Zenon
    <2> QED BY <2>1 DEF Writing
  <1>16. CASE writeCert
    BY <1>16 DEF writeCert, To
  <1>17. CASE Saved
    BY <1>17 DEF Saved, Rest
  <1>18. CASE SaveFails
    BY <1>18 DEF SaveFails, Saving, keyContainerName, Finish, Rest
  <1>19. CASE Crash
    BY <1>19 DEF Crash, Saving, Rest
  <1>20. CASE TimePasses
    BY <1>20 DEF TimePasses
  <1>21. CASE DirectoryAppears
    BY <1>21 DEF DirectoryAppears
  <1> HIDE DEF AttemptInv, Places, Early, Late, Bound, fileVars, storeVars, tryVars, siteVars, histVars
  <1> QED
    BY <1>1, <1>2, <1>3, <1>4, <1>5, <1>6, <1>7, <1>8, <1>9, <1>10, <1>11, <1>12,
       <1>13, <1>14, <1>15, <1>16, <1>17, <1>18, <1>19, <1>20, <1>21,
       SMT DEF Next, Attempt, Install, Write

\* What a save on unix has written: kept by every step.
LEMMA FileStep ==
  ASSUME TypeInv, AttemptInv, FileInv, Next
  PROVE  FileInv'
  <1> USE DEF FileInv, AttemptInv, Places, Early, Late, Bound, fileVars, storeVars, tryVars, siteVars, histVars
  <1> USE IdFacts DEF TypeInv
  <1>1. CASE StandAside
    BY <1>1 DEF StandAside, Finish, Rest
  <1>2. CASE EnsureEnds
    BY <1>2 DEF EnsureEnds, GoesOn, Finish, Rest
  <1>3. CASE NoKey
    <2>1. Keying
      BY <1>3, KeyStep, Zenon
    <2> QED BY <2>1 DEF Keying, Rest
  <1>4. CASE newDeviceKey
    <2>1. Keying
      BY <1>4, KeyStep, Zenon
    <2> QED BY <2>1 DEF Keying, Rest
  <1>5. CASE Request
    BY <1>5 DEF Request
  <1>6. CASE RequestFails
    BY <1>6 DEF RequestFails, discard, keyContainerName, Finish, Rest
  <1>7. CASE buildCSRFails
    BY <1>7 DEF buildCSRFails, discard, keyContainerName, Finish, Rest
  <1>8. CASE addToStore
    <2>1. Binding
      BY <1>8, BindStep, Zenon
    <2> QED BY <2>1 DEF Binding
  <1>9. CASE bindKey
    <2>1. Binding
      BY <1>9, BindStep, Zenon
    <2> QED BY <2>1 DEF Binding
  <1>10. CASE installChain
    BY <1>10 DEF installChain, To
  <1>11. CASE sweepSuperseded
    BY <1>11 DEF sweepSuperseded
  <1>12. CASE deleteCNGKey
    BY <1>12 DEF deleteCNGKey
  <1>13. CASE Swept
    BY <1>13 DEF Swept, To
  <1>14. CASE writeKey
    <2>1. Writing
      BY <1>14, WriteStep, Zenon
    <2> QED BY <2>1 DEF Writing
  <1>15. CASE writeChain
    <2>1. Writing
      BY <1>15, WriteStep, Zenon
    <2> QED BY <2>1 DEF Writing
  <1>16. CASE writeCert
    BY <1>16 DEF writeCert, To
  <1>17. CASE Saved
    BY <1>17 DEF Saved, Rest
  <1>18. CASE SaveFails
    BY <1>18 DEF SaveFails, Saving, keyContainerName, Finish, Rest
  <1>19. CASE Crash
    BY <1>19 DEF Crash, Saving, Rest
  <1>20. CASE TimePasses
    BY <1>20 DEF TimePasses
  <1>21. CASE DirectoryAppears
    BY <1>21 DEF DirectoryAppears
  <1> HIDE DEF FileInv, AttemptInv, Places, Early, Late, Bound, fileVars, storeVars, tryVars, siteVars, histVars
  <1> QED
    BY <1>1, <1>2, <1>3, <1>4, <1>5, <1>6, <1>7, <1>8, <1>9, <1>10, <1>11, <1>12,
       <1>13, <1>14, <1>15, <1>16, <1>17, <1>18, <1>19, <1>20, <1>21,
       SMT DEF Next, Attempt, Install, Write

\* Whom the agent stands aside for: kept by every step.
LEMMA AsideStep ==
  ASSUME TypeInv, AttemptInv, AsideInv, Next
  PROVE  AsideInv'
  <1> USE DEF AsideInv, StandsAsideOnlyBefore, ProvidedByUs, Decide, AttemptInv, Places, Early, Late, Bound, loopVars, fileVars, storeVars, tryVars, siteVars, histVars
  <1> USE IdFacts DEF TypeInv
  <1>1. CASE StandAside
    BY <1>1 DEF StandAside, Finish, Rest
  <1>2. CASE EnsureEnds
    BY <1>2 DEF EnsureEnds, GoesOn, Finish, Rest
  <1>3. CASE NoKey
    <2>1. Keying
      BY <1>3, KeyStep, Zenon
    <2> QED BY <2>1 DEF Keying, Rest
  <1>4. CASE newDeviceKey
    <2>1. Keying
      BY <1>4, KeyStep, Zenon
    <2> QED BY <2>1 DEF Keying, Rest
  <1>5. CASE Request
    BY <1>5 DEF Request
  <1>6. CASE RequestFails
    BY <1>6 DEF RequestFails, discard, keyContainerName, Finish, Rest
  <1>7. CASE buildCSRFails
    BY <1>7 DEF buildCSRFails, discard, keyContainerName, Finish, Rest
  <1>8. CASE addToStore
    <2>1. Binding
      BY <1>8, BindStep, Zenon
    <2> QED BY <2>1 DEF Binding
  <1>9. CASE bindKey
    <2>1. Binding
      BY <1>9, BindStep, Zenon
    <2> QED BY <2>1 DEF Binding
  <1>10. CASE installChain
    BY <1>10 DEF installChain, To
  <1>11. CASE sweepSuperseded
    BY <1>11 DEF sweepSuperseded
  <1>12. CASE deleteCNGKey
    BY <1>12 DEF deleteCNGKey
  <1>13. CASE Swept
    BY <1>13 DEF Swept, To
  <1>14. CASE writeKey
    <2>1. Writing
      BY <1>14, WriteStep, Zenon
    <2> QED BY <2>1 DEF Writing
  <1>15. CASE writeChain
    <2>1. Writing
      BY <1>15, WriteStep, Zenon
    <2> QED BY <2>1 DEF Writing
  <1>16. CASE writeCert
    BY <1>16 DEF writeCert, To
  <1>17. CASE Saved
    BY <1>17 DEF Saved, Rest
  <1>18. CASE SaveFails
    BY <1>18 DEF SaveFails, Saving, keyContainerName, Finish, Rest
  <1>19. CASE Crash
    BY <1>19 DEF Crash, Saving, Rest
  <1>20. CASE TimePasses
    BY <1>20 DEF TimePasses
  <1>21. CASE DirectoryAppears
    BY <1>21 DEF DirectoryAppears
  <1> HIDE DEF AsideInv, StandsAsideOnlyBefore, ProvidedByUs, Decide, AttemptInv, Places, Early, Late, Bound, loopVars, fileVars, storeVars, tryVars, siteVars, histVars
  <1> QED
    BY <1>1, <1>2, <1>3, <1>4, <1>5, <1>6, <1>7, <1>8, <1>9, <1>10, <1>11, <1>12,
       <1>13, <1>14, <1>15, <1>16, <1>17, <1>18, <1>19, <1>20, <1>21,
       SMT DEF Next, Attempt, Install, Write

\* The pairs and the containers they are bound to: kept by every step.
LEMMA PairStep ==
  ASSUME TypeInv, AttemptInv, FileInv, PairInv, Next
  PROVE  PairInv'
  <1> USE DEF PairInv, Usable, Base, AttemptInv, Places, Early, Late, Bound, fileVars, storeVars, tryVars, siteVars, histVars
  <1> USE IdFacts DEF TypeInv, FileInv
  <1>1. CASE StandAside
    BY <1>1 DEF StandAside, Finish, Rest
  <1>2. CASE EnsureEnds
    BY <1>2 DEF EnsureEnds, GoesOn, Finish, Rest
  <1>3. CASE NoKey
    <2>1. Keying
      BY <1>3, KeyStep, Zenon
    <2>2. Base' = crt /\ at' \in {"rest", "ask"} /\ at = "rest"
      BY <2>1 DEF Keying, Rest
    <2>3. windows /\ ~broken /\ held =>
            \E i \in Ids : store'[i] \in Names \ {crt} /\ cont'[store'[i]] = i
      BY <2>1, <2>2 DEF Keying
    <2>4. at' # "rest" => (windows => cont'[prev'] = new') /\ victim' \notin Names
      BY <2>1 DEF Keying, Rest
    <2>5. /\ windows' = windows /\ broken' = broken /\ held' = held /\ crt' = crt
          /\ store' = store /\ keyfile' = keyfile /\ chain' = chain /\ crt \in Names
      BY <2>1 DEF Keying
    <2>6. prev' \in Names \/ at' = "rest"
      BY <2>1 DEF Keying, Rest
    <2> HIDE DEF Base
    <2> QED BY <2>2, <2>3, <2>4, <2>5, <2>6 DEF Base
  <1>4. CASE newDeviceKey
    <2>1. Keying
      BY <1>4, KeyStep, Zenon
    <2>2. Base' = crt /\ at' \in {"rest", "ask"} /\ at = "rest"
      BY <2>1 DEF Keying, Rest
    <2>3. windows /\ ~broken /\ held =>
            \E i \in Ids : store'[i] \in Names \ {crt} /\ cont'[store'[i]] = i
      BY <2>1, <2>2 DEF Keying
    <2>4. at' # "rest" => (windows => cont'[prev'] = new') /\ victim' \notin Names
      BY <2>1 DEF Keying, Rest
    <2>5. /\ windows' = windows /\ broken' = broken /\ held' = held /\ crt' = crt
          /\ store' = store /\ keyfile' = keyfile /\ chain' = chain /\ crt \in Names
      BY <2>1 DEF Keying
    <2>6. prev' \in Names \/ at' = "rest"
      BY <2>1 DEF Keying, Rest
    <2> HIDE DEF Base
    <2> QED BY <2>2, <2>3, <2>4, <2>5, <2>6 DEF Base
  <1>5. CASE Request
    BY <1>5 DEF Request
  <1>6. CASE RequestFails
    <2>1. /\ at = "ask" /\ Rest /\ crt' = crt /\ store' = store /\ keyfile' = keyfile
          /\ chain' = chain /\ windows' = windows /\ broken' = broken /\ held' = held
          /\ cont' = cont \/ cont' = [cont EXCEPT ![prev] = None]
      BY <1>6, Zenon DEF RequestFails, discard, keyContainerName, Finish
    <2>2. \A n \in Names : n # prev => cont'[n] = cont[n]
      BY <2>1
    <2> QED BY <2>1, <2>2 DEF Rest
  <1>7. CASE buildCSRFails
    <2>1. /\ at = "ask" /\ Rest /\ crt' = crt /\ store' = store /\ keyfile' = keyfile
          /\ chain' = chain /\ windows' = windows /\ broken' = broken /\ held' = held
          /\ cont' = cont \/ cont' = [cont EXCEPT ![prev] = None]
      BY <1>7, Zenon DEF buildCSRFails, discard, keyContainerName, Finish
    <2>2. \A n \in Names : n # prev => cont'[n] = cont[n]
      BY <2>1
    <2> QED BY <2>1, <2>2 DEF Rest
  <1>8. CASE addToStore
    <2>1. Binding
      BY <1>8, BindStep, Zenon
    <2> QED BY <2>1 DEF Binding
  <1>9. CASE bindKey
    <2>1. Binding
      BY <1>9, BindStep, Zenon
    <2> QED BY <2>1 DEF Binding
  <1>10. CASE installChain
    BY <1>10 DEF installChain, To
  <1>11. CASE sweepSuperseded
    BY <1>11 DEF sweepSuperseded
  <1>12. CASE deleteCNGKey
    BY <1>12 DEF deleteCNGKey
  <1>13. CASE Swept
    BY <1>13 DEF Swept, To
  <1>14. CASE writeKey
    <2>1. Writing
      BY <1>14, WriteStep, Zenon
    <2> QED BY <2>1 DEF Writing
  <1>15. CASE writeChain
    <2>1. Writing
      BY <1>15, WriteStep, Zenon
    <2> QED BY <2>1 DEF Writing
  <1>16. CASE writeCert
    BY <1>16 DEF writeCert, To
  <1>17. CASE Saved
    BY <1>17 DEF Saved, Rest
  <1>18. CASE SaveFails
    BY <1>18 DEF SaveFails, Saving, keyContainerName, Finish, Rest
  <1>19. CASE Crash
    BY <1>19 DEF Crash, Saving, Rest
  <1>20. CASE TimePasses
    BY <1>20 DEF TimePasses
  <1>21. CASE DirectoryAppears
    BY <1>21 DEF DirectoryAppears
  <1> HIDE DEF PairInv, Usable, Base, AttemptInv, Places, Early, Late, Bound, fileVars, storeVars, tryVars, siteVars, histVars
  <1> QED
    BY <1>1, <1>2, <1>3, <1>4, <1>5, <1>6, <1>7, <1>8, <1>9, <1>10, <1>11, <1>12,
       <1>13, <1>14, <1>15, <1>16, <1>17, <1>18, <1>19, <1>20, <1>21,
       SMT DEF Next, Attempt, Install, Write

-----------------------------------------------------------------------------
(* The containers, counted.                                                *)

\* There are finitely many containers: fewer of them, or one more, are counted so.
LEMMA Counted ==
  ASSUME NEW S \in SUBSET Names, NEW T \in SUBSET Names
  PROVE  /\ Cardinality(S) \in Nat /\ Cardinality(T) \in Nat
         /\ T \subseteq S => Cardinality(T) <= Cardinality(S)
         /\ \A x : T \subseteq S \cup {x} => Cardinality(T) <= Cardinality(S) + 1
  <1>1. IsFiniteSet(Names)
    <2>1. IsFiniteSet(1..MaxIds)
      BY IdFacts, FS_Interval
    <2> QED BY <2>1, FS_AddElement DEF Names, Ids
  <1>2. IsFiniteSet(S) /\ IsFiniteSet(T)
    BY <1>1, FS_Subset
  <1>3. Cardinality(S) \in Nat /\ Cardinality(T) \in Nat
    BY <1>2, FS_CardinalityType
  <1>4. T \subseteq S => Cardinality(T) <= Cardinality(S)
    BY <1>2, FS_Subset
  <1>5. ASSUME NEW x, T \subseteq S \cup {x} PROVE Cardinality(T) <= Cardinality(S) + 1
    <2>1. /\ IsFiniteSet(S \cup {x})
          /\ Cardinality(S \cup {x}) \in {Cardinality(S), Cardinality(S) + 1}
      BY <1>2, FS_AddElement
    <2>2. Cardinality(T) <= Cardinality(S \cup {x})
      BY <1>5, <2>1, FS_Subset
    <2> QED BY <1>3, <2>1, <2>2
  <1> QED BY <1>3, <1>4, <1>5

\* The three sets are of containers.
LEMMA Containers ==
  /\ Kept \in SUBSET Names /\ Orphans \in SUBSET Kept /\ Spared \in SUBSET Kept
  /\ Kept' \in SUBSET Names /\ Orphans' \in SUBSET Kept' /\ Spared' \in SUBSET Kept'
  BY Zenon DEF Kept, Orphans, Spared

\* How the three sets of two successive states compare.
LEMMA Tally ==
  /\ Cardinality(Kept) \in Nat /\ Cardinality(Orphans) \in Nat /\ Cardinality(Spared) \in Nat
  /\ Cardinality(Kept') \in Nat /\ Cardinality(Orphans') \in Nat /\ Cardinality(Spared') \in Nat
  /\ Cardinality(Orphans') <= Cardinality(Kept')
  /\ Kept' \subseteq Kept => Cardinality(Kept') <= Cardinality(Kept)
  /\ \A n : Kept' \subseteq Kept \cup {n} => Cardinality(Kept') <= Cardinality(Kept) + 1
  /\ Kept' \subseteq Spared => Cardinality(Kept') <= Cardinality(Spared)
  /\ Orphans' \subseteq Orphans => Cardinality(Orphans') <= Cardinality(Orphans)
  /\ Orphans' \subseteq Kept => Cardinality(Orphans') <= Cardinality(Kept)
  /\ Spared' \subseteq Orphans => Cardinality(Spared') <= Cardinality(Orphans)
  /\ Spared' \subseteq Spared => Cardinality(Spared') <= Cardinality(Spared)
  /\ \A n : Spared' \subseteq Spared \cup {n} => Cardinality(Spared') <= Cardinality(Spared) + 1
  <1>1. /\ Kept \in SUBSET Names /\ Orphans \in SUBSET Names /\ Spared \in SUBSET Names
        /\ Kept' \in SUBSET Names /\ Orphans' \in SUBSET Names /\ Spared' \in SUBSET Names
        /\ Orphans' \subseteq Kept'
    BY Containers
  <1>2. /\ Cardinality(Kept) \in Nat /\ Cardinality(Kept') \in Nat
        /\ Kept' \subseteq Kept => Cardinality(Kept') <= Cardinality(Kept)
        /\ \A n : Kept' \subseteq Kept \cup {n} => Cardinality(Kept') <= Cardinality(Kept) + 1
    BY <1>1, Counted, Zenon
  <1>3. Kept' \subseteq Spared => Cardinality(Kept') <= Cardinality(Spared)
    BY <1>1, Counted, Zenon
  <1>4. /\ Cardinality(Orphans) \in Nat /\ Cardinality(Orphans') \in Nat
        /\ Orphans' \subseteq Orphans => Cardinality(Orphans') <= Cardinality(Orphans)
    BY <1>1, Counted, Zenon
  <1>5. Orphans' \subseteq Kept => Cardinality(Orphans') <= Cardinality(Kept)
    BY <1>1, Counted, Zenon
  <1>6. Cardinality(Orphans') <= Cardinality(Kept')
    BY <1>1, Counted, Zenon
  <1>7. Spared' \subseteq Orphans => Cardinality(Spared') <= Cardinality(Orphans)
    BY <1>1, Counted, Zenon
  <1>8. /\ Cardinality(Spared) \in Nat /\ Cardinality(Spared') \in Nat
        /\ Spared' \subseteq Spared => Cardinality(Spared') <= Cardinality(Spared)
        /\ \A n : Spared' \subseteq Spared \cup {n} => Cardinality(Spared') <= Cardinality(Spared) + 1
    BY <1>1, Counted, Zenon
  <1> QED BY <1>2, <1>3, <1>4, <1>5, <1>6, <1>7, <1>8, Zenon

\* How many containers there are, and how many of them the sweep leaves: kept by
\* every step.
LEMMA CountStep ==
  ASSUME TypeInv, AttemptInv, CountInv, Next
  PROVE  CountInv'
  <1>f. faults \in Nat
    BY DEF TypeInv
  <1>1. CASE StandAside
    <2>1. /\ at = "rest" /\ at' = "rest" /\ faults' = faults
          /\ crt' = crt /\ cont' = cont /\ store' = store
      BY <1>1, Zenon DEF StandAside, Finish, Rest, fileVars, storeVars, tryVars, siteVars, histVars
    <2>2. Kept' \subseteq Kept /\ Orphans' \subseteq Orphans
      BY <2>1, IdFacts DEF Kept, Orphans, Base, TypeInv, AttemptInv
    <2> QED BY <1>f, <2>1, <2>2, Tally DEF CountInv, Early, Late
  <1>2. CASE EnsureEnds
    <2>1. /\ at = "rest" /\ at' = "rest" /\ faults' = faults
          /\ crt' = crt /\ cont' = cont /\ store' = store
      BY <1>2, Zenon DEF EnsureEnds, GoesOn, Finish, Rest, fileVars, storeVars, tryVars, siteVars, histVars
    <2>2. Kept' \subseteq Kept /\ Orphans' \subseteq Orphans
      BY <2>1, IdFacts DEF Kept, Orphans, Base, TypeInv, AttemptInv
    <2> QED BY <1>f, <2>1, <2>2, Tally DEF CountInv, Early, Late
  <1>3. CASE NoKey
    <2>0. Keying
      BY <1>3, KeyStep, Zenon
    <2>1. /\ at = "rest" /\ at' \in {"rest", "ask"} /\ faults' \in {faults, faults + 1}
          /\ crt' = crt /\ Base' = crt /\ store' = store
          /\ \A n \in Names : n # crt => cont'[n] = cont[n]
      BY <2>0 DEF Keying, Rest, Base
    <2>2. Kept' \subseteq Kept /\ Orphans' \subseteq Orphans
      <3> HIDE DEF Base
      <3>1. Base = crt
        BY <2>1 DEF Base
      <3> QED BY <2>1, <3>1 DEF Kept, Orphans
    <2> QED BY <1>f, <2>1, <2>2, Tally DEF CountInv, Early, Late
  <1>4. CASE newDeviceKey
    <2>0. Keying
      BY <1>4, KeyStep, Zenon
    <2>1. /\ at = "rest" /\ at' \in {"rest", "ask"} /\ faults' \in {faults, faults + 1}
          /\ crt' = crt /\ Base' = crt /\ store' = store
          /\ \A n \in Names : n # crt => cont'[n] = cont[n]
      BY <2>0 DEF Keying, Rest, Base
    <2>2. Kept' \subseteq Kept /\ Orphans' \subseteq Orphans
      <3> HIDE DEF Base
      <3>1. Base = crt
        BY <2>1 DEF Base
      <3> QED BY <2>1, <3>1 DEF Kept, Orphans
    <2> QED BY <1>f, <2>1, <2>2, Tally DEF CountInv, Early, Late
  <1>5. CASE Request
    <2>1. /\ at = "ask" /\ at' \in {"add", "key"} /\ faults' = faults
          /\ crt' = crt /\ cont' = cont /\ store' = store /\ prev' = prev
      BY <1>5, Zenon DEF Request, fileVars, storeVars, tryVars, siteVars, histVars
    <2>2. Kept' \subseteq Kept /\ Orphans' \subseteq Orphans
      BY <2>1, IdFacts DEF Kept, Orphans, Base, TypeInv, AttemptInv
    <2> QED BY <1>f, <2>1, <2>2, Tally DEF CountInv, Early, Late
  <1>6. CASE RequestFails
    <2>1. /\ at = "ask" /\ at' = "rest" /\ faults' \in {faults, faults + 1}
          /\ crt' = crt /\ store' = store
          /\ cont' = cont \/ cont' = [cont EXCEPT ![prev] = None]
      BY <1>6, Zenon DEF RequestFails, discard, keyContainerName, Finish, Rest, fileVars
    <2>2. /\ crt = prev
          /\ \A n \in Names : n # prev => cont'[n] = cont[n]
      BY <2>1 DEF TypeInv, AttemptInv
    <2>3. Kept' \subseteq Kept /\ Orphans' \subseteq Orphans
      BY <2>1, <2>2 DEF Kept, Orphans, Base
    <2> QED BY <1>f, <2>1, <2>3, Tally DEF CountInv, Early, Late
  <1>7. CASE buildCSRFails
    <2>1. /\ at = "ask" /\ at' = "rest" /\ faults' \in {faults, faults + 1}
          /\ crt' = crt /\ store' = store
          /\ cont' = cont \/ cont' = [cont EXCEPT ![prev] = None]
      BY <1>7, Zenon DEF buildCSRFails, discard, keyContainerName, Finish, Rest, fileVars
    <2>2. /\ crt = prev
          /\ \A n \in Names : n # prev => cont'[n] = cont[n]
      BY <2>1 DEF TypeInv, AttemptInv
    <2>3. Kept' \subseteq Kept /\ Orphans' \subseteq Orphans
      BY <2>1, <2>2 DEF Kept, Orphans, Base
    <2> QED BY <1>f, <2>1, <2>3, Tally DEF CountInv, Early, Late
  <1>8. CASE addToStore
    <2>1. Binding
      BY <1>8, BindStep, Zenon
    <2>2. /\ at \in {"add", "bind"} /\ at' \in {"bind", "trust"} /\ faults' = faults
          /\ cont' = cont /\ prev' = prev /\ new' = new /\ store[new] \notin Names
          /\ \A i \in Ids : i # new => store'[i] = store[i]
      BY <2>1, IdFacts DEF Binding, AttemptInv
    <2>3. Kept' \subseteq Kept /\ Orphans' \subseteq Orphans
      BY <2>2 DEF Kept, Orphans, Base
    <2> QED BY <1>f, <2>2, <2>3, Tally DEF CountInv, Early, Late
  <1>9. CASE bindKey
    <2>1. Binding
      BY <1>9, BindStep, Zenon
    <2>2. /\ at \in {"add", "bind"} /\ at' \in {"bind", "trust"} /\ faults' = faults
          /\ cont' = cont /\ prev' = prev /\ new' = new /\ store[new] \notin Names
          /\ \A i \in Ids : i # new => store'[i] = store[i]
      BY <2>1, IdFacts DEF Binding, AttemptInv
    <2>3. Kept' \subseteq Kept /\ Orphans' \subseteq Orphans
      BY <2>2 DEF Kept, Orphans, Base
    <2> QED BY <1>f, <2>2, <2>3, Tally DEF CountInv, Early, Late
  <1>10. CASE installChain
    <2>1. /\ at = "trust" /\ at' = "sweep" /\ faults' = faults
          /\ cont' = cont /\ prev' = prev /\ store' = store
          /\ doomed' = {i \in Ids \ {new} : store[i] # Absent}
      BY <1>10, Zenon DEF installChain, To, storeVars
    <2>2. store[new] = prev
      BY <2>1 DEF AttemptInv, Bound
    <2>3. Kept' \subseteq Kept /\ Spared' \subseteq Orphans
      BY <2>1, <2>2, IdFacts DEF Kept, Orphans, Spared, Base
    <2> QED BY <1>f, <2>1, <2>3, Tally DEF CountInv, Early, Late
  <1>11. CASE sweepSuperseded
    <2>1. /\ at = "sweep" /\ at' = "sweep" /\ faults' \in {faults, faults + 1}
          /\ cont' = cont /\ prev' = prev /\ victim = Absent
      BY <1>11, Zenon DEF sweepSuperseded
    <2>2. PICK i \in doomed :
            /\ doomed' = doomed \ {i} /\ victim' = store[i]
            /\ store' = store \/ store' = [store EXCEPT ![i] = Absent]
      BY <1>11, Zenon DEF sweepSuperseded
    <2>3. \A k \in doomed' : store'[k] = store[k]
      BY <2>2 DEF TypeInv
    <2>4. Kept' \subseteq Kept /\ Spared' \subseteq Spared
      BY <2>1, <2>2, <2>3, IdFacts DEF Kept, Spared, Base
    <2> QED BY <1>f, <2>1, <2>4, Tally DEF CountInv, Early, Late
  <1>12. CASE deleteCNGKey
    <2>1. /\ at = "sweep" /\ at' = "sweep" /\ prev' = prev /\ store' = store
          /\ doomed' = doomed
          /\ \/ /\ cont' = [n \in Names |-> IF n = victim THEN None ELSE cont[n]]
                /\ faults' = faults
             \/ faults' = faults + 1 /\ cont' = cont
      BY <1>12, Zenon DEF deleteCNGKey
    <2>2. Kept' \subseteq Kept
      BY <2>1 DEF Kept, Base
    <2>3. Spared' \subseteq Spared \cup {victim}
      BY <2>1, <2>2 DEF Spared
    <2>4. faults' = faults => Spared' \subseteq Spared
      <3>1. ASSUME faults' = faults PROVE \A n \in Kept' : n # victim
        BY <1>f, <2>1, <3>1 DEF Kept
      <3> QED BY <2>1, <2>2, <3>1 DEF Spared
    <2>5. faults' = faults \/ faults' = faults + 1
      BY <2>1
    <2> QED BY <1>f, <2>1, <2>2, <2>3, <2>4, <2>5, Tally DEF CountInv, Early, Late
  <1>13. CASE Swept
    <2>1. /\ at = "sweep" /\ at' = "chain" /\ prev' = prev /\ cont' = cont
          /\ doomed = {} /\ victim = Absent /\ faults' = faults
      BY <1>13, Zenon DEF Swept, To, storeVars
    <2>2. Kept' \subseteq Spared
      BY <2>1, IdFacts DEF Kept, Spared, Base
    <2> QED BY <1>f, <2>1, <2>2, Tally DEF CountInv, Early, Late
  <1>14. CASE writeKey
    <2>0. Writing
      BY <1>14, WriteStep, Zenon
    <2>1. /\ at' \in Late \cup {"keyfill"} /\ at \in Late \cup {"key", "keyfill"}
          /\ prev' = prev /\ cont' = cont /\ faults' = faults
      BY <2>0 DEF Writing, Late
    <2>2. Kept' \subseteq Kept
      BY <2>1 DEF Kept, Base, Late
    <2>3. at \notin Late => Kept' = {} /\ Cardinality({}) = 0
      BY <2>1, FS_EmptySet DEF AttemptInv, Kept
    <2> QED BY <1>f, <2>1, <2>2, <2>3, Tally DEF CountInv, Early, Late
  <1>15. CASE writeChain
    <2>0. Writing
      BY <1>15, WriteStep, Zenon
    <2>1. /\ at' \in Late \cup {"keyfill"} /\ at \in Late \cup {"key", "keyfill"}
          /\ prev' = prev /\ cont' = cont /\ faults' = faults
      BY <2>0 DEF Writing, Late
    <2>2. Kept' \subseteq Kept
      BY <2>1 DEF Kept, Base, Late
    <2>3. at \notin Late => Kept' = {} /\ Cardinality({}) = 0
      BY <2>1, FS_EmptySet DEF AttemptInv, Kept
    <2> QED BY <1>f, <2>1, <2>2, <2>3, Tally DEF CountInv, Early, Late
  <1>16. CASE writeCert
    <2>1. /\ at = "crt" /\ at' = "crtfill" /\ prev' = prev /\ cont' = cont /\ faults' = faults
      BY <1>16, Zenon DEF writeCert, To, storeVars
    <2>2. Kept' \subseteq Kept
      BY <2>1 DEF Kept, Base
    <2> QED BY <1>f, <2>1, <2>2, Tally DEF CountInv, Early, Late
  <1>17. CASE Saved
    <2>1. /\ at = "crtfill" /\ at' = "rest" /\ cont' = cont /\ store' = store
          /\ faults' = faults
      BY <1>17, Zenon DEF Saved, Rest, storeVars
    <2>2. /\ new \in Ids
          /\ windows => store[new] = prev
          /\ ~windows => \A n \in Names : cont[n] = None
      BY <2>1 DEF AttemptInv, Bound, Late
    <2>3. Kept' \subseteq Kept \cup {prev}
      BY <2>1 DEF Kept, Base
    <2>4. prev \notin Orphans'
      BY <2>1, <2>2 DEF Kept, Orphans
    <2>5. Orphans' \subseteq Kept
      BY <2>3, <2>4 DEF Orphans
    <2> QED BY <1>f, <2>1, <2>3, <2>5, Tally DEF CountInv, Early, Late
  <1>18. CASE SaveFails
    <2>1. /\ at # "rest" /\ at' = "rest" /\ crt' = crt /\ faults' = faults + 1
          /\ cont' = IF windows THEN [cont EXCEPT ![prev] = None] ELSE cont
      BY <1>18, Zenon DEF SaveFails, Saving, Finish, Rest, keyContainerName, fileVars
    <2>2. Kept' \subseteq Kept
      BY <2>1 DEF Kept, Base, TypeInv, AttemptInv
    <2> QED BY <1>f, <2>1, <2>2, Tally DEF CountInv, Early, Late
  <1>19. CASE Crash
    <2>1. /\ at # "rest" /\ at' = "rest" /\ crt' = crt /\ cont' = cont
          /\ faults' = faults + 1
      BY <1>19, Zenon DEF Crash, Rest, fileVars, storeVars
    <2>2. CASE at = "crtfill"
      <3>1. Kept' \subseteq Kept \cup {prev}
        BY <2>1 DEF Kept, Base
      <3> QED BY <1>f, <2>1, <2>2, <3>1, Tally DEF CountInv, Early, Late
    <2>3. CASE at # "crtfill"
      <3>1. Kept' \subseteq Kept
        BY <2>1, <2>3 DEF Kept, Base, AttemptInv
      <3> QED BY <1>f, <2>1, <3>1, Tally DEF CountInv, Early, Late
    <2> QED BY <2>2, <2>3
  <1>20. CASE TimePasses
    <2>1. /\ at = "rest" /\ at' = "rest" /\ faults' = faults
          /\ crt' = crt /\ cont' = cont /\ store' = store
      BY <1>20, Zenon DEF TimePasses, fileVars, storeVars, tryVars, siteVars, histVars
    <2>2. Kept' \subseteq Kept /\ Orphans' \subseteq Orphans
      BY <2>1, IdFacts DEF Kept, Orphans, Base, TypeInv, AttemptInv
    <2> QED BY <1>f, <2>1, <2>2, Tally DEF CountInv, Early, Late
  <1>21. CASE DirectoryAppears
    <2>1. /\ at = "rest" /\ at' = "rest" /\ faults' = faults
          /\ crt' = crt /\ cont' = cont /\ store' = store
      BY <1>21, Zenon DEF DirectoryAppears, fileVars, storeVars, tryVars, siteVars, histVars
    <2>2. Kept' \subseteq Kept /\ Orphans' \subseteq Orphans
      BY <2>1, IdFacts DEF Kept, Orphans, Base, TypeInv, AttemptInv
    <2> QED BY <1>f, <2>1, <2>2, Tally DEF CountInv, Early, Late
  <1> QED
    BY <1>1, <1>2, <1>3, <1>4, <1>5, <1>6, <1>7, <1>8, <1>9, <1>10, <1>11, <1>12,
       <1>13, <1>14, <1>15, <1>16, <1>17, <1>18, <1>19, <1>20, <1>21,
       SMT DEF Next, Attempt, Install, Write

-----------------------------------------------------------------------------
(* The results.                                                            *)

\* A device that never asked for a certificate, or one of the earlier build: no
\* container and no certificate in the store.
LEMMA InitNet ==
  ASSUME Init
  PROVE  NetInv
  <1> USE IdFacts DEF Init
  <1>1. TypeInv
    BY DEF TypeInv, Places, Bindings
  <1>2. AttemptInv /\ FileInv /\ AsideInv
    BY DEF AttemptInv, FileInv, AsideInv, StandsAsideOnlyBefore, Late, Bound
  <1>3. PairInv
    BY DEF PairInv, Base
  <1>4. CountInv
    <2>1. Kept = {} /\ Orphans = {} /\ faults = 0 /\ at = "rest"
      BY DEF Kept, Orphans
    <2> QED BY <2>1, FS_EmptySet DEF CountInv, Late
  <1> QED BY <1>1, <1>2, <1>3, <1>4, Zenon DEF NetInv

\* The invariant of the network certificate holds in every state.
LEMMA NetInvHolds == Spec => []NetInv
  <1>1. Init => NetInv
    BY InitNet
  <1>2. NetInv /\ [Next]_vars => NetInv'
    <2> SUFFICES ASSUME NetInv, [Next]_vars PROVE NetInv'
      OBVIOUS
    <2>0. TypeInv /\ AttemptInv /\ PairInv /\ FileInv /\ AsideInv /\ CountInv
      BY Zenon DEF NetInv
    <2>1. CASE Next
      <3>1. TypeInv' /\ AttemptInv' /\ FileInv'
        BY <2>0, <2>1, TypeStep, AttemptStep, FileStep, Zenon
      <3>2. PairInv' /\ AsideInv' /\ CountInv'
        BY <2>0, <2>1, PairStep, AsideStep, CountStep, Zenon
      <3> QED BY <3>1, <3>2, Zenon DEF NetInv
    <2>2. CASE UNCHANGED vars
      <3> USE <2>2 DEF vars, fileVars, storeVars, tryVars, siteVars, loopVars, histVars
      <3>1. TypeInv'
        BY <2>0, Zenon DEF TypeInv
      <3>2. AttemptInv'
        BY <2>0, Zenon DEF AttemptInv
      <3>3. PairInv'
        BY <2>0, Zenon DEF PairInv, Base, Usable
      <3>4. FileInv'
        BY <2>0, Zenon DEF FileInv
      <3>5. AsideInv'
        BY <2>0, Zenon DEF AsideInv, ProvidedByUs, StandsAsideOnlyBefore
      <3>6. CountInv'
        BY <2>0, Zenon DEF CountInv, Kept, Orphans, Spared, Base
      <3> QED BY <3>1, <3>2, <3>3, <3>4, <3>5, <3>6, Zenon DEF NetInv
    <2> QED BY <2>1, <2>2
  <1> QED BY <1>1, <1>2, PTL DEF Spec

\* A device that was given a certificate keeps one together with its key, unless a
\* save was cut short and none has made it good since: ensure and save
\* (request.go), the store and the containers (certstore_windows.go, cng_windows.go).
THEOREM PairHolds == Spec => []PairUnlessCutShort
  <1>1. NetInv => PairUnlessCutShort
    <2> SUFFICES ASSUME NetInv, held, ~broken, windows \/ ~Saving PROVE Usable
      BY DEF PairUnlessCutShort
    <2>1. TypeInv /\ AttemptInv /\ PairInv
      BY Zenon DEF NetInv
    <2>2. CASE ~windows
      BY <2>1, <2>2 DEF PairInv, Saving
    <2>3. CASE windows /\ at \in {"rest"} \cup Early
      BY <2>1, <2>3 DEF PairInv, Usable
    <2>4. CASE windows /\ at \in Bound
      BY <2>1, <2>4, IdFacts DEF PairInv, AttemptInv, TypeInv, Usable, Bound, Late
    <2>5. windows => at \in {"rest"} \cup Early \cup Bound
      BY <2>1 DEF TypeInv, AttemptInv, Places
    <2> QED BY <2>2, <2>3, <2>4, <2>5
  <1> QED BY <1>1, NetInvHolds, PTL

\* Renewals do not fill the machine's key store: two containers, and one more for
\* each fault (newDeviceKey, discard, sweepSuperseded, deleteCNGKey).
THEOREM ContainersHold == Spec => []ContainersBounded
  <1>1. NetInv => ContainersBounded
    <2> SUFFICES ASSUME NetInv PROVE ContainersBounded
      OBVIOUS
    <2> DEFINE Full == {n \in Names : cont[n] # None}
    <2>1. faults \in Nat /\ Cardinality(Kept) <= 1 + faults
      BY DEF NetInv, TypeInv, CountInv
    <2>2. /\ Kept \in SUBSET Names /\ Full \in SUBSET Names
          /\ Full \subseteq Kept \cup {Base}
      BY DEF Kept
    <2> HIDE DEF Full
    <2>3. /\ Cardinality(Kept) \in Nat /\ Cardinality(Full) \in Nat
          /\ Cardinality(Full) <= Cardinality(Kept) + 1
      BY <2>2, Counted, Zenon
    <2>4. Cardinality(Full) <= 2 + faults
      BY <2>1, <2>3
    <2> QED BY <2>4 DEF Full, ContainersBounded
  <1> QED BY <1>1, NetInvHolds, PTL

\* In the mode that looks for a directory, the agent stands aside only where it never
\* bound a certificate (Decide in winident/defer.go).
THEOREM AsideHolds == Spec => []StandsAsideOnlyBefore
  <1>1. NetInv => StandsAsideOnlyBefore
    BY Zenon DEF NetInv, AsideInv
  <1> QED BY <1>1, NetInvHolds, PTL
=============================================================================
