------------------------------ MODULE NetCert ------------------------------
(***************************************************************************)
(* The 802.1X certificate of a device: the loop that keeps it current, the *)
(* key and certificate on disk on Unix, and on Windows the machine store,  *)
(* the key containers a stored certificate is bound to, and the decision   *)
(* to stand aside for a directory.                                         *)
(*                                                                         *)
(* An attempt makes a key with a new id; the certificate the server issues *)
(* for it has the same id for its serial.  Ids that nothing refers to are  *)
(* used again.  Time is the phase the certificate on disk is in.           *)
(***************************************************************************)
EXTENDS Integers, FiniteSets

CONSTANTS
  MaxIds,     \* bound: serials and keys that exist at the same time
  MaxFaults   \* bound: crashes, failed writes and failed deletions

ASSUME NetCertBoundsAssumption == MaxIds \in Nat \ {0} /\ MaxFaults \in Nat

Ids == 1..MaxIds
None == 0        \* no file, no key, the predecessor of a first issuance
Torn == -1       \* a file that was truncated and not filled again
Unbound == -2    \* in the store without a key container
Absent == -3     \* not in the store
Names == {None} \cup Ids   \* a container is named after the serial it replaces

Phases == {"early", "fresh", "spread", "due", "urgent", "expired"}
Modes == {"auto", "always", "never"}

VARIABLES
  windows,   \* the platform
  keyfile, crt, chain,   \* network.key, network.crt and the chain file
  store,     \* LocalMachine\My: what each certificate is bound to
  cont,      \* the key in each container
  at,        \* where the attempt is; "rest" between attempts
  new, prev, \* its key, and the serial it replaces
  doomed, victim,  \* certificates to sweep, and the container in hand
  had,       \* history: the pair was there when the attempt began
  phase,     \* of the certificate on disk
  mode, directory, \* the configured mode; something else provisions
  aside,     \* the last attempt stood aside
  report,    \* what the heartbeat says the device holds
  pace,      \* until the next attempt: every or urgent
  warned,    \* the user was warned within a day
  held,      \* history: a certificate was once saved
  provided,  \* history: a certificate was once bound in the store
  broken,    \* history: a save was cut short and not made good
  faults

fileVars == <<keyfile, crt, chain>>
storeVars == <<store, cont>>
tryVars == <<new, prev, doomed, victim, had>>
siteVars == <<windows, mode, directory>>
loopVars == <<aside, report, pace, warned>>
histVars == <<held, provided, broken>>
vars == <<fileVars, storeVars, at, tryVars, phase, siteVars, loopVars,
          histVars, faults>>

\* Nothing yet, or a Windows device of the build that kept its key in a file.
Init ==
  /\ windows \in BOOLEAN /\ mode \in Modes /\ directory = FALSE
  /\ keyfile \in (IF windows THEN {None, 1} ELSE {None}) /\ crt = keyfile
  /\ chain = IF crt = None THEN "none" ELSE "ok"
  /\ store = [i \in Ids |-> Absent] /\ cont = [n \in Names |-> None]
  /\ at = "rest" /\ new = None /\ prev = None /\ doomed = {} /\ victim = Absent
  /\ had = FALSE
  /\ phase = "expired" /\ aside = FALSE /\ report = None /\ pace = "every"
  /\ warned = FALSE /\ held = FALSE /\ provided = FALSE /\ broken = FALSE
  /\ faults = 0

-----------------------------------------------------------------------------
(* What the device holds.                                                  *)

\* A certificate and the key it certifies, where the supplicant looks.
Usable ==
  IF windows THEN \E i \in Ids : store[i] \in Names /\ cont[store[i]] = i
  ELSE crt \in Ids /\ keyfile = crt /\ chain = "ok"

\* The bug of a device without a certificate that has nothing to renew.
DueOnlyWithOne == crt # None /\ phase # "fresh"

\* Between RenewAt and this device's own offset a certificate is already due
\* for ensure, and still fresh for the loop.
DueForRenewal == crt = None \/ phase # "fresh"
PhaseAt(m) ==
  IF m = None THEN "expired"
  ELSE CASE phase = "spread" -> "fresh" [] phase = "early" -> "due"
         [] OTHER -> phase

\* Load fails on a file it cannot parse, which is not "no certificate".
LoadFails == crt = Torn

ProvidedByUs == \E i \in Ids : store[i] \in Names
ProvidedByDirectory == directory

\* The bug the comment on Decide names: detection stops a machine we serve.
DecideDirectoryFirst ==
  mode = "never" \/ (mode # "always" /\ ProvidedByDirectory)

Decide ==
  \/ mode = "never"
  \/ ~ProvidedByUs /\ mode # "always" /\ ProvidedByDirectory

Used ==
  {keyfile, crt, new, prev} \cup {i \in Ids : store[i] # Absent}
  \cup {store[i] : i \in Ids}
  \cup {n \in Names : cont[n] # None} \cup {cont[n] : n \in Names}
Fresh == {i \in Ids \ Used : \A j \in Ids \ Used : i <= j}

keyContainerName(predecessor) == predecessor

\* The key is persisted in its container before anything is signed with it, and
\* takes the place of what the container held.
createCNGKey(i) == cont' = [cont EXCEPT ![keyContainerName(crt)] = i]

\* What the heartbeat will say.
CertReport_Set(m) == report' = m

-----------------------------------------------------------------------------
(* The loop.                                                               *)

\* The user hears of it once a day, also across restarts.
warnUser(m, result) ==
  warned' = (warned \/ (result = "error" /\ PhaseAt(m) \in {"urgent", "expired"}))

\* The attempt's own state is gone.
Rest ==
  /\ at' = "rest" /\ new' = None /\ prev' = None
  /\ doomed' = {} /\ victim' = Absent /\ had' = FALSE

\* An attempt is over: what it returned is published, judged, and sets the
\* pace.  Nothing is urgent where the server issues nothing.
Finish(m, result) ==
  /\ Rest
  /\ CertReport_Set(m)
  /\ warnUser(m, result)
  /\ pace' = IF result # "unconfigured" /\ PhaseAt(m) \in {"urgent", "expired"}
             THEN "urgent" ELSE "every"

\* Time passes between attempts, a day at a time.
Later ==
  [early |-> "fresh", fresh |-> "spread", spread |-> "due", due |-> "urgent",
   urgent |-> "expired", expired |-> "expired"]
TimePasses ==
  /\ at = "rest" /\ crt # None
  /\ phase' = Later[phase] /\ warned' = FALSE
  /\ UNCHANGED <<fileVars, storeVars, at, tryVars, siteVars, aside, report,
                 pace, histVars, faults>>

\* A domain join or a Group Policy profile.
DirectoryAppears ==
  /\ windows /\ ~directory /\ at = "rest"
  /\ directory' = TRUE
  /\ UNCHANGED <<fileVars, storeVars, at, tryVars, phase, windows, mode,
                 loopVars, histVars, faults>>

\* Standing aside looks to the loop like a server that issues nothing.
StandAside ==
  /\ at = "rest" /\ Decide
  /\ Finish(None, "unconfigured") /\ aside' = TRUE
  /\ UNCHANGED <<fileVars, storeVars, phase, siteVars, histVars, faults>>

\* The attempt goes on when nothing says to stand aside, and on Windows also
\* when the detection failed: then Decide is not asked at all.
GoesOn == at = "rest" /\ (~Decide \/ windows) /\ aside' = FALSE

\* The attempt ends before a key is made.
EnsureEnds ==
  /\ GoesOn
  /\ \/ LoadFails /\ Finish(None, "error")
     \/ ~LoadFails /\ ~DueForRenewal /\ Finish(crt, "ok")
  /\ UNCHANGED <<fileVars, storeVars, phase, siteVars, histVars, faults>>

\* Making the key fails, on Windows perhaps after it was persisted.
NoKey ==
  /\ GoesOn /\ ~LoadFails /\ DueForRenewal /\ faults < MaxFaults
  /\ faults' = faults + 1
  /\ \/ cont' = cont
     \/ windows /\ \E i \in Fresh : createCNGKey(i)
  /\ Finish(None, "error")
  /\ UNCHANGED <<fileVars, store, phase, siteVars, histVars>>

\* The bug the key stays in memory against: it replaces the one in use.
newDeviceKeyOnDisk ==
  /\ GoesOn /\ ~LoadFails /\ DueForRenewal
  /\ \E i \in Fresh :
       /\ new' = i /\ prev' = crt
       /\ IF windows THEN createCNGKey(i) ELSE cont' = cont
       /\ keyfile' = IF windows THEN keyfile ELSE i
  /\ at' = "ask" /\ had' = Usable
  /\ UNCHANGED <<crt, chain, store, doomed, victim, phase, siteVars, report,
                 pace, warned, held, provided, broken, faults>>

\* The key of the attempt: in memory on Unix, on Windows in a container that
\* is overwritten if it is there.
newDeviceKey ==
  /\ GoesOn /\ ~LoadFails /\ DueForRenewal
  /\ \E i \in Fresh :
       /\ new' = i /\ prev' = crt
       /\ IF windows THEN createCNGKey(i) ELSE cont' = cont
  /\ at' = "ask" /\ had' = Usable
  /\ UNCHANGED <<fileVars, store, doomed, victim, phase, siteVars, report, pace,
                 warned, held, provided, broken, faults>>

\* The key that was not used is removed, on Windows; that may fail unnoticed.
discard ==
  \/ /\ cont' = IF windows THEN [cont EXCEPT ![keyContainerName(prev)] = None]
                ELSE cont
     /\ faults' = faults
  \/ windows /\ faults < MaxFaults /\ faults' = faults + 1 /\ cont' = cont

\* The request cannot be built or signed: nothing is returned.
buildCSRFails ==
  /\ at = "ask"
  /\ discard
  /\ Finish(None, "error")
  /\ UNCHANGED <<fileVars, store, phase, siteVars, aside, histVars>>

\* Unreachable, refused, incomplete, or no CA: the device keeps what it had.
RequestFails ==
  /\ at = "ask"
  /\ discard
  /\ \E result \in {"error", "unconfigured"} : Finish(prev, result)
  /\ UNCHANGED <<fileVars, store, phase, siteVars, aside, histVars>>

Request ==
  /\ at = "ask"
  /\ at' = IF windows THEN "add" ELSE "key"
  /\ UNCHANGED <<fileVars, storeVars, tryVars, phase, siteVars, loopVars,
                 histVars, faults>>

-----------------------------------------------------------------------------
(* save.  A file is truncated, then filled.                                *)

To(from, next) ==
  /\ at = from /\ at' = next
  /\ UNCHANGED <<new, prev, had, phase, siteVars, loopVars, faults>>

writeKey ==
  \/ /\ To("key", "keyfill") /\ keyfile' = Torn
     /\ UNCHANGED <<crt, chain, storeVars, doomed, victim, histVars>>
  \/ /\ To("keyfill", "chain") /\ keyfile' = new
     /\ UNCHANGED <<crt, chain, storeVars, doomed, victim, histVars>>

writeChain ==
  \/ /\ To("chain", "chainfill") /\ chain' = "torn"
     /\ UNCHANGED <<keyfile, crt, storeVars, doomed, victim, histVars>>
  \/ /\ To("chainfill", "crt") /\ chain' = "ok"
     /\ UNCHANGED <<keyfile, crt, storeVars, doomed, victim, histVars>>

writeCert ==
  /\ To("crt", "crtfill") /\ crt' = Torn
  /\ UNCHANGED <<keyfile, chain, storeVars, doomed, victim, histVars>>

\* The last write, and the end of the attempt.  The server's clock may be
\* ahead of the device's.  A key file of the earlier build is removed.
Saved ==
  /\ at = "crtfill"
  /\ crt' = new /\ keyfile' = IF windows THEN None ELSE keyfile
  /\ phase' \in {"fresh", "early"}
  /\ Rest
  /\ CertReport_Set(new) /\ pace' = "every"
  /\ held' = TRUE
  /\ UNCHANGED <<chain, storeVars, siteVars, aside, warned, provided, faults>>
  /\ broken' = (broken /\ ~Usable')

addToStore ==
  /\ To("add", "bind")
  /\ store' = [store EXCEPT ![new] = Unbound]
  /\ UNCHANGED <<fileVars, cont, doomed, victim, histVars>>

bindKey ==
  /\ To("bind", "trust")
  /\ store' = [store EXCEPT ![new] = keyContainerName(prev)]
  /\ provided' = TRUE
  /\ UNCHANGED <<fileVars, cont, doomed, victim, held, broken>>

\* The issuing certificates are added, and the sweep collects its victims.
installChain ==
  /\ To("trust", "sweep")
  /\ doomed' = {i \in Ids \ {new} : store[i] # Absent}
  /\ UNCHANGED <<fileVars, storeVars, victim, histVars>>

\* Each superseded certificate goes first, then the container it was bound to.
\* Either deletion may fail, which nobody notices.
sweepSuperseded ==
  /\ at = "sweep" /\ doomed # {} /\ victim = Absent
  /\ \E i \in doomed :
       /\ doomed' = doomed \ {i} /\ victim' = store[i]
       /\ \/ store' = [store EXCEPT ![i] = Absent] /\ faults' = faults
          \/ faults < MaxFaults /\ faults' = faults + 1 /\ store' = store
  /\ UNCHANGED <<fileVars, cont, at, new, prev, had, phase, siteVars, loopVars,
                 histVars>>

\* The bug of a sweep that leaves the keys behind.
deleteNothing ==
  /\ at = "sweep" /\ victim # Absent
  /\ victim' = Absent
  /\ UNCHANGED <<fileVars, storeVars, at, new, prev, had, doomed, phase,
                 siteVars, loopVars, histVars, faults>>

deleteCNGKey ==
  /\ at = "sweep" /\ victim # Absent
  /\ victim' = Absent
  /\ \/ /\ cont' = [n \in Names |-> IF n = victim THEN None ELSE cont[n]]
        /\ faults' = faults
     \/ faults < MaxFaults /\ faults' = faults + 1 /\ cont' = cont
  /\ UNCHANGED <<fileVars, store, at, new, prev, had, doomed, phase,
                 siteVars, loopVars, histVars>>

Swept ==
  /\ To("sweep", "chain") /\ doomed = {} /\ victim = Absent
  /\ UNCHANGED <<fileVars, storeVars, doomed, victim, histVars>>

Saving == at \notin {"rest", "ask"}

\* A step of save fails: the attempt's key is discarded and nothing returned,
\* although the device may hold its old certificate, or already the new one.
SaveFails ==
  /\ Saving /\ at # "sweep" /\ faults < MaxFaults
  /\ faults' = faults + 1
  /\ cont' = IF windows THEN [cont EXCEPT ![keyContainerName(prev)] = None]
             ELSE cont
  /\ broken' = TRUE
  /\ Finish(None, "error")
  /\ UNCHANGED <<fileVars, store, phase, siteVars, aside, held, provided>>

\* The process ends in the middle, and its loop starts again with an attempt.
Crash ==
  /\ at # "rest" /\ faults < MaxFaults
  /\ faults' = faults + 1
  /\ Rest
  /\ report' = None /\ pace' = "every" /\ aside' = FALSE
  /\ broken' = (broken \/ Saving)
  /\ UNCHANGED <<fileVars, storeVars, phase, siteVars, warned, held, provided>>

Install ==
  \/ addToStore \/ bindKey \/ installChain \/ sweepSuperseded \/ deleteCNGKey
  \/ Swept
Write == writeKey \/ writeChain \/ writeCert \/ Saved
Attempt == StandAside \/ EnsureEnds \/ NoKey \/ newDeviceKey
Next ==
  \/ Attempt \/ Request \/ RequestFails \/ buildCSRFails \/ Install \/ Write \/ SaveFails
  \/ Crash \/ TimePasses \/ DirectoryAppears

Spec == Init /\ [][Next]_vars

\* The loop's timer fires and its steps run, time passes, and a server that is
\* asked for ever answers at last.
Fairness ==
  /\ WF_vars(EnsureEnds \/ newDeviceKey) /\ WF_vars(Install \/ Write)
  /\ WF_vars(TimePasses) /\ SF_vars(Request)

LiveSpec == Spec /\ Fairness

-----------------------------------------------------------------------------
\* A device that was given a certificate keeps a certificate and the key it is
\* for, through failed requests, failed keys, renewals and sweeps: only a save
\* cut short can take them away, and then until a save makes it good.  On
\* Windows not even the save itself leaves a moment without a pair.
PairUnlessCutShort == held /\ ~broken /\ (windows \/ ~Saving) => Usable

\* Renewals, failed or not, do not fill the machine's key store: one container
\* is in use and one is being tried, and each fault leaves at most one more.
ContainersBounded ==
  Cardinality({n \in Names : cont[n] # None}) <= 2 + faults

\* "Detection may never stop us": in the mode that looks for a directory, the
\* agent stands aside only where it never bound a certificate.
StandsAsideOnlyBefore == aside /\ mode # "never" => ~provided

\* However its saves were cut short, the device gets a pair again, unless it
\* stands aside or the certificate file is one that Load cannot parse.
Recovers == ~Usable ~> (Usable \/ crt = Torn \/ Decide)

\* "Renewal must never be able to leave the device worse than not renewing at
\* all" (request.go): a pair that was there when an attempt began is there, or
\* its successor is, when the attempt is over.
NeverWorse == [][had /\ at' = "rest" => Usable']_vars
=============================================================================
