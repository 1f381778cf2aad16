------------------------------ MODULE NodeFiles ------------------------------
(***************************************************************************)
(* What a node keeps on disk to be able to start: its key, certificate and *)
(* CA bundle (internal/enroll) and its own binary (internal/update).  The  *)
(* process may crash between any two steps; the renewer and an update run  *)
(* beside each other, and a successful update ends the process by itself.  *)
(* The machine does not lose power: nothing here is synced to the disk, so *)
(* that a file written or renamed just before a power failure may be lost. *)
(*                                                                         *)
(* A key or certificate is named by the issuance it belongs to, a binary   *)
(* by its version; 0 is a file that is not there.  The control endpoint    *)
(* and the media keys are left out: loadIdentity does without them.        *)
(***************************************************************************)
EXTENDS Naturals, FiniteSets

CONSTANTS
  MaxIssued,  \* bound: certificates that the Server issues
  MaxVersion, \* bound: versions of the binary
  MaxFaults   \* bound: crashes, failing writes and failing calls

ASSUME FilesBoundAssumption == MaxIssued \in Nat /\ MaxVersion \in Nat \ {0} /\ MaxFaults \in Nat

VARIABLES
  disk,     \* the issuance of each identity file
  torn,     \* identity files that are there but not completely written
  bin,      \* the binary, the download beside it and the backup
  spent,    \* the enrollment token has been used (the Server's side)
  certs,    \* certificates issued so far
  proc,     \* down, enroll, write, load, up
  todo,     \* doEnroll: the files still to be written
  live,     \* the issuance held by CertSource
  due,      \* RenewalDue of that certificate
  renew,    \* the renewer: idle, key, cert, ca, set
  update,   \* Apply: idle, download, remove, backup, swap
  version,  \* of the running process
  target,   \* the version that the order's SHA-256 vouches for, 0 without one
  inFlight,
  exiting,  \* the goroutine that ends the process is waiting
  idWindow, \* the identity files are being replaced, or the replacement failed
  binWindow,\* the same for the binary
  faults

idVars == <<disk, torn, spent, certs, todo, idWindow>>
binVars == <<bin, update, target, inFlight, exiting, binWindow>>
procVars == <<proc, version, live, due>>
filesVars == <<idVars, binVars, procVars, renew, faults>>

Files == {"key", "cert", "ca"}
Versions == 1..MaxVersion
Partial == MaxVersion + 1

Fault == faults < MaxFaults /\ faults' = faults + 1
Exists(f) == disk[f] # 0 \/ f \in torn

FilesInit ==
  /\ disk = [f \in Files |-> 0] /\ torn = {} /\ spent = FALSE /\ certs = 0
  /\ bin = [exe |-> 1, new |-> 0, bak |-> 0]
  /\ proc = "down" /\ todo = {} /\ live = 0 /\ due = FALSE
  /\ renew = "idle" /\ update = "idle" /\ target = 0 /\ version = 0 /\ inFlight = FALSE /\ exiting = FALSE
  /\ idWindow = FALSE /\ binWindow = FALSE /\ faults = 0

-----------------------------------------------------------------------------
(* Starting and enrollment                                                 *)

\* EnsureIdentity: load, if there is a key and a certificate; else enroll.
EnsureIdentity ==
  /\ proc = "down" /\ bin.exe \in Versions
  /\ proc' = IF Exists("key") /\ Exists("cert") THEN "load" ELSE "enroll"
  /\ version' = bin.exe
  /\ UNCHANGED <<idVars, binVars, live, due, renew, faults>>

\* loadIdentity succeeds with a key and a certificate that belong together and
\* a CA bundle.
Loadable ==
  /\ \A f \in Files : disk[f] # 0 /\ f \notin torn
  /\ disk["key"] = disk["cert"]

LoadIdentity ==
  /\ proc = "load"
  /\ proc' = IF Loadable THEN "up" ELSE "down"
  /\ live' = IF Loadable THEN disk["cert"] ELSE 0
  /\ UNCHANGED <<idVars, binVars, due, renew, faults, version>>

\* doEnroll: the token is good for one certificate.
Enroll ==
  /\ proc = "enroll"
  /\ \/ /\ ~spent /\ certs < MaxIssued
        /\ spent' = TRUE /\ certs' = certs + 1
        /\ proc' = "write" /\ todo' = Files /\ idWindow' = TRUE
     \/ /\ spent /\ proc' = "down"
        /\ UNCHANGED <<spent, certs, todo, idWindow>>
  /\ UNCHANGED <<disk, torn, binVars, live, due, renew, faults, version>>

\* The call fails, or its answer is lost after the Server has used the token.
EnrollFails ==
  /\ proc = "enroll" /\ Fault /\ proc' = "down"
  /\ \/ UNCHANGED <<spent, idWindow>>
     \/ spent' = TRUE /\ idWindow' = TRUE
  /\ UNCHANGED <<disk, torn, certs, todo, binVars, live, due, renew, version>>

\* os.WriteFile: the file is emptied, then written; the files come in the
\* order of a map iteration.
WriteBegin(f) ==
  /\ proc = "write" /\ f \in todo /\ torn = {} /\ torn' = {f}
  /\ UNCHANGED <<disk, spent, certs, todo, idWindow, binVars, procVars, renew, faults>>

WriteEnd(f) ==
  /\ proc = "write" /\ f \in torn
  /\ disk' = [disk EXCEPT ![f] = certs] /\ torn' = {} /\ todo' = todo \ {f}
  /\ proc' = IF todo = {f} THEN "load" ELSE "write"
  /\ idWindow' = (todo # {f})
  /\ UNCHANGED <<spent, certs, binVars, live, due, renew, faults, version>>

-----------------------------------------------------------------------------
(* Renewal                                                                 *)

\* The certificate enters the last third of its life.
BecomesDue ==
  /\ proc = "up" /\ ~due /\ certs < MaxIssued /\ due' = TRUE
  /\ UNCHANGED <<idVars, binVars, proc, live, renew, faults, version>>

\* RenewIfDue, the call: a new key, a certificate for it, checked together.
RenewCall ==
  /\ proc = "up" /\ due /\ renew = "idle" /\ certs < MaxIssued
  /\ certs' = certs + 1 /\ renew' = "key"
  /\ UNCHANGED <<disk, torn, spent, todo, idWindow, binVars, procVars, faults>>

\* The call fails; Run tries again after RetryInterval.
RenewCallFails ==
  /\ proc = "up" /\ due /\ renew = "idle" /\ Fault
  /\ UNCHANGED <<idVars, binVars, procVars, renew>>

\* Mutant: the file is written in its place.
WriteInPlace(f, next) ==
  /\ proc = "up" /\ renew = f
  /\ \/ f \notin torn /\ torn' = torn \cup {f} /\ UNCHANGED <<disk, renew, idWindow>>
     \/ /\ f \in torn /\ torn' = torn \ {f} /\ disk' = [disk EXCEPT ![f] = certs]
        /\ renew' = next /\ idWindow' = (f = "key" \/ (idWindow /\ f # "cert"))
  /\ UNCHANGED <<spent, certs, todo, binVars, procVars, faults>>

\* atomicWrite: a temporary file and a rename, which a crash of the process does
\* not tear.  The key goes first.
AtomicWrite(f, next) ==
  /\ proc = "up" /\ renew = f
  /\ disk' = [disk EXCEPT ![f] = certs] /\ renew' = next
  /\ idWindow' = (f = "key" \/ (idWindow /\ f # "cert"))
  /\ UNCHANGED <<torn, spent, certs, todo, binVars, procVars, faults>>

\* The answer may come without a CA bundle.
Written ==
  \/ AtomicWrite("key", "cert")
  \/ AtomicWrite("cert", "ca") \/ AtomicWrite("cert", "set")
  \/ AtomicWrite("ca", "set")

\* Mutant: the renewer gives up.
WriteFailsForGood ==
  /\ proc = "up" /\ renew \in Files /\ Fault
  /\ renew' = "stopped"
  /\ UNCHANGED <<idVars, binVars, procVars>>

\* atomicWrite fails: what was written before stays, the next try begins anew.
WriteFails ==
  /\ proc = "up" /\ renew \in Files /\ Fault
  /\ renew' = "idle"
  /\ UNCHANGED <<idVars, binVars, procVars>>

\* CertSource.Set.
SetSource ==
  /\ proc = "up" /\ renew = "set"
  /\ live' = certs /\ due' = FALSE /\ renew' = "idle"
  /\ UNCHANGED <<idVars, binVars, proc, faults, version>>

-----------------------------------------------------------------------------
(* Self-update                                                             *)

\* Mutant: a second update is not refused.
ApplyAnyway(v, force, hashed) ==
  /\ proc = "up" /\ update = "idle" /\ (force \/ v # version) /\ bin.exe # 0
  /\ inFlight' = TRUE /\ target' = (IF hashed THEN v ELSE 0) /\ update' = "download"
  /\ UNCHANGED <<bin, exiting, binWindow, idVars, procVars, renew, faults>>

\* Apply, called by the control channel's receive loop: not for the version
\* that runs unless forced, not beside another update.  os.Executable gives the
\* path the process was started from, read when it started, and EvalSymlinks
\* fails when no file is there, as after a rollback that failed.
Apply(v, force, hashed) ==
  /\ proc = "up" /\ update = "idle" /\ (force \/ v # version) /\ bin.exe # 0
  /\ ~inFlight /\ inFlight' = TRUE /\ target' = (IF hashed THEN v ELSE 0) /\ update' = "download"
  /\ UNCHANGED <<bin, exiting, binWindow, idVars, procVars, renew, faults>>

\* downloadTo and verifySHA256: the file grows until it is complete.  Without a
\* SHA-256 in the order it may be any version the URL serves; that the URL
\* serves a binary at all is up to the Server.
Download ==
  /\ proc = "up" /\ update = "download"
  /\ \/ bin.new # Partial /\ bin' = [bin EXCEPT !.new = Partial] /\ update' = update
     \/ /\ bin.new = Partial /\ update' = "remove"
        /\ \E v \in Versions : target \in {0, v} /\ bin' = [bin EXCEPT !.new = v]
  /\ UNCHANGED <<target, inFlight, exiting, binWindow, idVars, procVars, renew, faults>>

\* A step before the swap fails: the download is removed, inFlight released.
GiveUp ==
  /\ update' = "idle" /\ inFlight' = FALSE /\ target' = 0
  /\ UNCHANGED <<exiting, idVars, procVars, renew>>

DownloadFails ==
  /\ proc = "up" /\ update \in {"download", "backup"} /\ Fault
  /\ bin' = [bin EXCEPT !.new = 0]
  /\ GiveUp /\ UNCHANGED binWindow

RemoveBackup ==
  /\ proc = "up" /\ update = "remove"
  /\ bin' = [bin EXCEPT !.bak = 0] /\ update' = "backup"
  /\ UNCHANGED <<target, inFlight, exiting, binWindow, idVars, procVars, renew, faults>>

\* The running binary is renamed out of the way, the new one into its place.
BackUp ==
  /\ proc = "up" /\ update = "backup"
  /\ bin' = [exe |-> 0, new |-> bin.new, bak |-> bin.exe]
  /\ binWindow' = TRUE /\ update' = "swap"
  /\ UNCHANGED <<target, inFlight, exiting, idVars, procVars, renew, faults>>

Swap ==
  /\ proc = "up" /\ update = "swap"
  /\ bin' = [exe |-> bin.new, new |-> 0, bak |-> bin.bak]
  /\ binWindow' = FALSE /\ update' = "idle" /\ exiting' = TRUE
  /\ UNCHANGED <<target, inFlight, idVars, procVars, renew, faults>>

\* The second rename fails: back to the old binary, if that rename succeeds.
SwapFails ==
  /\ proc = "up" /\ update = "swap" /\ Fault
  /\ \/ bin' = [exe |-> bin.bak, new |-> 0, bak |-> 0] /\ binWindow' = FALSE
     \/ bin' = [bin EXCEPT !.new = 0] /\ UNCHANGED binWindow
  /\ update' = "idle" /\ inFlight' = FALSE /\ target' = 0
  /\ UNCHANGED <<exiting, idVars, procVars, renew>>

-----------------------------------------------------------------------------
(* The end of a process                                                    *)

\* Whatever ends the process, nothing in memory is left.
Ends ==
  /\ proc' = "down" /\ todo' = {} /\ live' = 0 /\ due' = FALSE
  /\ renew' = "idle" /\ update' = "idle" /\ inFlight' = FALSE /\ exiting' = FALSE
  /\ target' = 0 /\ version' = 0
  /\ UNCHANGED <<disk, torn, bin, spent, certs, idWindow, binWindow>>

\* os.Exit(0), RestartDelay after a successful update.
ExitForRestart == exiting /\ Ends /\ UNCHANGED faults

\* A crash of the process, or a write of doEnroll that fails and ends run.
Crash == proc # "down" /\ Fault /\ Ends

FilesNext ==
  \/ EnsureIdentity \/ LoadIdentity \/ Enroll \/ EnrollFails
  \/ \E f \in Files : WriteBegin(f) \/ WriteEnd(f)
  \/ BecomesDue \/ RenewCall \/ RenewCallFails \/ WriteFails \/ SetSource
  \/ Written
  \/ \E v \in Versions, force, hashed \in BOOLEAN : Apply(v, force, hashed)
  \/ Download \/ DownloadFails \/ RemoveBackup \/ BackUp \/ Swap \/ SwapFails
  \/ ExitForRestart \/ Crash

FilesSpec == FilesInit /\ [][FilesNext]_filesVars

\* The renewer's loop goes on: a due certificate is asked for again and again,
\* and what has been answered is written.
Renewing == RenewCall \/ Written \/ SetSource
FilesFairSpec == FilesSpec /\ WF_filesVars(Renewing)

-----------------------------------------------------------------------------
IdTypes ==
  /\ disk \in [Files -> 0..MaxIssued] /\ torn \in SUBSET Files /\ todo \in SUBSET Files
  /\ certs \in 0..MaxIssued

BinTypes ==
  /\ bin \in [exe : 0..MaxVersion, new : 0..Partial, bak : 0..MaxVersion]
  /\ update \in {"idle", "download", "remove", "backup", "swap"} /\ target \in 0..MaxVersion

ProcTypes ==
  /\ proc \in {"down", "enroll", "write", "load", "up"} /\ version \in 0..MaxVersion
  /\ live \in 0..MaxIssued /\ renew \in Files \cup {"idle", "set"}
  /\ faults \in 0..MaxFaults

FlagTypes ==
  /\ spent \in BOOLEAN /\ idWindow \in BOOLEAN /\ due \in BOOLEAN
  /\ inFlight \in BOOLEAN /\ exiting \in BOOLEAN /\ binWindow \in BOOLEAN

\* The types of the variables.
FilesTypeOK == IdTypes /\ BinTypes /\ ProcTypes /\ FlagTypes

\* The node can start: its binary is whole, and it has an identity to load or
\* an enrollment to do.
Startable ==
  /\ bin.exe \in Versions
  /\ Loadable \/ (~spent /\ ~(Exists("key") /\ Exists("cert")))

\* A crash of the process is survived at every point but these, however renewal,
\* update and their failing steps overlap: between the token's use and the last
\* file of enrollment, between the key and the certificate of a renewal (the
\* comment at renew.go:168 allows for it) or after a failure there, and between
\* the two renames of an update; and there the old binary is kept beside.
CrashSafe ==
  /\ ~idWindow /\ ~binWindow => Startable
  /\ bin.exe \notin Versions => bin.bak \in Versions

\* When an update ends the process, the binary to start next is in its place,
\* although another update may be asked for during the delay.
ExitLeavesBinary == [][ExitForRestart => bin.exe \in Versions]_filesVars

\* A certificate that is due is renewed, in spite of calls and writes that
\* fail, unless the process ends or has no more to be issued.
DueIsRenewed == due ~> ~due \/ certs = MaxIssued
=============================================================================
