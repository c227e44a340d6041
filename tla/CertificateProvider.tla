------------------------ MODULE CertificateProvider ------------------------
(***************************************************************************)
(* certificateProvider.getCertificate (listener.go): TLS handshakes take   *)
(* their certificate from a cache that is filled anew when one of the two  *)
(* files has another modification time, while an operator replaces them.   *)
(* The server has one provider per SNI name and channel                    *)
(* (Server.buildGetCertificate); they share nothing, so one is enough.     *)
(*                                                                         *)
(* One action is one system call: the mutex keeps out other handshakes,    *)
(* not the operator.  A modification time is the version of the file:      *)
(* assumed is that no two versions share one, and that files get newer.    *)
(***************************************************************************)
EXTENDS Integers

CONSTANTS
    Handshakes,  \* the goroutines that ask for the certificate
    None,        \* none of them
    MaxVersion,  \* bound on the versions of each file
    KeyFor       \* the version of the key each version of the certificate needs

Versions == 1 .. MaxVersion

ASSUME MaxVersionAssumption == MaxVersion \in Nat \ {0}
ASSUME NoneAssumption == None \notin Handshakes
ASSUME KeyForAssumption == KeyFor \in [Versions -> Versions] /\ KeyFor[1] = 1

VARIABLES
    disk,    \* the files: version, and whether they can be read
    cache,   \* certificateProvider.cert, mtimeCert and mtimeKey; version 0: nil
    holder,  \* whoever holds certificateProvider.mu, or None
    pc,
    local,   \* infoCert, infoKey and cert of getCertificate
    since    \* for the properties: the versions on disk when the handshake
             \* began, and whether they were usable and stayed untouched

vars == <<disk, cache, holder, pc, local, since>>

Seen ==
    [cert |-> disk.cert.version, key |-> disk.key.version,
     steady |-> /\ disk.cert.state = "whole" /\ disk.key.state = "whole"
                /\ KeyFor[disk.cert.version] = disk.key.version]

\* Start checks the files before it serves (validateTLSConfig).
Init ==
    /\ disk = [f \in {"cert", "key"} |-> [version |-> 1, state |-> "whole"]]
    /\ cache = [cert |-> 0, mtimeCert |-> 0, mtimeKey |-> 0]
    /\ holder = None
    /\ pc = [h \in Handshakes |-> "away"]
    /\ local = [h \in Handshakes |-> [infoCert |-> 0, infoKey |-> 0, cert |-> 0]]
    /\ since = [h \in Handshakes |-> Seen]

-----------------------------------------------------------------------------
(* Plausible bugs (not part of the specification; README, Mutants).        *)

\* The modification times are taken after the files are read.
LoadKeyThenStat(h) ==
    /\ pc[h] = "load_key" /\ disk.key.state = "whole"
    /\ KeyFor[local[h].cert] = disk.key.version
    /\ cache' = [cert |-> local[h].cert, mtimeCert |-> disk.cert.version,
                 mtimeKey |-> disk.key.version]
    /\ pc' = [pc EXCEPT ![h] = "served"]
    /\ local' = [local EXCEPT ![h].infoCert = 0, ![h].infoKey = 0]
    /\ holder' = None
    /\ UNCHANGED <<disk, since>>

\* The mutex is not held while the files are read.
LockForNothing(h) ==
    /\ pc[h] = "lock"
    /\ holder' = h
    /\ pc' = [pc EXCEPT ![h] = "stat_cert"]
    /\ UNCHANGED <<disk, cache, local, since>>

\* TryLock: who does not get the mutex at once gives up.
LockOrFail(h) ==
    /\ pc[h] = "lock"
    /\ IF holder = None
       THEN holder' = h /\ pc' = [pc EXCEPT ![h] = "stat_cert"]
       ELSE pc' = [pc EXCEPT ![h] = "failed"] /\ UNCHANGED holder
    /\ UNCHANGED <<disk, cache, local, since>>

\* An error is returned before the mutex is released.
FailLocked(h) ==
    /\ pc' = [pc EXCEPT ![h] = "failed"]
    /\ local' = [local EXCEPT ![h] = [infoCert |-> 0, infoKey |-> 0, cert |-> 0]]
    /\ UNCHANGED <<disk, cache, holder, since>>

\* A pair that does not match is waited for, as a rotation must be under way.
LoadKeyRetries(h) ==
    /\ pc[h] = "load_key"
    /\ disk.key.state # "whole" \/ KeyFor[local[h].cert] # disk.key.version
    /\ pc' = [pc EXCEPT ![h] = "stat_cert"]
    /\ UNCHANGED <<disk, cache, holder, local, since>>

-----------------------------------------------------------------------------
(* The operator (external).                                                *)

Touched == since' = [h \in Handshakes |-> [since[h] EXCEPT !.steady = FALSE]]

\* A file is opened for writing, and is not whole until it is closed.
BeginWrite(f) ==
    /\ \E v \in Versions :
          /\ v > disk[f].version
          /\ disk' = [disk EXCEPT ![f] = [version |-> v, state |-> "torn"]]
    /\ Touched
    /\ UNCHANGED <<cache, holder, pc, local>>

EndWrite(f) ==
    /\ disk[f].state = "torn"
    /\ disk' = [disk EXCEPT ![f].state = "whole"]
    /\ UNCHANGED <<cache, holder, pc, local, since>>

Remove(f) ==
    /\ disk[f].state # "gone"
    /\ disk' = [disk EXCEPT ![f].state = "gone"]
    /\ Touched
    /\ UNCHANGED <<cache, holder, pc, local>>

-----------------------------------------------------------------------------
(* A handshake.                                                            *)

Hello(h) ==
    /\ pc[h] \in {"away", "served", "failed"}
    /\ pc' = [pc EXCEPT ![h] = "lock"]
    /\ since' = [since EXCEPT ![h] = Seen]
    /\ UNCHANGED <<disk, cache, holder, local>>

Lock(h) ==
    /\ pc[h] = "lock" /\ holder = None
    /\ holder' = h
    /\ pc' = [pc EXCEPT ![h] = "stat_cert"]
    /\ UNCHANGED <<disk, cache, local, since>>

\* The deferred Unlock is part of every return.
Return(h, how, cert) ==
    /\ pc' = [pc EXCEPT ![h] = how]
    /\ local' = [local EXCEPT ![h] = [infoCert |-> 0, infoKey |-> 0,
                                     cert |-> cert]]
    /\ holder' = None
    /\ UNCHANGED <<disk, since>>

Fail(h) == Return(h, "failed", 0) /\ UNCHANGED cache

StatCert(h) ==
    /\ pc[h] = "stat_cert" /\ disk.cert.state # "gone"
    /\ local' = [local EXCEPT ![h].infoCert = disk.cert.version]
    /\ pc' = [pc EXCEPT ![h] = "stat_key"]
    /\ UNCHANGED <<disk, cache, holder, since>>

StatCertFails(h) == pc[h] = "stat_cert" /\ disk.cert.state = "gone" /\ Fail(h)

StatKey(h) ==
    /\ pc[h] = "stat_key" /\ disk.key.state # "gone"
    /\ local' = [local EXCEPT ![h].infoKey = disk.key.version]
    /\ pc' = [pc EXCEPT ![h] = "compare"]
    /\ UNCHANGED <<disk, cache, holder, since>>

StatKeyFails(h) == pc[h] = "stat_key" /\ disk.key.state = "gone" /\ Fail(h)

Current(h) ==
    /\ cache.cert # 0
    /\ cache.mtimeCert = local[h].infoCert /\ cache.mtimeKey = local[h].infoKey

Hit(h) ==
    /\ pc[h] = "compare" /\ Current(h)
    /\ Return(h, "served", cache.cert)
    /\ UNCHANGED cache

Miss(h) ==
    /\ pc[h] = "compare" /\ ~Current(h)
    /\ pc' = [pc EXCEPT ![h] = "load_cert"]
    /\ UNCHANGED <<disk, cache, holder, local, since>>

\* tls.LoadX509KeyPair reads the certificate, then the key,
LoadCert(h) ==
    /\ pc[h] = "load_cert" /\ disk.cert.state = "whole"
    /\ local' = [local EXCEPT ![h].cert = disk.cert.version]
    /\ pc' = [pc EXCEPT ![h] = "load_key"]
    /\ UNCHANGED <<disk, cache, holder, since>>

LoadCertFails(h) == pc[h] = "load_cert" /\ disk.cert.state # "whole" /\ Fail(h)

\* and refuses a key that does not belong to it.
LoadKey(h) ==
    /\ pc[h] = "load_key" /\ disk.key.state = "whole"
    /\ KeyFor[local[h].cert] = disk.key.version
    /\ cache' = [cert |-> local[h].cert, mtimeCert |-> local[h].infoCert,
                 mtimeKey |-> local[h].infoKey]
    /\ Return(h, "served", local[h].cert)

LoadKeyFails(h) ==
    /\ pc[h] = "load_key"
    /\ disk.key.state # "whole" \/ KeyFor[local[h].cert] # disk.key.version
    /\ Fail(h)

Step(h) ==
    \/ StatCert(h) \/ StatCertFails(h) \/ StatKey(h) \/ StatKeyFails(h)
    \/ Hit(h) \/ Miss(h)
    \/ LoadCert(h) \/ LoadCertFails(h) \/ LoadKey(h) \/ LoadKeyFails(h)

Next ==
    \/ \E f \in {"cert", "key"} : BeginWrite(f) \/ EndWrite(f) \/ Remove(f)
    \/ \E h \in Handshakes : Hello(h) \/ Lock(h) \/ Step(h)

Spec == Init /\ [][Next]_vars

\* Goroutines are scheduled, and sync.Mutex lets nobody starve.
FairSpec ==
    /\ Spec
    /\ \A h \in Handshakes : WF_vars(Step(h)) /\ SF_vars(Lock(h))

-----------------------------------------------------------------------------
(* Properties.                                                             *)

File == [version : Versions, state : {"whole", "torn", "gone"}]
Version == 0 .. MaxVersion

\* Between Lock and Unlock of getCertificate.
Inside == {"stat_cert", "stat_key", "compare", "load_cert", "load_key"}

Mutex == \A h \in Handshakes : pc[h] \in Inside <=> holder = h

TypeOK ==
    /\ disk \in [{"cert", "key"} -> File]
    /\ cache \in [cert : Version, mtimeCert : Version, mtimeKey : Version]
    /\ holder \in Handshakes \cup {None}
    /\ pc \in [Handshakes -> Inside \cup {"away", "lock", "served", "failed"}]
    /\ Mutex
    /\ local \in [Handshakes -> [infoCert : Version, infoKey : Version,
                                 cert : Version]]
    /\ since \in [Handshakes -> [cert : Versions, key : Versions,
                                 steady : BOOLEAN]]

\* No handshake is served a certificate or a key that had already been
\* replaced when it began, wherever in a rotation it falls and whoever filled
\* the cache (certificateProvider.getCertificate).
NeverStale ==
    \A h \in Handshakes : pc[h] = "served" =>
        /\ local[h].cert >= since[h].cert
        /\ KeyFor[local[h].cert] >= since[h].key

\* A handshake fails only if the files were unusable when it began, or have
\* been touched since; never because of an earlier failure, or of the others.
FailsForAReason ==
    \A h \in Handshakes : pc[h] = "failed" =>
        ~since[h].steady

\* Nobody is served an older certificate than somebody before (mu).
NeverBack == [][cache'.cert >= cache.cert]_vars

\* Every handshake is answered, also after one that failed.
Answered ==
    \A h \in Handshakes : pc[h] = "lock" ~> pc[h] \in {"served", "failed"}
=============================================================================
