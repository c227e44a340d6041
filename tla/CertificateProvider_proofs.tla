-------------------- MODULE CertificateProvider_proofs --------------------
(***************************************************************************)
(* Proofs about CertificateProvider for any number of handshakes and of    *)
(* rotations.                                                              *)
(***************************************************************************)
EXTENDS CertificateProvider, TLAPS

USE MaxVersionAssumption, NoneAssumption, KeyForAssumption DEF Versions, Version

Files == {"cert", "key"}
Locals == [infoCert : Version, infoKey : Version, cert : Version]
Sights == [cert : Versions, key : Versions, steady : BOOLEAN]

LEMMA SeenType ==
    ASSUME disk \in [Files -> File]
    PROVE  /\ Seen \in Sights
           /\ Seen.cert = disk.cert.version /\ Seen.key = disk.key.version
           /\ Seen.steady => /\ disk.cert.state = "whole"
                             /\ disk.key.state = "whole"
                             /\ KeyFor[disk.cert.version] = disk.key.version
BY DEF Seen, Sights, Files, File

\* What the operator does: files get newer, and no handshake is steady.
LEMMA OperatorStep ==
    ASSUME TypeOK, NEW f \in Files, BeginWrite(f) \/ EndWrite(f) \/ Remove(f)
    PROVE  /\ UNCHANGED <<cache, holder, pc, local>>
           /\ disk' \in [Files -> File]
           /\ disk.cert.version <= disk'.cert.version
           /\ disk.key.version <= disk'.key.version
           /\ since' \in [Handshakes -> Sights]
           /\ \A h \in Handshakes :
                  since'[h].cert = since[h].cert /\ since'[h].key = since[h].key
           /\ \/ disk' = [disk EXCEPT ![f].state = "whole"] /\ since' = since
              \/ \A h \in Handshakes : ~since'[h].steady
<1>1. disk \in [Files -> File] /\ since \in [Handshakes -> Sights]
  BY DEF TypeOK, Files, Sights
<1>2. CASE BeginWrite(f)
  <2>1. PICK v \in Versions : /\ v > disk[f].version
                              /\ disk' = [disk EXCEPT ![f] =
                                           [version |-> v, state |-> "torn"]]
    BY <1>2 DEF BeginWrite
  <2>2. disk' \in [Files -> File] /\ disk.cert.version <= disk'.cert.version
        /\ disk.key.version <= disk'.key.version
    BY SMTT(60), <1>1, <2>1 DEF Files, File
  <2>3. since' = [h \in Handshakes |-> [since[h] EXCEPT !.steady = FALSE]]
    BY <1>2 DEF BeginWrite, Touched
  <2>4. \A h \in Handshakes : since[h] \in Sights
    BY <1>1
  <2>5. \A h \in Handshakes :
          /\ since'[h] \in Sights
          /\ since'[h].cert = since[h].cert /\ since'[h].key = since[h].key
    BY <2>3, <2>4 DEF Sights
  <2>6. \A h \in Handshakes : ~since'[h].steady
    BY <2>3, <2>4, Zenon DEF Sights
  <2>7. UNCHANGED <<cache, holder, pc, local>>
    BY <1>2 DEF BeginWrite
  <2>8. since' \in [Handshakes -> Sights]
    BY <2>3, <2>5
  <2>9. QED
    BY <2>2, <2>5, <2>6, <2>7, <2>8
<1>3. CASE EndWrite(f)
  <2>1. disk' \in [Files -> File] /\ disk.cert.version <= disk'.cert.version
        /\ disk.key.version <= disk'.key.version
    BY <1>1, <1>3 DEF EndWrite, Files, File
  <2>2. QED
    BY <1>1, <1>3, <2>1 DEF EndWrite
<1>4. CASE Remove(f)
  <2>1. disk' \in [Files -> File] /\ disk.cert.version <= disk'.cert.version
        /\ disk.key.version <= disk'.key.version
    BY <1>1, <1>4 DEF Remove, Files, File
  <2>2. since' = [h \in Handshakes |-> [since[h] EXCEPT !.steady = FALSE]]
    BY <1>4 DEF Remove, Touched
  <2>3. \A h \in Handshakes : since[h] \in Sights
    BY <1>1
  <2>4. \A h \in Handshakes :
          /\ since'[h] \in Sights
          /\ since'[h].cert = since[h].cert /\ since'[h].key = since[h].key
    BY <2>2, <2>3 DEF Sights
  <2>5. \A h \in Handshakes : ~since'[h].steady
    BY <2>2, <2>3, Zenon DEF Sights
  <2>6. UNCHANGED <<cache, holder, pc, local>>
    BY <1>4 DEF Remove
  <2>7. since' \in [Handshakes -> Sights]
    BY <2>2, <2>4
  <2>8. QED
    BY <2>1, <2>4, <2>5, <2>6, <2>7
<1>5. QED
  BY <1>2, <1>3, <1>4

\* Whoever is between Lock and Unlock holds the mutex, and gives it up outside.
LEMMA StepMoves ==
    ASSUME TypeOK, NEW h \in Handshakes, Step(h)
    PROVE  /\ UNCHANGED <<disk, since>> /\ pc[h] \in Inside /\ holder = h
           /\ \A g \in Handshakes \ {h} : pc'[g] = pc[g] /\ local'[g] = local[g]
           /\ \/ pc'[h] \in Inside /\ holder' = h
              \/ pc'[h] \notin Inside /\ holder' = None
BY DEF Step, StatCert, StatCertFails, StatKey, StatKeyFails, Hit, Miss,
   LoadCert, LoadCertFails, LoadKey, LoadKeyFails, Fail, Return, TypeOK,
   Mutex, Inside

LEMMA MutexKept ==
    ASSUME TypeOK, Next
    PROVE  Mutex'
<1>1. ASSUME NEW f \in Files, BeginWrite(f) \/ EndWrite(f) \/ Remove(f)
      PROVE  Mutex'
  BY <1>1, OperatorStep DEF TypeOK, Mutex
<1>2. ASSUME NEW h \in Handshakes, Hello(h) PROVE Mutex'
  <2>1. /\ holder' = holder /\ pc[h] \notin Inside /\ pc'[h] \notin Inside
        /\ \A g \in Handshakes \ {h} : pc'[g] = pc[g]
    BY <1>2 DEF Hello, TypeOK, Inside
  <2>2. QED
    BY <2>1 DEF TypeOK, Mutex
<1>3. ASSUME NEW h \in Handshakes, Lock(h) PROVE Mutex'
  <2>1. /\ holder = None /\ holder' = h /\ pc'[h] \in Inside
        /\ \A g \in Handshakes \ {h} : pc'[g] = pc[g]
    BY <1>3 DEF Lock, TypeOK, Inside
  <2>2. QED
    BY <2>1 DEF TypeOK, Mutex
<1>4. ASSUME NEW h \in Handshakes, Step(h) PROVE Mutex'
  <2>1. /\ pc[h] \in Inside /\ holder = h
        /\ \A g \in Handshakes \ {h} : pc'[g] = pc[g]
        /\ \/ pc'[h] \in Inside /\ holder' = h
           \/ pc'[h] \notin Inside /\ holder' = None
    BY <1>4, StepMoves
  <2>2. \A g \in Handshakes \ {h} : pc'[g] \notin Inside
    BY <2>1 DEF TypeOK, Mutex
  <2>3. QED
    BY <2>1, <2>2 DEF Mutex
<1>5. QED
  BY <1>1, <1>2, <1>3, <1>4 DEF Next, Files

\* Types of the files, the cache and the local variables of getCertificate.
THEOREM TypeCorrect == Spec => []TypeOK
<1>1. Init => TypeOK
  <2> SUFFICES ASSUME Init PROVE TypeOK
    OBVIOUS
  <2>1. disk \in [Files -> File]
    BY DEF Init, Files, File
  <2>2. QED
    BY <2>1, SeenType DEF Init, TypeOK, Mutex, Inside, Files, Sights
<1>2. TypeOK /\ [Next]_vars => TypeOK'
  <2> SUFFICES ASSUME TypeOK, [Next]_vars PROVE TypeOK'
    OBVIOUS
  <2>0. Next => Mutex'
    BY MutexKept
  <2>1. ASSUME NEW f \in Files, BeginWrite(f) \/ EndWrite(f) \/ Remove(f)
        PROVE  TypeOK'
    BY <2>0, <2>1, OperatorStep DEF Next, TypeOK, Files, Sights
  <2>2. ASSUME NEW h \in Handshakes, Hello(h) PROVE TypeOK'
    BY <2>0, <2>2, SeenType DEF Next, Hello, TypeOK, Files, Sights
  <2>3. ASSUME NEW h \in Handshakes, Lock(h) PROVE TypeOK'
    BY <2>0, <2>3 DEF Next, Lock, TypeOK, Inside
  <2>4. ASSUME NEW h \in Handshakes, Step(h) PROVE TypeOK'
    <3> Mutex'
      BY <2>0, <2>4 DEF Next
    <3> local \in [Handshakes -> Locals] /\ local[h] \in Locals
      BY DEF TypeOK, Locals
    <3> 0 \in Version /\ cache.cert \in Version
      BY DEF TypeOK
    <3> disk.cert.version \in Version /\ disk.key.version \in Version
      <4>1. disk.cert \in File /\ disk.key \in File
        BY DEF TypeOK
      <4>2. disk.cert.version \in Versions /\ disk.key.version \in Versions
        BY <4>1 DEF File
      <4>3. QED
        BY SMTT(60), <4>2
    <3>0. ASSUME NEW how \in {"served", "failed"}, NEW cert \in Version,
                 Return(h, how, cert), UNCHANGED cache
          PROVE  TypeOK'
      <4>1. [infoCert |-> 0, infoKey |-> 0, cert |-> cert] \in Locals
        BY SMTT(60) DEF Locals
      <4>2. local' \in [Handshakes -> Locals]
        BY <3>0, <4>1 DEF Return
      <4>3. QED
        BY <3>0, <4>2 DEF Return, TypeOK, Locals
    <3>1. ASSUME Fail(h) PROVE TypeOK'
      BY <3>0, <3>1 DEF Fail
    <3>2. CASE StatCert(h)
      <4>1. local' \in [Handshakes -> Locals]
        BY <3>2 DEF StatCert, Locals
      <4>2. QED
        BY <3>2, <4>1 DEF StatCert, TypeOK, Locals, Inside
    <3>3. CASE StatKey(h)
      <4>1. local' \in [Handshakes -> Locals]
        BY <3>3 DEF StatKey, Locals
      <4>2. QED
        BY <3>3, <4>1 DEF StatKey, TypeOK, Locals, Inside
    <3>4. CASE Hit(h)
      BY <3>0, <3>4 DEF Hit
    <3>5. CASE Miss(h)
      BY <3>5 DEF Miss, TypeOK, Inside
    <3>6. CASE LoadCert(h)
      <4>1. local' \in [Handshakes -> Locals]
        BY <3>6 DEF LoadCert, Locals
      <4>2. QED
        BY <3>6, <4>1 DEF LoadCert, TypeOK, Locals, Inside
    <3>7. CASE LoadKey(h)
      BY <3>7 DEF LoadKey, Return, TypeOK
    <3>8. QED
      BY <2>4, <3>1, <3>2, <3>3, <3>4, <3>5, <3>6, <3>7
         DEF Step, StatCertFails, StatKeyFails, LoadCertFails, LoadKeyFails
  <2>5. CASE UNCHANGED vars
    BY <2>5 DEF vars, TypeOK, Mutex
  <2>6. QED
    BY <2>1, <2>2, <2>3, <2>4, <2>5 DEF Next, Files
<1>3. QED
  BY <1>1, <1>2, PTL DEF Spec

-----------------------------------------------------------------------------
(* The invariant.                                                          *)

\* What is cached is what the files held when it was loaded, which was after
\* their modification times were read: it may be newer than these, never older.
CacheInv ==
    cache.cert # 0 =>
        /\ cache.mtimeCert <= cache.cert /\ cache.cert <= disk.cert.version
        /\ cache.mtimeKey <= KeyFor[cache.cert]

\* What a handshake knows is not older than what was there when it began.
KnowsCert(h) ==
    pc[h] \in {"stat_key", "compare", "load_cert", "load_key"} =>
        /\ since[h].cert <= local[h].infoCert
        /\ local[h].infoCert <= disk.cert.version
KnowsKey(h) ==
    pc[h] \in {"compare", "load_cert", "load_key"} =>
        /\ since[h].key <= local[h].infoKey
        /\ local[h].infoKey <= disk.key.version
HasCert(h) ==
    pc[h] = "load_key" =>
        /\ local[h].infoCert <= local[h].cert
        /\ local[h].cert <= disk.cert.version
        /\ cache.cert <= local[h].cert
Served(h) ==
    pc[h] = "served" =>
        /\ local[h].cert >= since[h].cert
        /\ KeyFor[local[h].cert] >= since[h].key
Failed(h) == pc[h] = "failed" => ~since[h].steady

\* The files of a steady handshake are those it found.
SinceInv(h) ==
    /\ since[h].cert <= disk.cert.version /\ since[h].key <= disk.key.version
    /\ since[h].steady =>
           /\ disk.cert.state = "whole" /\ disk.key.state = "whole"
           /\ since[h].cert = disk.cert.version
           /\ since[h].key = disk.key.version
           /\ KeyFor[disk.cert.version] = disk.key.version

About(h) ==
    /\ KnowsCert(h) /\ KnowsKey(h) /\ HasCert(h)
    /\ Served(h) /\ Failed(h) /\ SinceInv(h)

IInv == CacheInv /\ \A h \in Handshakes : About(h)

\* A handshake that neither moves nor sees the cache change keeps what it knows.
LEMMA Bystander ==
    ASSUME TypeOK, TypeOK', IInv, NEW h \in Handshakes,
           pc'[h] = pc[h], local'[h] = local[h], since'[h] = since[h],
           disk' = disk, cache' = cache \/ pc[h] # "load_key"
    PROVE  About(h)'
BY DEF IInv, About, KnowsCert, KnowsKey, HasCert, Served, Failed, SinceInv

LEMMA Operated ==
    ASSUME TypeOK, TypeOK', IInv, NEW f \in Files,
           BeginWrite(f) \/ EndWrite(f) \/ Remove(f)
    PROVE  IInv'
<1>1. /\ UNCHANGED <<cache, holder, pc, local>>
      /\ disk.cert.version <= disk'.cert.version
      /\ disk.key.version <= disk'.key.version
      /\ \A h \in Handshakes :
             since'[h].cert = since[h].cert /\ since'[h].key = since[h].key
      /\ \/ disk' = [disk EXCEPT ![f].state = "whole"] /\ since' = since
         \/ \A h \in Handshakes : ~since'[h].steady
  BY OperatorStep
<1>2. /\ disk.cert.version \in Versions /\ disk'.cert.version \in Versions
      /\ disk.key.version \in Versions /\ disk'.key.version \in Versions
      /\ cache.cert \in Version /\ cache.mtimeCert \in Version
  BY DEF TypeOK, File
<1>4. CacheInv'
  BY <1>1, <1>2 DEF IInv, CacheInv
<1>5. ASSUME NEW h \in Handshakes PROVE About(h)'
  <2>1. /\ local[h] \in Locals /\ since[h] \in Sights /\ About(h)
    BY DEF TypeOK, IInv, Locals, Sights
  <2>2. KnowsCert(h)' /\ KnowsKey(h)' /\ HasCert(h)' /\ Served(h)'
    <3>1. /\ local[h].cert \in Version /\ local[h].infoCert \in Version
          /\ local[h].infoKey \in Version
      BY <2>1 DEF Locals
    <3>2. /\ pc'[h] = pc[h] /\ local'[h] = local[h]
          /\ since'[h].cert = since[h].cert /\ since'[h].key = since[h].key
      BY <1>1
    <3>3. KnowsCert(h)'
      <4>1. local[h].infoCert <= disk.cert.version
            => local[h].infoCert <= disk'.cert.version
        BY <1>1, <1>2, <3>1
      <4>2. QED
        BY <2>1, <3>2, <4>1 DEF About, KnowsCert
    <3>4. KnowsKey(h)'
      <4>1. local[h].infoKey <= disk.key.version
            => local[h].infoKey <= disk'.key.version
        BY <1>1, <1>2, <3>1
      <4>2. QED
        BY <2>1, <3>2, <4>1 DEF About, KnowsKey
    <3>5. HasCert(h)'
      <4>1. local[h].cert <= disk.cert.version
            => local[h].cert <= disk'.cert.version
        BY <1>1, <1>2, <3>1
      <4>2. QED
        BY <1>1, <2>1, <3>2, <4>1 DEF About, HasCert
    <3>6. Served(h)'
      BY <2>1, <3>2 DEF About, Served
    <3>7. QED
      BY <3>3, <3>4, <3>5, <3>6
  <2>3. CASE disk' = [disk EXCEPT ![f].state = "whole"] /\ since' = since
    <3>1. Failed(h)'
      BY <1>1, <2>1, <2>3 DEF About, Failed
    <3>2. /\ disk'.cert.version = disk.cert.version
          /\ disk'.key.version = disk.key.version
          /\ disk.cert.state = "whole" => disk'.cert.state = "whole"
          /\ disk.key.state = "whole" => disk'.key.state = "whole"
      <4>1. disk \in [Files -> File]
        BY DEF TypeOK, Files
      <4>2. /\ disk[f] \in File /\ DOMAIN disk = Files
            /\ disk'[f] = [disk[f] EXCEPT !.state = "whole"]
            /\ \A g \in Files \ {f} : disk'[g] = disk[g]
        BY <2>3, <4>1
      <4>3. disk'[f].version = disk[f].version /\ disk'[f].state = "whole"
        BY <4>2 DEF File
      <4>4. \A g \in Files : /\ disk'[g].version = disk[g].version
                             /\ disk[g].state = "whole" => disk'[g].state = "whole"
        BY <4>2, <4>3
      <4>6. "cert" \in Files /\ "key" \in Files
        BY DEF Files
      <4>7. /\ disk'["cert"].version = disk["cert"].version
            /\ disk["cert"].state = "whole" => disk'["cert"].state = "whole"
        BY ONLY <4>4, <4>6
      <4>8. /\ disk'["key"].version = disk["key"].version
            /\ disk["key"].state = "whole" => disk'["key"].state = "whole"
        BY ONLY <4>4, <4>6
      <4>9. QED
        BY <4>7, <4>8
    <3>3. SinceInv(h)'
      BY SMTT(60), <2>1, <2>3, <3>2 DEF About, SinceInv
    <3>4. QED
      BY <2>2, <3>1, <3>3 DEF About
  <2>4. CASE ~since'[h].steady
    <3>1. Failed(h)'
      BY <2>4 DEF Failed
    <3>2. SinceInv(h)'
      BY <1>1, <1>2, <2>1, <2>4 DEF About, SinceInv, Sights
    <3>3. QED
      BY <2>2, <3>1, <3>2 DEF About
  <2>5. QED
    BY <1>1, <2>3, <2>4
<1>6. QED
  BY <1>4, <1>5 DEF IInv

LEMMA Entered ==
    ASSUME TypeOK, TypeOK', IInv, NEW h \in Handshakes, Hello(h) \/ Lock(h)
    PROVE  IInv'
<1>1. /\ UNCHANGED <<disk, cache, local>>
      /\ \A g \in Handshakes \ {h} : pc'[g] = pc[g] /\ since'[g] = since[g]
      /\ pc'[h] \in {"lock", "stat_cert"}
  BY DEF Hello, Lock, TypeOK
<1>3. CacheInv'
  BY <1>1 DEF IInv, CacheInv
<1>4. SinceInv(h)'
  <2>1. CASE Hello(h)
    <3>1. since'[h] = Seen /\ disk' = disk /\ disk \in [Files -> File]
      BY <2>1 DEF Hello, TypeOK, Files
    <3>2. QED
      BY <3>1, SeenType DEF SinceInv, Files, File
  <2>2. CASE Lock(h)
    BY <2>2 DEF Lock, IInv, About, SinceInv
  <2>3. QED
    BY <2>1, <2>2
<1>5. About(h)'
  BY <1>1, <1>4 DEF About, KnowsCert, KnowsKey, HasCert, Served, Failed
<1>6. \A g \in Handshakes \ {h} : About(g)'
  BY <1>1, Bystander
<1>7. QED
  BY <1>3, <1>5, <1>6 DEF IInv

LEMMA Stepped ==
    ASSUME TypeOK, TypeOK', IInv, NEW h \in Handshakes, Step(h)
    PROVE  IInv' /\ cache'.cert >= cache.cert
<1>1. /\ UNCHANGED <<disk, since>> /\ pc[h] \in Inside /\ holder = h
      /\ \A g \in Handshakes \ {h} : pc'[g] = pc[g] /\ local'[g] = local[g]
  BY StepMoves
<1>2. \A g \in Handshakes \ {h} : pc[g] \notin Inside
  BY <1>1 DEF TypeOK, Mutex
<1>4. \A g \in Handshakes \ {h} : About(g)'
  <2>1. \A g \in Handshakes \ {h} : pc[g] # "load_key"
    BY <1>2 DEF Inside
  <2>2. QED
    BY <1>1, <2>1, Bystander
<1>5. SinceInv(h)'
  BY <1>1 DEF IInv, About, SinceInv
<1>6. /\ About(h) /\ local[h] \in Locals /\ since[h] \in Sights
      /\ disk.cert.version \in Versions /\ disk.key.version \in Versions
      /\ cache.cert \in Version /\ cache.mtimeCert \in Version
      /\ cache.mtimeKey \in Version
      /\ \A v \in Versions : KeyFor[v] \in Versions
  BY DEF TypeOK, IInv, Locals, Sights, File
<1> DEFINE Kept == CacheInv' /\ About(h)' /\ cache'.cert >= cache.cert
<1>7. ASSUME Fail(h), ~since[h].steady PROVE Kept
  <2>1. pc'[h] = "failed" /\ cache' = cache
    BY <1>7 DEF Fail, Return, TypeOK
  <2>2. QED
    BY <1>1, <1>5, <1>6, <1>7, <2>1
       DEF IInv, CacheInv, About, KnowsCert, KnowsKey, HasCert, Served, Failed
<1>8. CASE StatCertFails(h)
  <2>1. ~since[h].steady
    BY <1>6, <1>8 DEF StatCertFails, About, SinceInv
  <2>2. QED
    BY <1>4, <1>7, <1>8, <2>1 DEF StatCertFails, IInv
<1>9. CASE StatKeyFails(h)
  <2>1. ~since[h].steady
    BY <1>6, <1>9 DEF StatKeyFails, About, SinceInv
  <2>2. QED
    BY <1>4, <1>7, <1>9, <2>1 DEF StatKeyFails, IInv
<1>10. CASE LoadCertFails(h)
  <2>1. ~since[h].steady
    BY <1>6, <1>10 DEF LoadCertFails, About, SinceInv
  <2>2. QED
    BY <1>4, <1>7, <1>10, <2>1 DEF LoadCertFails, IInv
<1>11. CASE LoadKeyFails(h)
  <2>1. ASSUME since[h].steady PROVE FALSE
    <3>1. /\ since[h].cert = disk.cert.version
          /\ disk.key.state = "whole"
          /\ KeyFor[disk.cert.version] = disk.key.version
      BY <1>6, <2>1 DEF About, SinceInv
    <3>2. local[h].cert = disk.cert.version
      BY SMTT(60), <1>6, <1>11, <3>1
         DEF LoadKeyFails, About, KnowsCert, HasCert, Locals, Sights
    <3>3. QED
      BY SMTT(60), <1>11, <3>1, <3>2 DEF LoadKeyFails
  <2>2. QED
    BY <1>4, <1>7, <1>11, <2>1 DEF LoadKeyFails, IInv
<1>12. CASE StatCert(h)
  <2>1. /\ pc'[h] = "stat_key" /\ cache' = cache
        /\ local'[h].infoCert = disk.cert.version
    BY <1>12 DEF StatCert, TypeOK
  <2>2. KnowsCert(h)'
    BY <1>1, <1>6, <2>1 DEF KnowsCert, About, SinceInv
  <2>3. About(h)'
    BY <1>5, <2>1, <2>2 DEF About, KnowsKey, HasCert, Served, Failed
  <2>4. CacheInv'
    BY <1>1, <2>1 DEF IInv, CacheInv
  <2>5. QED
    BY <1>4, <1>6, <2>1, <2>3, <2>4 DEF IInv
<1>13. CASE StatKey(h)
  <2>1. /\ pc[h] = "stat_key" /\ pc'[h] = "compare" /\ cache' = cache
        /\ local'[h].infoKey = disk.key.version
        /\ local'[h].infoCert = local[h].infoCert
    BY <1>13 DEF StatKey, TypeOK
  <2>2. KnowsCert(h)' /\ KnowsKey(h)'
    BY <1>1, <1>6, <2>1 DEF KnowsCert, KnowsKey, About, SinceInv
  <2>3. About(h)'
    BY <1>5, <2>1, <2>2 DEF About, HasCert, Served, Failed
  <2>4. CacheInv'
    BY <1>1, <2>1 DEF IInv, CacheInv
  <2>5. QED
    BY <1>4, <1>6, <2>1, <2>3, <2>4 DEF IInv
<1>14. CASE Hit(h)
  <2>1. /\ pc[h] = "compare" /\ pc'[h] = "served" /\ cache' = cache
        /\ local'[h].cert = cache.cert /\ cache.cert # 0
        /\ cache.mtimeCert = local[h].infoCert
        /\ cache.mtimeKey = local[h].infoKey
    BY <1>14 DEF Hit, Current, Return, TypeOK
  <2>2. /\ since[h].cert <= local[h].infoCert
        /\ since[h].key <= local[h].infoKey
        /\ cache.mtimeCert <= cache.cert
        /\ cache.mtimeKey <= KeyFor[cache.cert]
    BY <1>6, <2>1 DEF About, KnowsCert, KnowsKey, IInv, CacheInv
  <2>3. cache.cert >= since[h].cert /\ KeyFor[cache.cert] >= since[h].key
    <3>1. /\ cache.cert \in Int /\ KeyFor[cache.cert] \in Int
          /\ cache.mtimeCert \in Int /\ cache.mtimeKey \in Int
      BY <1>6, <2>1
    <3>2. since[h].cert \in Int /\ since[h].key \in Int
      <4>1. since[h] \in Sights
        BY SMTT(60), <1>6
      <4>2. since[h].cert \in Versions /\ since[h].key \in Versions
        BY <4>1 DEF Sights
      <4>3. QED
        BY <4>2
    <3>3. since[h].cert <= cache.mtimeCert /\ since[h].key <= cache.mtimeKey
      BY <2>1, <2>2
    <3>4. QED
      BY <2>2, <3>1, <3>2, <3>3
  <2>4. Served(h)'
    BY <1>1, <2>1, <2>3 DEF Served
  <2>5. About(h)'
    BY <1>5, <2>1, <2>4 DEF About, KnowsCert, KnowsKey, HasCert, Failed
  <2>6. CacheInv'
    BY <1>1, <2>1 DEF IInv, CacheInv
  <2>7. QED
    BY <1>4, <1>6, <2>1, <2>5, <2>6 DEF IInv
<1>15. CASE Miss(h)
  <2>1. /\ pc[h] = "compare" /\ pc'[h] = "load_cert" /\ cache' = cache
        /\ local' = local
    BY <1>15 DEF Miss, TypeOK
  <2>2. About(h)'
    BY <1>1, <1>5, <1>6, <2>1
       DEF About, KnowsCert, KnowsKey, HasCert, Served, Failed
  <2>3. CacheInv'
    BY <1>1, <2>1 DEF IInv, CacheInv
  <2>4. QED
    BY <1>4, <1>6, <2>1, <2>2, <2>3 DEF IInv
<1>16. CASE LoadCert(h)
  <2>1. /\ pc[h] = "load_cert" /\ pc'[h] = "load_key" /\ cache' = cache
        /\ local'[h].cert = disk.cert.version
        /\ local'[h].infoCert = local[h].infoCert
        /\ local'[h].infoKey = local[h].infoKey
    BY <1>16 DEF LoadCert, TypeOK
  <2>2. KnowsCert(h)' /\ KnowsKey(h)'
    BY <1>1, <1>6, <2>1 DEF KnowsCert, KnowsKey, About
  <2>3. HasCert(h)'
    BY <1>1, <1>6, <2>1 DEF HasCert, KnowsCert, About, IInv, CacheInv
  <2>4. About(h)'
    BY <1>5, <2>1, <2>2, <2>3 DEF About, Served, Failed
  <2>5. CacheInv'
    BY <1>1, <2>1 DEF IInv, CacheInv
  <2>6. QED
    BY <1>4, <1>6, <2>1, <2>4, <2>5 DEF IInv
<1>17. CASE LoadKey(h)
  <2>1. /\ pc[h] = "load_key" /\ pc'[h] = "served"
        /\ local'[h].cert = local[h].cert
        /\ KeyFor[local[h].cert] = disk.key.version
        /\ cache'.cert = local[h].cert
        /\ cache'.mtimeCert = local[h].infoCert
        /\ cache'.mtimeKey = local[h].infoKey
    BY <1>17 DEF LoadKey, Return, TypeOK
  <2>2. /\ since[h].cert <= local[h].infoCert
        /\ local[h].infoCert <= local[h].cert
        /\ local[h].cert <= disk.cert.version
        /\ cache.cert <= local[h].cert
        /\ since[h].key <= disk.key.version
        /\ local[h].infoKey <= disk.key.version
    BY <1>6, <2>1 DEF About, KnowsCert, KnowsKey, HasCert, SinceInv
  <2>3. Served(h)'
    <3>1. /\ local[h].cert \in Int /\ local[h].infoCert \in Int
          /\ since[h].cert \in Int
      <4>1. local[h] \in Locals /\ since[h] \in Sights
        BY <1>6
      <4>2. /\ local[h].cert \in Version /\ local[h].infoCert \in Version
            /\ since[h].cert \in Versions
        BY <4>1 DEF Sights, Locals
      <4>3. QED
        BY <4>2
    <3>2. local'[h].cert >= since[h].cert
      BY <2>1, <2>2, <3>1
    <3>3. KeyFor[local'[h].cert] >= since[h].key
      BY <2>1, <2>2
    <3>4. QED
      BY <1>1, <3>2, <3>3 DEF Served
  <2>4. About(h)'
    BY <1>5, <2>1, <2>3 DEF About, KnowsCert, KnowsKey, HasCert, Failed
  <2>5. CacheInv'
    BY <1>1, <2>1, <2>2 DEF CacheInv
  <2>6. cache'.cert >= cache.cert
    BY <1>6, <2>1, <2>2 DEF Locals
  <2>7. QED
    BY <1>4, <2>4, <2>5, <2>6 DEF IInv
<1>18. QED
  BY <1>8, <1>9, <1>10, <1>11, <1>12, <1>13, <1>14, <1>15, <1>16, <1>17 DEF Step

LEMMA Invariant == Spec => [](TypeOK /\ IInv)
<1>1. Init => IInv
  <2> SUFFICES ASSUME Init PROVE IInv
    OBVIOUS
  <2>1. disk \in [Files -> File]
    BY DEF Init, Files, File
  <2>2. \A h \in Handshakes : SinceInv(h)
    <3>1. /\ disk.cert.version = 1 /\ disk.key.version = 1
          /\ disk.cert.state = "whole" /\ disk.key.state = "whole"
      BY DEF Init
    <3>2. \A h \in Handshakes : since[h] = Seen
      BY DEF Init
    <3>3. Seen.cert = 1 /\ Seen.key = 1
      BY <2>1, <3>1, SeenType
    <3>4. KeyFor[disk.cert.version] = disk.key.version
      BY <3>1
    <3>5. ASSUME NEW h \in Handshakes PROVE SinceInv(h)
      <4>1. since[h].cert = 1 /\ since[h].key = 1
        BY <3>2, <3>3
      <4>2. QED
        BY <3>1, <3>4, <4>1 DEF SinceInv
    <3>6. QED
      BY <3>5
  <2>3. QED
    BY <2>2 DEF Init, IInv, CacheInv, About, KnowsCert,
       KnowsKey, HasCert, Served, Failed
<1>2. TypeOK /\ TypeOK' /\ IInv /\ [Next]_vars => IInv'
  <2> SUFFICES ASSUME TypeOK, TypeOK', IInv, [Next]_vars PROVE IInv'
    OBVIOUS
  <2>1. CASE UNCHANGED vars
    <3>1. CacheInv'
      BY <2>1 DEF vars, IInv, CacheInv
    <3>2. \A h \in Handshakes : About(h)'
      BY <2>1, Bystander DEF vars
    <3>3. QED
      BY <3>1, <3>2 DEF IInv
  <2>2. QED
    BY <2>1, Operated, Entered, Stepped DEF Next, Files
<1>3. QED
  BY <1>1, <1>2, TypeCorrect, PTL DEF Spec

\* No handshake is served what had been replaced when it began
\* (getCertificate reads the modification times before the files).
THEOREM ServesFresh == Spec => []NeverStale
<1>1. IInv => NeverStale
  BY DEF IInv, About, Served, NeverStale
<1>2. QED
  BY <1>1, Invariant, PTL

\* A handshake that fails has a reason in the files.
THEOREM FailuresAreFounded == Spec => []FailsForAReason
<1>1. IInv => FailsForAReason
  BY DEF IInv, About, Failed, FailsForAReason
<1>2. QED
  BY <1>1, Invariant, PTL

\* The certificate in the cache never gets older (mu).
THEOREM CacheNeverBack == Spec => NeverBack
<1>1. TypeOK /\ TypeOK' /\ IInv /\ [Next]_vars => [cache'.cert >= cache.cert]_vars
  <2> SUFFICES ASSUME TypeOK, TypeOK', IInv, Next PROVE cache'.cert >= cache.cert
    OBVIOUS
  <2>1. CASE UNCHANGED cache
    BY <2>1 DEF TypeOK
  <2>2. CASE \E h \in Handshakes : Step(h)
    BY <2>2, Stepped
  <2>3. QED
    BY <2>1, <2>2 DEF Next, BeginWrite, EndWrite, Remove, Hello, Lock
<1>2. QED
  BY <1>1, TypeCorrect, Invariant, PTL DEF Spec, NeverBack
=============================================================================
