----------------------------- MODULE LinksProofs ------------------------------
(***************************************************************************)
(* What holds for any number of connections and of the catalogue's rows:   *)
(* the keyrings serve every connection while keys are rotated and removed  *)
(* (Connections), and ads and ERIR registrations have their types and keep *)
(* their order (AdUrls). The connections' invariant says which keyrings    *)
(* can read which rows at each step of a rotation, and what a fetch may    *)
(* still receive.                                                          *)
(***************************************************************************)
EXTENDS Connections, AdUrls, TLAPS

-----------------------------------------------------------------------------
(* Connections *)

\* A keyring has an active key if it has keys at all.
WellKeyed(keyring) == IF keyring.keys = {} THEN keyring.active = None ELSE keyring.active \in keyring.keys

RotationRun == [ring : Keyring, read : [Links -> Link \cup {None}], settled : BOOLEAN]

KeysTyped ==
  /\ env \in Keyring /\ WellKeyed(env)
  /\ ring \in [Servers -> Keyring \cup {None}]
  /\ link \in [Links -> Link \cup {None}]
  /\ making \in [Servers -> Link \cup {None}]
  /\ swept \in BOOLEAN
  /\ \A s \in Servers : ring[s] # None =>
       WellKeyed(ring[s]) /\ ring[s].serial <= env.serial
  /\ rotation \in [Rotators -> RotationRun \cup {None}]
  /\ \A o \in Rotators : rotation[o] # None =>
       /\ WellKeyed(rotation[o].ring) /\ rotation[o].ring.serial <= env.serial
       /\ rotation[o].ring.keys # {}

\* What is there, or may still be encrypted, can be read with the keys of now:
\* a process in the middle of a creation keeps the keyring it encrypted with.
Covered ==
  /\ \A l \in Links : link[l] # None => CanDecrypt(env, link[l].kid)
  /\ \A s \in Servers : ring[s] # None => CanDecrypt(env, MaybeEncrypt(ring[s]))
  /\ \A s \in Servers : making[s] # None => ring[s] # None /\ making[s].kid = MaybeEncrypt(ring[s])
  /\ \A o \in Rotators : rotation[o] # None =>
       /\ CanDecrypt(env, MaybeEncrypt(rotation[o].ring))
       /\ \A l \in Links : rotation[o].read[l] # None => link[l] # None

\* A rotation the operator will trust, if it has no failures.
Trusted(o) == rotation[o] # None /\ rotation[o].settled /\ rotation[o].ring = env

\* From its beginning to the next change of the environment no process and no
\* other rotation has other keys than those of now; so a connection that it
\* did not read, or that needed no rotation, has the active one, and once it
\* has committed all have.
OneKeyring ==
  /\ swept \/ (\E o \in Rotators : Trusted(o)) =>
       /\ env.keys # {}
       /\ \A s \in Servers : ring[s] \in {None, env}
       /\ \A o \in Rotators : rotation[o] # None => rotation[o].ring = env
  /\ \A o \in Rotators : Trusted(o) =>
       \A l \in Links : link[l] # None =>
         \/ link[l].kid = env.active
         \/ rotation[o].read[l] # None /\ rotation[o].read[l].kid # env.active
  /\ swept => \A l \in Links : link[l] # None => link[l].kid = env.active

FetchRun == [client : Clients, answers : Seq(200..599), end : Ends]

\* A fetch that goes on has had no answer but those it may wait on.
StillWaits(f) ==
  /\ Len(f.answers) <= MaxTries
  /\ f.end = "none" =>
       /\ Len(f.answers) < MaxTries
       /\ \A i \in 1..Len(f.answers) : f.answers[i] # 200 /\ Retries(f.client, f.answers[i])

\* FetchesEndRight, of one fetch.
EndsRight(f) ==
  LET a == f.answers
      last == a[Len(a)]
  IN /\ \A i \in 1..(Len(a) - 1) : a[i] \notin {200, 400}
     /\ f.end = "report" /\ a # <<>> => last = 200
     /\ f.end = "empty" => Len(a) = MaxTries /\ last \in Unready
     /\ f.end = "raised" /\ a # <<>> /\ last \in Unready => Len(a) = MaxTries

Waiting ==
  /\ fetch \in [Servers -> FetchRun \cup {None}]
  /\ \A s \in Servers : fetch[s] # None => StillWaits(fetch[s])

KeysIInv == KeysTyped /\ Covered /\ OneKeyring
FetchIInv == Waiting /\ \A s \in Servers : fetch[s] # None => EndsRight(fetch[s])

-----------------------------------------------------------------------------
(* Connections: lemmas about keyrings, and the steps *)

\* A process that uses its keyring has one: its own, or that of now.
LEMMA RingUsed ==
  ASSUME ConnectionsAssumption, KeysTyped, NEW s \in Servers, UsesRing(s)
  PROVE  /\ ring' \in [Servers -> Keyring \cup {None}]
         /\ RingOf(s) \in Keyring /\ RingOf(s) # None /\ ring'[s] = RingOf(s)
         /\ RingOf(s) = env \/ (ring[s] # None /\ RingOf(s) = ring[s])
         /\ \A t \in Servers \ {s} : ring'[t] = ring[t]
<1>1. RingOf(s) \in Keyring /\ (RingOf(s) = env \/ (ring[s] # None /\ RingOf(s) = ring[s]))
  BY DEF RingOf, KeysTyped
<1>2. RingOf(s) # None
  BY <1>1 DEF ConnectionsAssumption
<1> QED
  BY <1>1, <1>2 DEF UsesRing, KeysTyped

\* What the active key of a keyring encrypts, the keyring can read.
LEMMA OwnKey ==
  ASSUME NEW keyring, WellKeyed(keyring)
  PROVE  CanDecrypt(keyring, MaybeEncrypt(keyring))
BY DEF WellKeyed, CanDecrypt, MaybeEncrypt

\* What a use of the keyring by one process leaves true, of the rings alone.
LEMMA RingsFine ==
  ASSUME ConnectionsAssumption, KeysIInv, NEW s \in Servers, UsesRing(s),
         env' = env, rotation' = rotation, swept' = swept
  PROVE  /\ \A t \in Servers : ring'[t] # None =>
              /\ WellKeyed(ring'[t]) /\ ring'[t].serial <= env.serial
              /\ CanDecrypt(env, MaybeEncrypt(ring'[t]))
         /\ swept \/ (\E o \in Rotators : Trusted(o)) => \A t \in Servers : ring'[t] \in {None, env}
<1>1. /\ RingOf(s) # None /\ ring'[s] = RingOf(s)
      /\ RingOf(s) = env \/ (ring[s] # None /\ RingOf(s) = ring[s])
      /\ \A t \in Servers \ {s} : ring'[t] = ring[t]
  BY RingUsed DEF KeysIInv
<1>2. WellKeyed(env) /\ env.serial <= env.serial /\ CanDecrypt(env, MaybeEncrypt(env))
  BY OwnKey DEF KeysIInv, KeysTyped, Keyring
<1>3. \A t \in Servers : ring'[t] = env \/ ring'[t] = ring[t]
  BY <1>1
<1> QED
  BY <1>2, <1>3 DEF KeysIInv, KeysTyped, Covered, OneKeyring

LEMMA InitConnections == ConnectionsAssumption /\ ConnectionsInit => KeysIInv /\ FetchIInv
<1> SUFFICES ASSUME ConnectionsAssumption, ConnectionsInit PROVE KeysIInv /\ FetchIInv
  OBVIOUS
<1>1. env \in Keyring /\ WellKeyed(env)
  BY DEF ConnectionsInit, Keyring, WellKeyed, ConnectionsAssumption
<1>2. KeysTyped
  BY <1>1 DEF KeysTyped, ConnectionsInit
<1>3. Covered /\ OneKeyring
  BY DEF Covered, OneKeyring, Trusted, ConnectionsInit
<1>4. FetchIInv
  BY DEF FetchIInv, Waiting, ConnectionsInit
<1> QED
  BY <1>2, <1>3, <1>4 DEF KeysIInv

\* A change of the environment: nothing that was read is trusted any more.
LEMMA ChangedKeys ==
  ASSUME ConnectionsAssumption, KeysIInv, NEW K \in SUBSET Kids, NEW k \in K,
         Change([env EXCEPT !.keys = K, !.active = k]),
         \A kid \in Kids \cup {Plain} :
           \/ \E l \in Links : link[l] # None /\ kid = link[l].kid
           \/ \E s \in Servers : ring[s] # None /\ kid = MaybeEncrypt(ring[s])
           \/ \E o \in Rotators : rotation[o] # None /\ kid = MaybeEncrypt(rotation[o].ring)
           => kid = Plain \/ kid \in K
  PROVE  KeysIInv'
<1>1. /\ env'.keys = K /\ env'.active = k /\ env'.serial = env.serial + 1 /\ env' \in Keyring
      /\ swept' = FALSE /\ ring' = ring /\ link' = link /\ making' = making /\ rotation' = rotation
  <2>1. env \in Keyring /\ env.serial \in 0..MaxChanges /\ env.serial < MaxChanges /\ MaxChanges \in Nat
    BY DEF Change, KeysIInv, KeysTyped, Keyring, ConnectionsAssumption
  <2>2. env' = [env EXCEPT !.keys = K, !.active = k, !.serial = env.serial + 1]
    BY <2>1 DEF Change, Keyring
  <2>3. env.serial + 1 \in 0..MaxChanges
    BY <2>1
  <2>4. env' = [keys |-> K, active |-> k, serial |-> env.serial + 1]
    BY <2>1, <2>2 DEF Keyring
  <2> QED
    BY <2>3, <2>4 DEF Change, Keyring
<1>2. env.serial \in Nat /\ \A keyring \in Keyring : keyring.serial \in Nat
  BY DEF KeysIInv, KeysTyped, Keyring
<1>3. \A s \in Servers : ring[s] # None => ring[s] \in Keyring
  BY DEF KeysIInv, KeysTyped
<1>4. \A o \in Rotators : rotation[o] # None => rotation[o] \in RotationRun /\ rotation[o].ring \in Keyring
  BY DEF KeysIInv, KeysTyped, RotationRun
<1>5. KeysTyped'
  <2>1. WellKeyed(env')
    BY <1>1 DEF WellKeyed
  <2>2. \A s \in Servers : ring[s] # None => WellKeyed(ring[s]) /\ ring[s].serial <= env'.serial
    BY <1>1, <1>2, <1>3 DEF KeysIInv, KeysTyped
  <2>3. \A o \in Rotators : rotation[o] # None =>
          WellKeyed(rotation[o].ring) /\ rotation[o].ring.serial <= env'.serial /\ rotation[o].ring.keys # {}
    BY <1>1, <1>2, <1>4 DEF KeysIInv, KeysTyped
  <2> QED
    BY <1>1, <2>1, <2>2, <2>3 DEF KeysIInv, KeysTyped
<1>6. Covered'
  <2>1. \A keyring \in Keyring : WellKeyed(keyring) => MaybeEncrypt(keyring) \in Kids \cup {Plain}
    BY DEF Keyring, WellKeyed, MaybeEncrypt
  <2>2. \A l \in Links : link[l] # None => link[l].kid \in Kids \cup {Plain}
    BY DEF KeysIInv, KeysTyped, Link
  <2> QED
    BY <1>1, <1>3, <1>4, <2>1, <2>2 DEF KeysIInv, KeysTyped, Covered, CanDecrypt
<1>7. OneKeyring'
  <2>1. \A o \in Rotators : ~Trusted(o)'
    BY <1>1, <1>2, <1>4 DEF Trusted, KeysIInv, KeysTyped
  <2> QED
    BY <1>1, <2>1 DEF OneKeyring
<1> QED
  BY <1>5, <1>6, <1>7 DEF KeysIInv

LEMMA KeysChange == ConnectionsAssumption /\ KeysIInv /\ (AddKeys \/ DropKeys) => KeysIInv'
<1> SUFFICES ASSUME ConnectionsAssumption, KeysIInv, AddKeys \/ DropKeys PROVE KeysIInv'
  OBVIOUS
<1>1. CASE AddKeys
  <2>1. PICK K \in SUBSET Kids : \E k \in K : env.keys \subseteq K /\ Change([env EXCEPT !.keys = K, !.active = k])
    BY <1>1 DEF AddKeys
  <2>2. PICK k \in K : env.keys \subseteq K /\ Change([env EXCEPT !.keys = K, !.active = k])
    BY <2>1
  <2>3. \A kid \in Kids \cup {Plain} :
           \/ \E l \in Links : link[l] # None /\ kid = link[l].kid
           \/ \E s \in Servers : ring[s] # None /\ kid = MaybeEncrypt(ring[s])
           \/ \E o \in Rotators : rotation[o] # None /\ kid = MaybeEncrypt(rotation[o].ring)
           => kid = Plain \/ kid \in K
    BY <2>2 DEF KeysIInv, Covered, CanDecrypt
  <2> QED
    BY <2>2, <2>3, ChangedKeys
<1>2. CASE DropKeys
  <2> DEFINE k == env.active
             K == {k}
  <2>1. swept /\ env.keys # {} /\ k \in env.keys
    BY <1>2 DEF DropKeys, KeysIInv, KeysTyped, OneKeyring, WellKeyed
  <2>2. K \in SUBSET Kids /\ k \in K
    BY <2>1 DEF KeysIInv, KeysTyped, Keyring
  <2>3. env \in Keyring /\ Change([env EXCEPT !.keys = K])
    BY <1>2 DEF DropKeys, KeysIInv, KeysTyped
  <2>4. [env EXCEPT !.keys = K] = [env EXCEPT !.keys = K, !.active = k]
    BY <2>3 DEF Keyring
  <2>5. Change([env EXCEPT !.keys = K, !.active = k])
    BY <2>3, <2>4
  <2>6. MaybeEncrypt(env) = k
    BY <2>1 DEF MaybeEncrypt
  <2>7. \A kid \in Kids \cup {Plain} :
           \/ \E l \in Links : link[l] # None /\ kid = link[l].kid
           \/ \E s \in Servers : ring[s] # None /\ kid = MaybeEncrypt(ring[s])
           \/ \E o \in Rotators : rotation[o] # None /\ kid = MaybeEncrypt(rotation[o].ring)
           => kid = Plain \/ kid \in K
    BY <2>1, <2>6 DEF KeysIInv, OneKeyring
  <2> HIDE DEF K
  <2> QED
    BY <2>2, <2>5, <2>7, ChangedKeys
<1> QED
  BY <1>1, <1>2

\* A rotation begins, ends, or is lost.
LEMMA RotationSteps ==
  ASSUME ConnectionsAssumption, KeysIInv, NEW o \in Rotators,
         StartRotation(o) \/ CommitRotation(o) \/ LoseRotation(o)
  PROVE  KeysIInv'
<1> USE DEF KeysIInv
<1>1. CASE StartRotation(o)
  <2> DEFINE run == [ring |-> env, read |-> link, settled |-> Settled]
  <2>1. /\ rotation[o] = None /\ env.keys # {} /\ rotation' = [rotation EXCEPT ![o] = run]
        /\ env' = env /\ ring' = ring /\ link' = link /\ making' = making /\ swept' = swept
    BY <1>1 DEF StartRotation
  <2>2. run \in RotationRun /\ run.ring = env /\ run.read = link /\ run.settled = Settled
    BY DEF RotationRun, KeysTyped, Settled
  <2> HIDE DEF run
  <2>3. rotation'[o] = run /\ \A p \in Rotators \ {o} : rotation'[p] = rotation[p]
    BY <2>1 DEF KeysTyped
  <2>4. KeysTyped'
    <3>1. rotation' \in [Rotators -> RotationRun \cup {None}]
      BY <2>1, <2>2 DEF KeysTyped
    <3>2. env.serial <= env.serial
      BY DEF KeysTyped, Keyring
    <3>3. \A p \in Rotators : rotation'[p] # None =>
            WellKeyed(rotation'[p].ring) /\ rotation'[p].ring.serial <= env.serial /\ rotation'[p].ring.keys # {}
      BY <2>1, <2>2, <2>3, <3>2 DEF KeysTyped
    <3> QED
      BY <2>1, <3>1, <3>3 DEF KeysTyped
  <2>5. Covered'
    <3>1. CanDecrypt(env, MaybeEncrypt(env))
      BY OwnKey DEF KeysTyped
    <3> QED
      BY <2>1, <2>2, <2>3, <3>1 DEF Covered
  <2>6. OneKeyring'
    <3>1. \A p \in Rotators \ {o} : Trusted(p)' = Trusted(p)
      BY <2>1, <2>3 DEF Trusted
    <3>2. Trusted(o)' => Settled
      BY <2>2, <2>3 DEF Trusted
    <3>3. swept' \/ (\E p \in Rotators : Trusted(p)') =>
            /\ env.keys # {}
            /\ \A s \in Servers : ring[s] \in {None, env}
            /\ \A p \in Rotators : rotation'[p] # None => rotation'[p].ring = env
      BY <2>1, <2>2, <2>3, <3>1, <3>2 DEF OneKeyring, Settled
    <3>4. Trusted(o)' => \A l \in Links : link[l] # None =>
            link[l].kid = env.active \/ (rotation'[o].read[l] # None /\ rotation'[o].read[l].kid # env.active)
      BY <2>2, <2>3
    <3> QED
      BY <2>1, <2>3, <3>1, <3>3, <3>4 DEF OneKeyring
  <2> QED
    BY <2>4, <2>5, <2>6
<1>2. CASE LoseRotation(o)
  <2>1. /\ rotation' = [rotation EXCEPT ![o] = None]
        /\ env' = env /\ ring' = ring /\ link' = link /\ making' = making /\ swept' = swept
    BY <1>2 DEF LoseRotation
  <2>2. \A p \in Rotators : rotation'[p] = None \/ rotation'[p] = rotation[p]
    BY <2>1 DEF KeysTyped
  <2>3. \A p \in Rotators : Trusted(p)' => Trusted(p)
    BY <2>1, <2>2 DEF Trusted
  <2>4. KeysTyped' /\ Covered'
    BY <2>1, <2>2 DEF KeysTyped, Covered
  <2>5. OneKeyring'
    BY <2>1, <2>2, <2>3 DEF OneKeyring, Trusted
  <2> QED
    BY <2>4, <2>5
<1>3. CASE CommitRotation(o)
  <2> DEFINE r == rotation[o]
             read == {l \in Links : r.read[l] # None}
             failed == {l \in read : ~CanDecrypt(r.ring, r.read[l].kid)}
             new(l) == RotateWrapper(r.ring, r.read[l].kid)
             key == MaybeEncrypt(r.ring)
  <2>1. /\ rotation[o] # None /\ rotation' = [rotation EXCEPT ![o] = None]
        /\ env' = env /\ ring' = ring /\ making' = making
        /\ swept' = (swept \/ (failed = {} /\ r.settled /\ r.ring = env))
        /\ link' = [l \in Links |->
             IF l \in read \ failed /\ new(l) # r.read[l].kid THEN [link[l] EXCEPT !.kid = new(l)] ELSE link[l]]
    BY <1>3 DEF CommitRotation
  <2>2. \A p \in Rotators : rotation'[p] = None \/ (p # o /\ rotation'[p] = rotation[p])
    BY <2>1 DEF KeysTyped
  <2>3. \A p \in Rotators : Trusted(p)' => Trusted(p) /\ p # o
    BY <2>1, <2>2 DEF Trusted
  <2>4. r \in RotationRun /\ WellKeyed(r.ring) /\ r.ring.keys # {} /\ key = r.ring.active /\ key \in Kids
    BY <2>1 DEF KeysTyped, RotationRun, Keyring, WellKeyed, MaybeEncrypt
  <2>5. \A l \in Links : new(l) = key
    BY <2>4 DEF RotateWrapper
  <2>6. CanDecrypt(env, key) /\ \A l \in Links : r.read[l] # None => link[l] # None
    BY <2>1 DEF Covered
  <2>7. \A l \in Links : \/ link'[l] = link[l] /\ ~(l \in read \ failed /\ key # r.read[l].kid)
                         \/ /\ link[l] # None /\ r.read[l] # None /\ link[l] \in Link
                            /\ link'[l] = [link[l] EXCEPT !.kid = key]
    BY <2>1, <2>5, <2>6 DEF KeysTyped
  <2>8. \A l \in Links : link[l] # None /\ link[l] \in Link =>
          /\ [link[l] EXCEPT !.kid = key] \in Link /\ [link[l] EXCEPT !.kid = key].kid = key
          /\ [link[l] EXCEPT !.kid = key] # None
    BY <2>4 DEF Link, ConnectionsAssumption
  <2>9. swept' \in BOOLEAN
    BY <2>1 DEF KeysTyped
  <2>10. swept' => swept \/ (failed = {} /\ Trusted(o))
    BY <2>1 DEF Trusted
  <2>11. link' \in [Links -> Link \cup {None}]
    <3>1. \A l \in Links : link'[l] \in Link \cup {None}
      BY <2>7, <2>8 DEF KeysTyped
    <3> QED
      BY <2>1, <3>1
  <2>12. Trusted(o) => r.ring = env /\ \A l \in Links : link[l] # None =>
           link[l].kid = env.active \/ (r.read[l] # None /\ r.read[l].kid # env.active)
    BY DEF OneKeyring, Trusted
  <2>13. \A l \in Links : l \in read <=> r.read[l] # None
    OBVIOUS
  <2> HIDE DEF r, key, new, read
  <2>14. KeysTyped'
    BY <2>1, <2>2, <2>9, <2>11 DEF KeysTyped
  <2>15. Covered'
    <3>1. \A l \in Links : link'[l] # None => CanDecrypt(env, link'[l].kid)
      BY <2>6, <2>7, <2>8 DEF Covered
    <3>2. \A l \in Links : link[l] # None => link'[l] # None
      BY <2>7, <2>8
    <3> QED
      BY <2>1, <2>2, <3>1, <3>2 DEF Covered
  <2>16. OneKeyring'
    <3>1. swept \/ (\E p \in Rotators : Trusted(p)) => key = env.active
      BY <2>1, <2>4 DEF OneKeyring, r
    <3>2. swept \/ (\E p \in Rotators : Trusted(p)) => \A l \in Links :
            link'[l] = link[l] \/ (link[l] # None /\ link'[l].kid = env.active)
      BY <2>7, <2>8, <3>1
    <3>3. swept' \/ (\E p \in Rotators : Trusted(p)') => swept \/ (\E p \in Rotators : Trusted(p))
      BY <2>3, <2>10
    <3>4. \A p \in Rotators : Trusted(p)' => \A l \in Links : link'[l] # None =>
            link'[l].kid = env.active \/ (rotation'[p].read[l] # None /\ rotation'[p].read[l].kid # env.active)
      <4> SUFFICES ASSUME NEW p \in Rotators, Trusted(p)', NEW l \in Links, link'[l] # None
                   PROVE link'[l].kid = env.active \/ (rotation'[p].read[l] # None /\ rotation'[p].read[l].kid # env.active)
        OBVIOUS
      <4>1. Trusted(p) /\ rotation'[p] = rotation[p]
        BY <2>2, <2>3 DEF Trusted
      <4> QED
        BY <3>2, <4>1 DEF OneKeyring
    <3>5. swept' => \A l \in Links : link'[l] # None => link'[l].kid = env.active
      <4>1. CASE swept
        BY <3>2, <4>1 DEF OneKeyring
      <4>2. CASE failed = {} /\ Trusted(o)
        <5> SUFFICES ASSUME NEW l \in Links, link'[l] # None PROVE link'[l].kid = env.active
          OBVIOUS
        <5>1. key = env.active
          BY <3>1, <4>2
        <5>2. CASE link'[l] = link[l] /\ ~(l \in read \ failed /\ key # r.read[l].kid)
          BY <2>12, <2>13, <4>2, <5>1, <5>2
        <5>3. CASE link[l] # None /\ link[l] \in Link /\ link'[l] = [link[l] EXCEPT !.kid = key]
          BY <2>8, <5>1, <5>3
        <5> QED
          BY <2>7, <5>2, <5>3
      <4> QED
        BY <2>10, <4>1, <4>2
    <3>6. (swept' \/ (\E p \in Rotators : Trusted(p)')) =>
            /\ env.keys # {}
            /\ \A s \in Servers : ring[s] \in {None, env}
            /\ \A p \in Rotators : rotation'[p] # None => rotation'[p].ring = env
      BY <2>2, <3>3 DEF OneKeyring
    <3> QED
      BY <2>1, <3>4, <3>5, <3>6 DEF OneKeyring
  <2> QED
    BY <2>14, <2>15, <2>16
<1> QED
  BY <1>1, <1>2, <1>3

\* What a process does with connections and its keyring.
LEMMA LinkSteps ==
  ASSUME ConnectionsAssumption, KeysIInv, NEW s \in Servers,
         \/ \E p \in LinkPlatforms, creds \in CredKinds, dev \in BOOLEAN : CreateConnection(s, p, creds, dev)
         \/ CommitConnection(s)
         \/ \E l \in Links : CheckConnection(s, l)
         \/ UsesRing(s) /\ UNCHANGED <<env, link, making, rotation, swept>>
         \/ Restart(s)
  PROVE  KeysIInv'
<1> USE DEF KeysIInv
<1>1. ASSUME NEW p \in LinkPlatforms, NEW creds \in CredKinds, NEW dev \in BOOLEAN,
             CreateConnection(s, p, creds, dev)
      PROVE KeysIInv'
  <2> DEFINE made == [platform |-> p, creds |-> Exchanged(p, creds),
                      kid |-> MaybeEncrypt(RingOf(s)), status |-> "active"]
  <2>1. /\ UsesRing(s) /\ making' = [making EXCEPT ![s] = made]
        /\ env' = env /\ link' = link /\ rotation' = rotation /\ swept' = swept
    BY <1>1 DEF CreateConnection
  <2>2. /\ ring' \in [Servers -> Keyring \cup {None}]
        /\ RingOf(s) \in Keyring /\ RingOf(s) # None /\ ring'[s] = RingOf(s)
        /\ RingOf(s) = env \/ (ring[s] # None /\ RingOf(s) = ring[s])
        /\ \A t \in Servers \ {s} : ring'[t] = ring[t]
    BY <2>1, RingUsed
  <2>3. /\ \A t \in Servers : ring'[t] # None =>
              /\ WellKeyed(ring'[t]) /\ ring'[t].serial <= env.serial
              /\ CanDecrypt(env, MaybeEncrypt(ring'[t]))
        /\ swept \/ (\E o \in Rotators : Trusted(o)) => \A t \in Servers : ring'[t] \in {None, env}
    BY <2>1, RingsFine
  <2>4. MaybeEncrypt(RingOf(s)) \in Kids \cup {Plain}
    BY <2>2, <2>3 DEF MaybeEncrypt, WellKeyed, Keyring
  <2>5. made \in Link /\ made.kid = MaybeEncrypt(RingOf(s))
    BY <2>4 DEF Link, Exchanged, CredKinds
  <2> HIDE DEF made
  <2>6. making' \in [Servers -> Link \cup {None}] /\ making'[s] = made
        /\ \A t \in Servers \ {s} : making'[t] = making[t]
    BY <2>1, <2>5 DEF KeysTyped
  <2>7. KeysTyped'
    BY <2>1, <2>2, <2>3, <2>6 DEF KeysTyped
  <2>8. Covered'
    BY <2>1, <2>2, <2>3, <2>5, <2>6 DEF Covered
  <2>9. OneKeyring'
    BY <2>1, <2>3 DEF OneKeyring, Trusted
  <2> QED
    BY <2>7, <2>8, <2>9
<1>2. CASE CommitConnection(s)
  <2>1. /\ making[s] # None /\ making' = [making EXCEPT ![s] = None]
        /\ env' = env /\ ring' = ring /\ rotation' = rotation /\ swept' = swept
    BY <1>2 DEF CommitConnection
  <2>2. PICK l \in Links : link[l] = None /\ link' = [link EXCEPT ![l] = making[s]]
    BY <1>2 DEF CommitConnection
  <2>3. /\ ring[s] # None /\ making[s].kid = MaybeEncrypt(ring[s]) /\ making[s] \in Link
        /\ CanDecrypt(env, making[s].kid)
    BY <2>1 DEF KeysTyped, Covered
  <2>4. link'[l] = making[s] /\ \A m \in Links \ {l} : link'[m] = link[m]
    BY <2>2 DEF KeysTyped
  <2>5. KeysTyped'
    BY <2>1, <2>2, <2>3 DEF KeysTyped
  <2>6. Covered'
    BY <2>1, <2>2, <2>3, <2>4 DEF Covered, KeysTyped
  <2>7. swept \/ (\E o \in Rotators : Trusted(o)) => making[s].kid = env.active
    BY <2>3 DEF OneKeyring, MaybeEncrypt
  <2>8. \A o \in Rotators : Trusted(o)' = Trusted(o)
    BY <2>1 DEF Trusted
  <2>9. OneKeyring'
    BY <2>1, <2>4, <2>7, <2>8 DEF OneKeyring
  <2> QED
    BY <2>5, <2>6, <2>9
<1>3. ASSUME UsesRing(s), env' = env, making' = making, rotation' = rotation, swept' = swept,
             link' \in [Links -> Link \cup {None}],
             \A l \in Links : (link'[l] = None <=> link[l] = None) /\ (link[l] # None => link'[l].kid = link[l].kid)
      PROVE KeysIInv'
  <2>1. /\ ring' \in [Servers -> Keyring \cup {None}]
        /\ RingOf(s) \in Keyring /\ RingOf(s) # None /\ ring'[s] = RingOf(s)
        /\ RingOf(s) = env \/ (ring[s] # None /\ RingOf(s) = ring[s])
        /\ \A t \in Servers \ {s} : ring'[t] = ring[t]
    BY <1>3, RingUsed
  <2>2. /\ \A t \in Servers : ring'[t] # None =>
              /\ WellKeyed(ring'[t]) /\ ring'[t].serial <= env.serial
              /\ CanDecrypt(env, MaybeEncrypt(ring'[t]))
        /\ swept \/ (\E o \in Rotators : Trusted(o)) => \A t \in Servers : ring'[t] \in {None, env}
    BY <1>3, RingsFine
  <2>3. KeysTyped'
    BY <1>3, <2>1, <2>2 DEF KeysTyped
  <2>4. ring[s] # None => ring'[s] = ring[s]
    BY <2>1 DEF RingOf
  <2>5. Covered'
    BY <1>3, <2>1, <2>2, <2>4 DEF Covered
  <2>6. \A o \in Rotators : Trusted(o)' = Trusted(o)
    BY <1>3 DEF Trusted
  <2>7. OneKeyring'
    BY <1>3, <2>2, <2>6 DEF OneKeyring
  <2> QED
    BY <2>3, <2>5, <2>7
<1>4. ASSUME NEW l \in Links, CheckConnection(s, l) PROVE KeysIInv'
  <2>1. /\ link[l] # None /\ UsesRing(s)
        /\ env' = env /\ making' = making /\ rotation' = rotation /\ swept' = swept
    BY <1>4 DEF CheckConnection
  <2>2. PICK st \in {"active", "error"} : link' = link \/ link' = [link EXCEPT ![l].status = st]
    BY <1>4 DEF CheckConnection
  <2>3. link[l] \in Link
    BY <2>1 DEF KeysTyped
  <2>4. /\ [link[l] EXCEPT !.status = st] \in Link /\ [link[l] EXCEPT !.status = st].kid = link[l].kid
        /\ [link[l] EXCEPT !.status = st] # None
    BY <2>3 DEF Link, ConnectionsAssumption
  <2>5. link' \in [Links -> Link \cup {None}]
    BY <2>2, <2>4 DEF KeysTyped
  <2>6. \A m \in Links : link'[m] = link[m] \/ (m = l /\ link'[m] = [link[l] EXCEPT !.status = st])
    BY <2>2 DEF KeysTyped
  <2>7. \A m \in Links : (link'[m] = None <=> link[m] = None) /\ (link[m] # None => link'[m].kid = link[m].kid)
    BY <2>1, <2>4, <2>6
  <2> QED
    BY <1>3, <2>1, <2>5, <2>7
<1>5. CASE UsesRing(s) /\ UNCHANGED <<env, link, making, rotation, swept>>
  <2>1. link' \in [Links -> Link \cup {None}] /\ link' = link
    BY <1>5 DEF KeysTyped
  <2> QED
    BY <1>3, <1>5, <2>1
<1>6. CASE Restart(s)
  <2>1. /\ ring' = [ring EXCEPT ![s] = None] /\ making' = [making EXCEPT ![s] = None]
        /\ env' = env /\ link' = link /\ rotation' = rotation /\ swept' = swept
    BY <1>6 DEF Restart
  <2>2. \A t \in Servers : \/ ring'[t] = ring[t] /\ making'[t] = making[t]
                           \/ ring'[t] = None /\ making'[t] = None
    BY <2>1 DEF KeysTyped
  <2>3. KeysTyped' /\ Covered'
    BY <2>1, <2>2 DEF KeysTyped, Covered
  <2>4. OneKeyring'
    BY <2>1, <2>2 DEF OneKeyring, Trusted
  <2> QED
    BY <2>3, <2>4
<1> QED
  BY <1>1, <1>2, <1>4, <1>5, <1>6

\* What a fetch becomes when an answer is added.
HeardOf(f, code, end) == [f EXCEPT !.answers = Append(@, code), !.end = end]

LEMMA AnsweredRun ==
  ASSUME NEW f \in FetchRun, NEW code \in 200..599, NEW end \in Ends
  PROVE  /\ HeardOf(f, code, end) \in FetchRun
         /\ HeardOf(f, code, end).client = f.client
         /\ HeardOf(f, code, end).answers = Append(f.answers, code)
         /\ HeardOf(f, code, end).end = end
<1> DEFINE codes == 200..599
           answers == Seq(codes)
           b == Append(f.answers, code)
<1>1. FetchRun = [client : Clients, answers : answers, end : Ends]
  BY DEF FetchRun
<1>2. HeardOf(f, code, end) = [f EXCEPT !.answers = b, !.end = end]
  BY DEF HeardOf
<1> HIDE DEF codes, answers
<1>3. f.answers \in answers
  BY <1>1
<1>4. b \in answers
  BY <1>3 DEF answers, codes
<1> HIDE DEF b
<1> QED
  BY <1>1, <1>2, <1>4 DEF b

\* It ends right if it is asked again only after an answer it may wait on, and
\* before the last try.
LEMMA AnswerEndsRight ==
  ASSUME ConnectionsAssumption, NEW f \in FetchRun, StillWaits(f), EndsRight(f), f.end = "none",
         NEW code \in 200..599, NEW end \in Ends,
         end = "none" => /\ Len(f.answers) + 1 # MaxTries
                         /\ code # 200 /\ Retries(f.client, code),
         end = "report" => code = 200,
         end = "empty" => Len(f.answers) + 1 = MaxTries /\ code \in Unready,
         end = "raised" /\ code \in Unready => Len(f.answers) + 1 = MaxTries
  PROVE  StillWaits(HeardOf(f, code, end)) /\ EndsRight(HeardOf(f, code, end))
<1>0. /\ HeardOf(f, code, end) \in FetchRun
      /\ HeardOf(f, code, end).client = f.client
      /\ HeardOf(f, code, end).answers = Append(f.answers, code)
      /\ HeardOf(f, code, end).end = end
  BY ONLY AnsweredRun, f \in FetchRun, code \in 200..599, end \in Ends
<1> DEFINE a == f.answers
           g == HeardOf(f, code, end)
           b == g.answers
<1>1. a \in Seq(200..599) /\ Len(a) \in Nat /\ MaxTries \in Nat
  BY DEF FetchRun, ConnectionsAssumption
<1>2. Len(a) < MaxTries /\ \A i \in 1..Len(a) : a[i] # 200 /\ Retries(f.client, a[i])
  BY DEF StillWaits
<1>3. b = Append(a, code) /\ g.client = f.client /\ g.end = end
  BY <1>0
<1> HIDE DEF g
<1>4. Len(b) = Len(a) + 1 /\ b[Len(b)] = code /\ \A i \in 1..Len(a) : b[i] = a[i]
  BY <1>1, <1>3
<1> HIDE DEF a, b
<1>5. \A i \in 1..(Len(b) - 1) : b[i] # 200 /\ Retries(f.client, b[i])
  BY <1>1, <1>2, <1>4
<1>6. end = "none" => \A i \in 1..Len(b) : b[i] # 200 /\ Retries(f.client, b[i])
  <2> SUFFICES ASSUME end = "none", NEW i \in 1..Len(b) PROVE b[i] # 200 /\ Retries(f.client, b[i])
    OBVIOUS
  <2>1. CASE i \in 1..(Len(b) - 1)
    BY <1>5, <2>1
  <2>2. CASE i = Len(b)
    BY <1>4, <2>2
  <2> QED
    BY <1>1, <1>4, <2>1, <2>2
<1>7. Len(b) <= MaxTries /\ (end = "none" => Len(b) < MaxTries)
  BY <1>1, <1>2, <1>4 DEF a
<1>8. /\ end = "report" => b[Len(b)] = 200
      /\ end = "empty" => Len(b) = MaxTries /\ b[Len(b)] \in Unready
      /\ end = "raised" /\ b[Len(b)] \in Unready => Len(b) = MaxTries
  BY <1>4 DEF a
<1>9. \A i \in 1..(Len(b) - 1) : b[i] \notin {200, 400}
  <2>1. ~Retries(f.client, 400)
    BY DEF Retries, Unready
  <2> QED
    BY <1>5, <2>1
<1> QED
  BY <1>3, <1>6, <1>7, <1>8, <1>9 DEF StillWaits, EndsRight, b, g

\* One fetch is replaced by another that ends right.
LEMMA FetchReplaced ==
  ASSUME FetchIInv, NEW s \in Servers, NEW g \in FetchRun, StillWaits(g), EndsRight(g),
         fetch' = [fetch EXCEPT ![s] = g]
  PROVE  FetchIInv'
<1>1. fetch' \in [Servers -> FetchRun \cup {None}] /\ \A t \in Servers : fetch'[t] = IF t = s THEN g ELSE fetch[t]
  BY DEF FetchIInv, Waiting
<1> QED
  BY <1>1 DEF FetchIInv, Waiting

LEMMA FetchSteps ==
  ASSUME ConnectionsAssumption, FetchIInv, NEW s \in Servers, FetchesStep(s) \/ FetchBreaks(s) \/ Restart(s)
  PROVE  FetchIInv'
<1>0. MaxTries \in Nat \ {0} /\ Codes \subseteq 201..599
  BY DEF ConnectionsAssumption
<1>1. ASSUME NEW l \in Links, NEW client \in Clients, NEW mocked \in BOOLEAN, BeginFetch(s, l, client, mocked)
      PROVE FetchIInv'
  <2> DEFINE end == IF CanDecrypt(RingOf(s), link[l].kid) THEN Immediate(link[l], mocked) ELSE "raised"
             g == [client |-> client, answers |-> <<>>, end |-> end]
  <2>1. fetch' = [fetch EXCEPT ![s] = g]
    BY <1>1 DEF BeginFetch
  <2>2. end \in {"report", "raised", "none"}
    BY DEF Immediate
  <2> HIDE DEF end
  <2>3. g \in FetchRun /\ g.answers = <<>> /\ Len(g.answers) = 0 /\ g.end = end
    BY <2>2 DEF FetchRun, Ends
  <2> HIDE DEF g
  <2>4. StillWaits(g) /\ EndsRight(g)
    BY <1>0, <2>2, <2>3 DEF StillWaits, EndsRight
  <2> QED
    BY <2>1, <2>3, <2>4, FetchReplaced
<1>2. ASSUME NEW code \in 200..599, NEW end \in Ends, fetch[s] # None, fetch[s].end = "none",
             fetch' = [fetch EXCEPT ![s].answers = Append(@, code), ![s].end = end],
             end = "none" => /\ Len(fetch[s].answers) + 1 # MaxTries
                             /\ code # 200 /\ Retries(fetch[s].client, code),
             end = "report" => code = 200,
             end = "empty" => Len(fetch[s].answers) + 1 = MaxTries /\ code \in Unready,
             end = "raised" /\ code \in Unready => Len(fetch[s].answers) + 1 = MaxTries
      PROVE FetchIInv'
  <2>1. fetch[s] \in FetchRun /\ StillWaits(fetch[s]) /\ EndsRight(fetch[s])
    BY <1>2 DEF FetchIInv, Waiting
  <2>2. fetch' = [fetch EXCEPT ![s] = HeardOf(fetch[s], code, end)]
    BY <1>2 DEF HeardOf, FetchIInv, Waiting
  <2>3. HeardOf(fetch[s], code, end) \in FetchRun
    BY <2>1, AnsweredRun
  <2>4. StillWaits(HeardOf(fetch[s], code, end)) /\ EndsRight(HeardOf(fetch[s], code, end))
    BY <1>2, <2>1, AnswerEndsRight
  <2> QED
    BY <2>2, <2>3, <2>4, FetchReplaced
<1>3. CASE ReportComes(s)
  <2>1. PICK end \in {"report", "raised"} :
          fetch' = [fetch EXCEPT ![s].answers = Append(@, 200), ![s].end = end]
    BY <1>3 DEF ReportComes, Reading, ParseTsv, ParseTsvMetrics
  <2>2. fetch[s] # None /\ fetch[s].end = "none" /\ end \in Ends /\ end # "none" /\ end # "empty"
    BY <1>3 DEF ReportComes, Ends
  <2>3. 200 \in 200..599 /\ 200 \notin Unready
    BY DEF Unready
  <2> QED
    BY <1>2, <2>1, <2>2, <2>3
<1>4. ASSUME NEW code \in Codes, NoReport(s, code) PROVE FetchIInv'
  <2> DEFINE end == IF ~Retries(fetch[s].client, code) THEN "raised"
                    ELSE IF Len(fetch[s].answers) + 1 = MaxTries THEN Exhausted(fetch[s].client, code)
                    ELSE "none"
  <2>1. /\ fetch[s] # None /\ fetch[s].end = "none"
        /\ fetch' = [fetch EXCEPT ![s].answers = Append(@, code), ![s].end = end]
    BY <1>4 DEF NoReport
  <2>2. code \in 200..599 /\ code # 200
    BY <1>0
  <2>3. end \in Ends /\ end # "report"
    BY DEF Ends, Exhausted
  <2>4. end = "none" => Len(fetch[s].answers) + 1 # MaxTries /\ Retries(fetch[s].client, code)
    BY DEF Exhausted
  <2>5. end = "empty" => Len(fetch[s].answers) + 1 = MaxTries /\ code \in Unready
    BY DEF Exhausted
  <2>6. end = "raised" /\ code \in Unready => Len(fetch[s].answers) + 1 = MaxTries
    BY DEF Retries, Unready
  <2> HIDE DEF end
  <2> QED
    BY <1>2, <2>1, <2>2, <2>3, <2>4, <2>5, <2>6
<1>5. CASE FetchBreaks(s)
  <2> DEFINE g == [fetch[s] EXCEPT !.end = "broke"]
  <2>1. fetch[s] # None /\ fetch[s].end = "none" /\ fetch' = [fetch EXCEPT ![s] = g]
    BY <1>5 DEF FetchBreaks, FetchIInv, Waiting
  <2>2. fetch[s] \in FetchRun /\ StillWaits(fetch[s]) /\ EndsRight(fetch[s])
    BY <2>1 DEF FetchIInv, Waiting
  <2>3. g \in FetchRun /\ g.answers = fetch[s].answers /\ g.client = fetch[s].client /\ g.end = "broke"
    BY <2>2 DEF FetchRun, Ends
  <2> HIDE DEF g
  <2>4. StillWaits(g) /\ EndsRight(g)
    BY <2>1, <2>2, <2>3 DEF StillWaits, EndsRight, Retries
  <2> QED
    BY <2>1, <2>3, <2>4, FetchReplaced
<1>6. CASE Restart(s)
  <2>1. fetch' = [fetch EXCEPT ![s] = None]
    BY <1>6 DEF Restart
  <2>2. fetch' \in [Servers -> FetchRun \cup {None}] /\ \A t \in Servers : fetch'[t] = None \/ fetch'[t] = fetch[t]
    BY <2>1 DEF FetchIInv, Waiting
  <2> QED
    BY <2>2 DEF FetchIInv, Waiting
<1> QED
  BY <1>1, <1>3, <1>4, <1>5, <1>6 DEF FetchesStep

LEMMA StepConnections ==
  ConnectionsAssumption /\ KeysIInv /\ FetchIInv /\ [ConnectionsStep \/ ConnectionsFault]_linkVars
    => KeysIInv' /\ FetchIInv'
<1> SUFFICES ASSUME ConnectionsAssumption, KeysIInv, FetchIInv, [ConnectionsStep \/ ConnectionsFault]_linkVars
             PROVE KeysIInv' /\ FetchIInv'
  OBVIOUS
<1>1. fetch' = fetch => FetchIInv'
  BY DEF FetchIInv, Waiting
<1>2. UNCHANGED <<env, ring, link, making, rotation, swept>> => KeysIInv'
  BY DEF KeysIInv, KeysTyped, Covered, OneKeyring, Trusted
<1>3. CASE AddKeys \/ DropKeys
  <2>1. fetch' = fetch
    BY <1>3 DEF AddKeys, DropKeys, Change
  <2> QED
    BY <1>1, <1>3, <2>1, KeysChange
<1>4. ASSUME NEW o \in Rotators, StartRotation(o) \/ CommitRotation(o) \/ LoseRotation(o)
      PROVE KeysIInv' /\ FetchIInv'
  <2>1. fetch' = fetch
    BY <1>4 DEF StartRotation, CommitRotation, LoseRotation
  <2> QED
    BY <1>1, <1>4, <2>1, RotationSteps
<1>5. ASSUME NEW s \in Servers, LinksStep(s, LinkPlatforms, CredKinds) PROVE KeysIInv' /\ FetchIInv'
  <2>1. fetch' = fetch
    BY <1>5 DEF LinksStep, CreateConnection, CommitConnection, CheckConnection
  <2> QED
    BY <1>1, <1>5, <2>1, LinkSteps DEF LinksStep
<1>6. ASSUME NEW s \in Servers, FetchesStep(s) PROVE KeysIInv' /\ FetchIInv'
  <2>1. \/ UsesRing(s) /\ UNCHANGED <<env, link, making, rotation, swept>>
        \/ UNCHANGED <<env, ring, link, making, rotation, swept>>
    BY <1>6 DEF FetchesStep, BeginFetch, ReportComes, NoReport
  <2> QED
    BY <1>2, <1>6, <2>1, LinkSteps, FetchSteps
<1>7. ASSUME NEW s \in Servers, Restart(s) PROVE KeysIInv' /\ FetchIInv'
  BY <1>7, LinkSteps, FetchSteps
<1>8. ASSUME NEW s \in Servers, FetchBreaks(s) PROVE KeysIInv' /\ FetchIInv'
  <2>1. UNCHANGED <<env, ring, link, making, rotation, swept>>
    BY <1>8 DEF FetchBreaks
  <2> QED
    BY <1>2, <1>8, <2>1, FetchSteps
<1>9. CASE UNCHANGED linkVars
  BY <1>1, <1>2, <1>9 DEF linkVars
<1> QED
  BY <1>3, <1>4, <1>5, <1>6, <1>7, <1>8, <1>9 DEF ConnectionsStep, ConnectionsFault, KeysStep

\* The strengthened invariants hold in every reachable state.
THEOREM ConnectionsInductive == ConnectionsSpec => [](KeysIInv /\ FetchIInv)
<1>1. ConnectionsInit => KeysIInv /\ FetchIInv
  BY InitConnections, ConnectionsAssumption
<1>2. KeysIInv /\ FetchIInv /\ [ConnectionsStep \/ ConnectionsFault]_linkVars => (KeysIInv /\ FetchIInv)'
  BY StepConnections, ConnectionsAssumption
<1> QED
  BY <1>1, <1>2, PTL DEF ConnectionsSpec

\* Keys, connections and fetches keep their types, and no fetch asks more
\* often than it may.
THEOREM ConnectionsTypeCorrect == ConnectionsSpec => []ConnectionsTypeOK
<1>1. KeysIInv /\ FetchIInv => ConnectionsTypeOK
  BY DEF KeysIInv, FetchIInv, KeysTyped, Waiting, StillWaits, FetchRun, ConnectionsTypeOK
<1> QED
  BY <1>1, ConnectionsInductive, PTL

\* No credentials are lost with a key, however many rotations, processes with
\* older keys and creations overlap (rotate_credentials); and a fetch ends as
\* it should, after any answers.
THEOREM ConnectionsAlwaysServe == ConnectionsSpec => []ConnectionsServe
<1>1. KeysIInv /\ FetchIInv => CredentialsReadable /\ FetchesEndRight
  BY DEF KeysIInv, FetchIInv, Covered, CredentialsReadable, FetchesEndRight, EndsRight
<1> QED
  BY <1>1, ConnectionsInductive, PTL DEF ConnectionsServe

-----------------------------------------------------------------------------
(* AdUrls: the rows of the catalogue, and the registrations.               *)

\* What a reconciliation read, and what a registration's rows and task may say.
UrlReading == [utmSettings : [UtmKeys -> {"default", "set", ""}] \cup {None},
               rule : Rule \cup {None}, ads : [CatalogAds -> AdUrl] \cup {None}]

CatalogueTyped ==
  /\ ad \in [CatalogAds -> AdUrl]
  /\ reconcile \in [Reconcilers -> UrlReading \cup {None}]

ErirRow == [event : ErirStatus, result : BOOLEAN, job : ErirStatus,
            request : {"none", "registering", "done"}, unread : BOOLEAN]

ErirTyped ==
  /\ erir \in [ErirIds -> ErirRow]
  /\ delivery \in [ErirIds -> [1..MaxDeliveries -> Mark]]

\* The one copy of its message that there ever was.
Sole(e) == \A d \in 2..MaxDeliveries : delivery[e][d].status = "none"

\* A copy comes to the job's success only after the event's result is there.
ResultFirst(row, m) ==
  /\ m.row = "message" <=> m.status \in {"none", "queued", "done"}
  /\ m.row = "job" /\ m.status = "success" => row.result
  /\ row.request # "done" => m.status = "none"
  /\ m.row = "event" /\ m.status = "success" => m.seen = None

\* The rows and the one copy, in the order it writes them; a success that could
\* not be read back leaves the copy with the handler.
InOrder(row, m) ==
  /\ m.row = "job" /\ m.status = "success" => row.event = "success"
  /\ row.job = "success" =>
       /\ row.event = "success" \/ (row.unread /\ row.event = "failed")
       /\ m.status = "done" \/ (row.unread /\ m.status = "failed")
  /\ row.unread => m.status \in {"failed", "done"}

ErirIInv ==
  /\ ErirTyped
  /\ \A e \in ErirIds :
       /\ erir[e].job = "success" => erir[e].result
       /\ \A d \in 1..MaxDeliveries : ResultFirst(erir[e], delivery[e][d])
       /\ Sole(e) => InOrder(erir[e], delivery[e][1])

UrlsIInv == UrlsTypeOK /\ CatalogueTyped

LEMMA OneOrNone ==
  ASSUME NEW S, NEW x \in S
  PROVE  <<>> \in Seq(S) /\ <<x>> \in Seq(S)
OBVIOUS

\* A URL that has a page is nothing but it and its marks.
LEMMA GivenUrls ==
  ASSUME NEW url \in Given, url # None, url.page \in Pages
  PROVE  \E u : url = [page |-> url.page, utm |-> u]
<1> DEFINE With(K) == [k \in UtmKeys |-> IF k \in K THEN <<"given">> ELSE <<>>]
           bad == {[page |-> p, utm |-> NoUtm] : p \in NoPage}
           urls == {[page |-> p, utm |-> With(K)] : p \in Pages, K \in SUBSET UtmKeys}
<1>1. Given = {None} \cup bad \cup urls
  BY DEF Given
<1> HIDE DEF With, bad, urls
<1>2. CASE url \in bad
  <2>1. PICK p \in NoPage : url = [page |-> p, utm |-> NoUtm]
    BY <1>2 DEF bad
  <2> QED
    BY <2>1
<1>3. CASE url \in urls
  <2>1. PICK p \in Pages, K \in SUBSET UtmKeys : url = [page |-> p, utm |-> With(K)]
    BY <1>3 DEF urls
  <2> QED
    BY <2>1
<1> QED
  BY <1>1, <1>2, <1>3

LEMMA GivenPages ==
  ASSUME NEW url \in Given, url # None
  PROVE  url.page \in Pages \cup NoPage
<1> DEFINE With(K) == [k \in UtmKeys |-> IF k \in K THEN <<"given">> ELSE <<>>]
           bad == {[page |-> p, utm |-> NoUtm] : p \in NoPage}
           urls == {[page |-> p, utm |-> With(K)] : p \in Pages, K \in SUBSET UtmKeys}
<1>1. Given = {None} \cup bad \cup urls
  BY DEF Given
<1> HIDE DEF With
<1>2. url \in bad => url.page \in NoPage
  OBVIOUS
<1>3. url \in urls => url.page \in Pages
  OBVIOUS
<1> HIDE DEF bad, urls
<1> QED
  BY <1>1, <1>2, <1>3

\* The URL a reconciliation writes has one mark, or none, for every key.
LEMMA FinalUrlTyped ==
  ASSUME AdUrlsAssumption,
         NEW set \in [UtmKeys -> {"default", "set", ""}] \cup {None}, NEW r \in Rule \cup {None},
         NEW a \in CatalogAds, NEW target \in Given, Problem(target) = "ok"
  PROVE  FinalUrl(set, r, a, target) \in [page : Pages, utm : Utm]
<1> DEFINE values == {"default", "set", "rule", ""}
           marks == {"default", "set", "rule", "custom", "given"}
           params == BuildUtmParams(set, PickMatchingRule(r, a))
<1>1. \A k \in UtmKeys : FromSettings(set)[k] \in values
  BY DEF FromSettings
<1>2. params \in [UtmKeys -> values]
  BY <1>1 DEF BuildUtmParams, PickMatchingRule, Rule, Templates
<1>3. \A k \in UtmKeys : (IF params[k] = "" THEN <<>> ELSE <<params[k]>>) \in Seq(marks)
  <2>1. \A x \in values : (IF x = "" THEN <<>> ELSE <<x>>) \in Seq(marks)
    <3> SUFFICES ASSUME NEW x \in values PROVE (IF x = "" THEN <<>> ELSE <<x>>) \in Seq(marks)
      OBVIOUS
    <3>1. "set" \in marks /\ (x # "" => x \in marks)
      OBVIOUS
    <3> HIDE DEF marks
    <3>2. <<>> \in Seq(marks) /\ (x # "" => <<x>> \in Seq(marks))
      BY <3>1, OneOrNone
    <3> QED
      BY <3>2
  <2> QED
    BY <1>2, <2>1
<1>4. target # None /\ target.page \in Pages
  <2>1. target # None
    BY DEF Problem
  <2>2. target.page \notin Pages => target.page = "ok"
    BY <2>1 DEF Problem
  <2>3. target.page \in Pages \cup NoPage
    BY <2>1, GivenPages
  <2> QED
    BY <2>1, <2>2, <2>3 DEF NoPage
<1>5. target.page \in Pages /\ \E u : target = [page |-> target.page, utm |-> u]
  BY <1>4, GivenUrls
<1>6. [k \in UtmKeys |-> IF params[k] = "" THEN <<>> ELSE <<params[k]>>] \in Utm
  BY <1>3 DEF Utm
<1> DEFINE mark == [k \in UtmKeys |-> IF params[k] = "" THEN <<>> ELSE <<params[k]>>]
<1>7. FinalUrl(set, r, a, target) = [target EXCEPT !.utm = mark]
  BY DEF FinalUrl, ApplyUtm
<1>8. mark \in Utm
  BY <1>6
<1> HIDE DEF mark
<1> QED
  BY <1>5, <1>7, <1>8

\* A reconciliation keeps the row of an ad a row.
LEMMA ReconciledTyped ==
  ASSUME AdUrlsAssumption, NEW seen \in AdUrl, NEW now \in AdUrl,
         NEW set \in [UtmKeys -> {"default", "set", ""}] \cup {None}, NEW r \in Rule \cup {None},
         NEW a \in CatalogAds
  PROVE  Reconciled(seen, now, set, r, a) \in AdUrl
<1> DEFINE status == Problem(seen.desired)
           final == IF status = "ok" THEN FinalUrl(set, r, a, seen.desired) ELSE seen.final
<1>1. status \in UrlStatus
  BY GivenPages DEF Problem, AdUrl, UrlStatus
<1>2. final \in [page : Pages, utm : Utm] \cup {None}
  BY FinalUrlTyped DEF AdUrl
<1>3. Reconciled(seen, now, set, r, a) =
        [now EXCEPT !.status = IF status = seen.status THEN @ ELSE status,
                    !.final = IF final = seen.final THEN @ ELSE final]
  BY DEF Reconciled
<1> HIDE DEF status, final
<1> QED
  BY <1>1, <1>2, <1>3 DEF AdUrl

LEMMA InitUrlsIInv == AdUrlsAssumption /\ UrlsInit => UrlsIInv /\ ErirIInv
<1> SUFFICES ASSUME AdUrlsAssumption, UrlsInit PROVE UrlsIInv /\ ErirIInv
  OBVIOUS
<1>1. None \in Given
  BY DEF Given
<1>2. UrlsTypeOK /\ CatalogueTyped
  BY <1>1 DEF UrlsInit, UrlsTypeOK, CatalogueTyped, AdUrl, UrlStatus, AdUrlsAssumption
<1>3. ErirIInv
  <2>1. Due("message", "none") \in Mark
    BY DEF Due, Mark
  <2>2. ErirTyped
    BY <2>1 DEF UrlsInit, ErirTyped, ErirRow, ErirStatus
  <2>3. 1 \in 1..MaxDeliveries
    BY DEF AdUrlsAssumption
  <2>4. \A e \in ErirIds, d \in 1..MaxDeliveries : delivery[e][d] = Due("message", "none")
    BY DEF UrlsInit
  <2>5. \A e \in ErirIds :
          /\ erir[e].job = "none"
          /\ \A d \in 1..MaxDeliveries : ResultFirst(erir[e], delivery[e][d])
          /\ InOrder(erir[e], delivery[e][1])
    BY <2>3, <2>4 DEF UrlsInit, ResultFirst, InOrder, Due
  <2> QED
    BY <2>2, <2>5 DEF ErirIInv
<1> QED
  BY <1>2, <1>3 DEF UrlsIInv

\* A step that touches one registration, and one of its copies, is looked at
\* there alone.
LEMMA ErirKeeps ==
  ASSUME AdUrlsAssumption, ErirIInv, NEW e \in ErirIds, NEW d \in 1..MaxDeliveries,
         NEW row \in ErirRow, NEW m \in Mark,
         erir' = [erir EXCEPT ![e] = row], delivery' = [delivery EXCEPT ![e][d] = m],
         row.job = "success" => row.result,
         erir[e].result => row.result,
         row.request # "done" => erir[e].request # "done",
         ResultFirst(row, m),
         d # 1 => m.status # "none",
         d = 1 /\ Sole(e) => InOrder(row, m)
  PROVE  ErirIInv'
<1>1. ErirTyped'
  BY DEF ErirIInv, ErirTyped
<1>2. /\ erir'[e] = row /\ delivery'[e][d] = m
      /\ \A c \in 1..MaxDeliveries \ {d} : delivery'[e][c] = delivery[e][c]
      /\ \A f \in ErirIds \ {e} : erir'[f] = erir[f] /\ delivery'[f] = delivery[f]
  BY DEF ErirIInv, ErirTyped
<1>3. \A c \in 1..MaxDeliveries : ResultFirst(erir'[e], delivery'[e][c])
  BY <1>2 DEF ErirIInv, ResultFirst
<1>4. Sole(e)' => d = 1 /\ Sole(e)
  <2>1. 2..MaxDeliveries \subseteq 1..MaxDeliveries /\ (d # 1 => d \in 2..MaxDeliveries) /\ 1 \notin 2..MaxDeliveries
    BY DEF AdUrlsAssumption
  <2> QED
    BY <1>2, <2>1 DEF Sole
<1>5. Sole(e)' => InOrder(erir'[e], delivery'[e][1])
  BY <1>2, <1>4
<1>6. \A f \in ErirIds \ {e} : Sole(f)' = Sole(f)
  BY <1>2 DEF Sole
<1>7. \A f \in ErirIds : Sole(f)' => InOrder(erir'[f], delivery'[f][1])
  BY <1>2, <1>5, <1>6 DEF ErirIInv
<1>8. \A f \in ErirIds : /\ erir'[f].job = "success" => erir'[f].result
                        /\ \A c \in 1..MaxDeliveries : ResultFirst(erir'[f], delivery'[f][c])
  BY <1>2, <1>3 DEF ErirIInv
<1> QED
  BY <1>1, <1>7, <1>8 DEF ErirIInv

LEMMA RegisterErirIInv ==
  ASSUME AdUrlsAssumption, ErirIInv, NEW e \in ErirIds, Register(e)
  PROVE  ErirIInv'
<1>1. 1 \in 1..MaxDeliveries
  BY DEF AdUrlsAssumption
<1>2. /\ erir[e] \in ErirRow /\ delivery[e][1] \in Mark /\ ResultFirst(erir[e], delivery[e][1])
      /\ Sole(e) => InOrder(erir[e], delivery[e][1])
      /\ erir \in [ErirIds -> ErirRow] /\ delivery \in [ErirIds -> [1..MaxDeliveries -> Mark]]
      /\ erir[e].job = "success" => erir[e].result
  BY <1>1 DEF ErirIInv, ErirTyped
<1>3. erir[e].request # "done"
  BY DEF Register
<1>4. delivery[e][1].status = "none" /\ delivery[e][1].row = "message"
  BY <1>2, <1>3 DEF ResultFirst
<1>5. CASE erir[e].request = "none"
  <2> DEFINE row == [erir[e] EXCEPT !.job = "pending", !.request = "registering"]
  <2>1. erir' = [erir EXCEPT ![e] = row] /\ delivery' = [delivery EXCEPT ![e][1] = delivery[e][1]]
    BY <1>2, <1>5 DEF Register
  <2>2. row \in ErirRow /\ row.job = "pending" /\ row.result = erir[e].result
        /\ row.request = "registering" /\ row.unread = erir[e].unread /\ row.event = erir[e].event
    BY <1>2 DEF ErirRow, ErirStatus
  <2> HIDE DEF row
  <2>3. ResultFirst(row, delivery[e][1])
    BY <1>2, <1>4, <2>2 DEF ResultFirst
  <2>4. Sole(e) => InOrder(row, delivery[e][1])
    BY <1>2, <1>4, <2>2 DEF InOrder
  <2> QED
    BY <1>1, <1>2, <1>3, <2>1, <2>2, <2>3, <2>4, ErirKeeps
<1>6. CASE erir[e].request = "registering"
  <2> DEFINE row == [erir[e] EXCEPT !.event = "pending", !.request = "done"]
             m == Due("message", "queued")
  <2>1. erir' = [erir EXCEPT ![e] = row] /\ delivery' = [delivery EXCEPT ![e][1] = m]
    BY <1>2, <1>6 DEF Register
  <2>2. row \in ErirRow /\ row.job = erir[e].job /\ row.result = erir[e].result
        /\ row.request = "done" /\ row.unread = erir[e].unread
    BY <1>2 DEF ErirRow, ErirStatus
  <2>3. m \in Mark /\ m.row = "message" /\ m.status = "queued"
    BY DEF Due, Mark
  <2> HIDE DEF row, m
  <2>4. ResultFirst(row, m)
    BY <2>2, <2>3 DEF ResultFirst
  <2>5. Sole(e) => InOrder(row, m)
    BY <1>2, <1>4, <2>2, <2>3 DEF InOrder
  <2> QED
    BY <1>1, <1>2, <2>1, <2>2, <2>3, <2>4, <2>5, ErirKeeps
<1> QED
  BY <1>5, <1>6 DEF Register

LEMMA ExecuteErirIInv ==
  ASSUME AdUrlsAssumption, ErirIInv, NEW e \in ErirIds, NEW d \in 1..MaxDeliveries, ExecuteErir(e, d)
  PROVE  ErirIInv'
<1> DEFINE old == delivery[e][d]
           now == IF old.row = "event" THEN erir[e].event ELSE erir[e].job
           new == IF old.seen = old.status THEN now ELSE old.status
           Commits ==
             \/ /\ old.row = "event" /\ delivery' = [delivery EXCEPT ![e][d] = AfterCommit(old)]
                /\ erir' = [erir EXCEPT ![e].event = new, ![e].result = @ \/ old.status = "success"]
             \/ /\ old.row = "job" /\ delivery' = [delivery EXCEPT ![e][d] = AfterCommit(old)]
                /\ erir' = [erir EXCEPT ![e].job = new]
             \/ /\ old.row = "job" /\ erir' = [erir EXCEPT ![e].job = new, ![e].unread = @ \/ old.status = "success"]
                /\ \E m \in AfterRaise(old) : delivery' = [delivery EXCEPT ![e][d] = m]
<1>1. /\ erir[e] \in ErirRow /\ old \in Mark /\ ResultFirst(erir[e], old)
      /\ erir \in [ErirIds -> ErirRow] /\ delivery \in [ErirIds -> [1..MaxDeliveries -> Mark]]
      /\ erir[e].job = "success" => erir[e].result
      /\ d = 1 /\ Sole(e) => InOrder(erir[e], old)
  BY DEF ErirIInv, ErirTyped
<1>2. old.row \in {"message", "event", "job"} /\ now \in ErirStatus
      /\ old.status \in {"none", "queued", "done", "running", "success", "failed"}
      /\ (old.row # "message" => old.status \in {"running", "success", "failed"})
  BY <1>1 DEF Mark, ErirRow, ResultFirst
<1>3. old.status # "none" /\ erir[e].request = "done"
  BY <1>1, <1>2 DEF ExecuteErir, ResultFirst
<1>4. \A r \in {"event", "job"}, s \in {"running", "success", "failed"} :
        Due(r, s) \in Mark /\ Due(r, s).row = r /\ Due(r, s).status = s /\ Due(r, s).seen = None
  BY DEF Due, Mark
<1>5. Due("message", "done") \in Mark /\ Due("message", "done").row = "message" /\ Due("message", "done").status = "done"
  BY DEF Due, Mark
<1>6. old.row \in {"event", "job"} =>
        /\ AfterCommit(old) \in Mark
        /\ old.row = "event" => AfterCommit(old) = Due("job", old.status)
        /\ old.row = "job" /\ old.status = "running" => AfterCommit(old) = Due("event", "success")
        /\ old.row = "job" /\ old.status # "running" => AfterCommit(old) = Due("message", "done")
  BY <1>2, <1>4, <1>5 DEF AfterCommit
<1>7. old.row \in {"event", "job"} => \A m \in AfterRaise(old) :
        /\ m \in {Due("event", "failed"), Due("job", "failed"), Due("message", "done")}
        /\ m = Due("message", "done") => old.status = "failed"
        /\ old.status = "success" => m = Due("event", "failed")
        /\ old.status = "running" => m = Due("job", "failed")
        /\ old.status = "failed" => m # Due("event", "failed")
  BY <1>2, <1>4, <1>5 DEF AfterRaise
<1> HIDE DEF now, new
<1>8. CASE old.status = "queued" /\ erir' = erir /\ delivery' = [delivery EXCEPT ![e][d] = Due("event", "running")]
  <2>1. erir' = [erir EXCEPT ![e] = erir[e]]
    BY <1>1, <1>8
  <2>2. ResultFirst(erir[e], Due("event", "running"))
    BY <1>3, <1>4 DEF ResultFirst
  <2>3. d = 1 /\ Sole(e) => InOrder(erir[e], Due("event", "running"))
    BY <1>1, <1>4, <1>8 DEF InOrder
  <2> QED
    BY <1>1, <1>4, <1>8, <2>1, <2>2, <2>3, ErirKeeps
<1>9. CASE old.row \in {"event", "job"} /\ MustLoad(old) /\ erir' = erir
           /\ delivery' = [delivery EXCEPT ![e][d] = [old EXCEPT !.seen = now]]
  <2> DEFINE m == [old EXCEPT !.seen = now]
  <2>1. m \in Mark /\ m.row = old.row /\ m.status = old.status
    BY <1>1, <1>2 DEF Mark, ErirStatus
  <2>2. erir' = [erir EXCEPT ![e] = erir[e]]
    BY <1>1, <1>9
  <2>3. delivery' = [delivery EXCEPT ![e][d] = m]
    BY <1>9
  <2> HIDE DEF m
  <2>4. ~(m.row = "event" /\ m.status = "success")
    BY <1>9, <2>1 DEF MustLoad
  <2>5. ResultFirst(erir[e], m) /\ (d = 1 /\ Sole(e) => InOrder(erir[e], m))
    BY <1>1, <2>1, <2>4 DEF ResultFirst, InOrder
  <2> QED
    BY <1>1, <1>3, <2>1, <2>2, <2>3, <2>5, ErirKeeps
<1>10. ASSUME NEW m \in AfterRaise(old), old.row \in {"event", "job"}, erir' = erir,
              delivery' = [delivery EXCEPT ![e][d] = m]
       PROVE  ErirIInv'
  <2>1. m \in {Due("event", "failed"), Due("job", "failed"), Due("message", "done")} /\ m \in Mark
    BY <1>4, <1>5, <1>7, <1>10
  <2>2. erir' = [erir EXCEPT ![e] = erir[e]]
    BY <1>1, <1>10
  <2>3. ResultFirst(erir[e], m)
    BY <1>3, <1>4, <1>5, <2>1 DEF ResultFirst
  <2>4. m.status \in {"failed", "done"} /\ ~(m.row = "job" /\ m.status = "success")
    BY <1>4, <1>5, <2>1
  <2>5. d = 1 /\ Sole(e) => InOrder(erir[e], m)
    BY <1>1, <1>2, <1>7, <1>10, <2>4 DEF InOrder
  <2> QED
    BY <1>1, <2>1, <2>2, <2>3, <2>4, <2>5, <1>10, ErirKeeps
<1>11. CASE Commits
  <2>1. /\ new \in ErirStatus /\ (new = "success" => now = "success" \/ old.status = "success")
        /\ (old.row = "event" => now = erir[e].event) /\ (old.row = "job" => now = erir[e].job)
    BY <1>2, <1>11 DEF new, now, ErirStatus
  <2>2. ASSUME old.row = "event", delivery' = [delivery EXCEPT ![e][d] = AfterCommit(old)],
               erir' = [erir EXCEPT ![e].event = new, ![e].result = @ \/ old.status = "success"]
        PROVE  ErirIInv'
    <3> DEFINE row == [erir[e] EXCEPT !.event = new, !.result = erir[e].result \/ old.status = "success"]
               m == AfterCommit(old)
    <3>1. erir' = [erir EXCEPT ![e] = row]
      BY <1>1, <2>2
    <3>2. row \in ErirRow /\ row.job = erir[e].job /\ row.request = "done" /\ row.unread = erir[e].unread
          /\ row.event = new /\ (row.result <=> erir[e].result \/ old.status = "success")
      BY <1>1, <1>3, <2>1 DEF ErirRow
    <3>3. m \in Mark /\ m.row = "job" /\ m.status = old.status
      BY <1>2, <1>4, <1>6, <2>2
    <3> HIDE DEF row, m
    <3>4. ResultFirst(row, m)
      BY <1>2, <2>2, <3>2, <3>3 DEF ResultFirst
    <3>5. d = 1 /\ Sole(e) => InOrder(row, m)
      <4>1. SUFFICES ASSUME InOrder(erir[e], old) PROVE InOrder(row, m)
        BY <1>1
      <4>2. old.status = "success" => new = "success"
        BY <1>1, <2>2, AdUrlsAssumption DEF new, ResultFirst, ErirStatus
      <4>3. new = old.status \/ new = erir[e].event
        BY <2>1, <2>2 DEF new
      <4> QED
        BY <1>2, <2>2, <3>2, <3>3, <4>1, <4>2, <4>3 DEF InOrder
    <3>6. /\ row.job = "success" => row.result
          /\ erir[e].result => row.result
          /\ m.status # "none" /\ row.request = "done"
      BY <1>1, <1>2, <2>2, <3>2, <3>3
    <3> QED
      BY <2>2, <3>1, <3>2, <3>3, <3>4, <3>5, <3>6, ErirKeeps DEF m
  <2>3. ASSUME old.row = "job", NEW m \in Mark, NEW unread \in BOOLEAN,
               delivery' = [delivery EXCEPT ![e][d] = m],
               erir' = [erir EXCEPT ![e].job = new, ![e].unread = unread],
               \/ m = AfterCommit(old) /\ unread = erir[e].unread
               \/ m \in AfterRaise(old) /\ (unread <=> erir[e].unread \/ old.status = "success")
        PROVE  ErirIInv'
    <3> DEFINE row == [erir[e] EXCEPT !.job = new, !.unread = unread]
    <3>1. erir' = [erir EXCEPT ![e] = row]
      BY <1>1, <2>3
    <3>2. row \in ErirRow /\ row.job = new /\ row.request = "done" /\ row.unread = unread
          /\ row.event = erir[e].event /\ row.result = erir[e].result
      BY <1>1, <1>3, <2>1, <2>3 DEF ErirRow
    <3> HIDE DEF row
    <3>3. \/ m = Due("event", "success") /\ old.status = "running" /\ (unread <=> erir[e].unread)
          \/ m = Due("message", "done") /\ old.status # "running" /\ (unread <=> erir[e].unread)
          \/ m = Due("event", "failed") /\ old.status = "success" /\ unread
          \/ m \in {Due("job", "failed"), Due("message", "done")} /\ old.status = "failed" /\ (unread <=> erir[e].unread)
          \/ m = Due("job", "failed") /\ old.status = "running" /\ (unread <=> erir[e].unread)
      <4>1. CASE m = AfterCommit(old) /\ unread = erir[e].unread
        BY <1>6, <2>3, <4>1
      <4>2. CASE m \in AfterRaise(old) /\ (unread <=> erir[e].unread \/ old.status = "success")
        <5>1. old.status \in {"running", "success", "failed"}
          BY <1>2, <2>3
        <5> QED
          BY <1>7, <2>3, <4>2, <5>1
      <4> QED
        BY <2>3, <4>1, <4>2
    <3>4. ResultFirst(row, m)
      BY <1>4, <1>5, <3>2, <3>3 DEF ResultFirst
    <3>5. new = "success" => row.result
      BY <1>1, <2>1, <2>3, <3>2 DEF ResultFirst
    <3>6. d = 1 /\ Sole(e) => InOrder(row, m)
      <4>1. SUFFICES ASSUME InOrder(erir[e], old) PROVE InOrder(row, m)
        BY <1>1
      <4>2. new = "success" => erir[e].job = "success" \/ old.status = "success"
        BY <2>1, <2>3
      <4> QED
        BY <1>4, <1>5, <2>3, <3>2, <3>3, <4>1, <4>2 DEF InOrder
    <3>7. d # 1 => m.status # "none"
      BY <1>4, <1>5, <3>3
    <3> QED
      BY <2>3, <3>1, <3>2, <3>4, <3>5, <3>6, <3>7, ErirKeeps
  <2>4. ASSUME old.row = "job", delivery' = [delivery EXCEPT ![e][d] = AfterCommit(old)],
               erir' = [erir EXCEPT ![e].job = new]
        PROVE  ErirIInv'
    <3>1. erir' = [erir EXCEPT ![e].job = new, ![e].unread = erir[e].unread] /\ erir[e].unread \in BOOLEAN
      BY <1>1, <2>4 DEF ErirRow
    <3> QED
      BY <1>6, <2>3, <2>4, <3>1
  <2>5. ASSUME old.row = "job", NEW m \in AfterRaise(old), delivery' = [delivery EXCEPT ![e][d] = m],
               erir' = [erir EXCEPT ![e].job = new, ![e].unread = @ \/ old.status = "success"]
        PROVE  ErirIInv'
    <3> DEFINE unread == erir[e].unread \/ old.status = "success"
    <3>1. erir' = [erir EXCEPT ![e].job = new, ![e].unread = unread] /\ unread \in BOOLEAN
      BY <1>1, <2>5 DEF ErirRow
    <3>2. m \in Mark
      BY <1>4, <1>5, <1>7, <2>5
    <3> HIDE DEF unread
    <3>3. unread <=> erir[e].unread \/ old.status = "success"
      BY DEF unread
    <3> QED
      BY <2>3, <2>5, <3>1, <3>2, <3>3
  <2>6. CASE old.row = "event" /\ delivery' = [delivery EXCEPT ![e][d] = AfterCommit(old)]
             /\ erir' = [erir EXCEPT ![e].event = new, ![e].result = @ \/ old.status = "success"]
    BY <2>2, <2>6
  <2>7. CASE old.row = "job" /\ delivery' = [delivery EXCEPT ![e][d] = AfterCommit(old)]
             /\ erir' = [erir EXCEPT ![e].job = new]
    BY <2>4, <2>7
  <2>8. CASE old.row = "job" /\ erir' = [erir EXCEPT ![e].job = new, ![e].unread = @ \/ old.status = "success"]
             /\ \E m \in AfterRaise(old) : delivery' = [delivery EXCEPT ![e][d] = m]
    BY <2>5, <2>8
  <2> QED
    BY <1>11, <2>6, <2>7, <2>8
<1>12. \/ old.status = "queued" /\ erir' = erir /\ delivery' = [delivery EXCEPT ![e][d] = Due("event", "running")]
       \/ old.row \in {"event", "job"} /\ MustLoad(old) /\ erir' = erir
            /\ delivery' = [delivery EXCEPT ![e][d] = [old EXCEPT !.seen = now]]
       \/ old.row \in {"event", "job"} /\ erir' = erir
            /\ \E m \in AfterRaise(old) : delivery' = [delivery EXCEPT ![e][d] = m]
       \/ Commits
  BY DEF ExecuteErir, now, new
<1> QED
  BY <1>8, <1>9, <1>10, <1>11, <1>12

LEMMA CopiesErirIInv ==
  ASSUME AdUrlsAssumption, ErirIInv, NEW e \in ErirIds, RedeliverErir(e) \/ LoseErir(e)
  PROVE  ErirIInv'
<1>1. /\ erir[e] \in ErirRow /\ erir \in [ErirIds -> ErirRow]
      /\ delivery \in [ErirIds -> [1..MaxDeliveries -> Mark]]
      /\ erir[e].job = "success" => erir[e].result
      /\ \A d \in 1..MaxDeliveries : delivery[e][d] \in Mark /\ ResultFirst(erir[e], delivery[e][d])
      /\ Sole(e) => InOrder(erir[e], delivery[e][1])
      /\ 1 \in 1..MaxDeliveries /\ 1..MaxDeliveries \ {1} = 2..MaxDeliveries
  BY DEF ErirIInv, ErirTyped, AdUrlsAssumption
<1>2. \A s \in {"queued", "done"} :
        /\ Due("message", s) \in Mark /\ Due("message", s).row = "message" /\ Due("message", s).status = s
        /\ \A row \in ErirRow : row.request = "done" => ResultFirst(row, Due("message", s))
  BY DEF Due, Mark, ResultFirst
<1>3. CASE RedeliverErir(e)
  <2>1. PICK d \in 1..MaxDeliveries, copy \in 1..MaxDeliveries :
          /\ delivery[e][d].status = "queued" /\ delivery[e][copy].status = "none"
          /\ delivery' = [delivery EXCEPT ![e][copy] = Due("message", "queued")] /\ erir' = erir
    BY <1>3 DEF RedeliverErir
  <2>2. erir[e].request = "done" /\ erir' = [erir EXCEPT ![e] = erir[e]]
    BY <1>1, <2>1 DEF ResultFirst
  <2>3. ~(copy = 1 /\ Sole(e))
    BY <1>1, <2>1 DEF Sole
  <2> QED
    BY <1>1, <1>2, <2>1, <2>2, <2>3, ErirKeeps
<1>4. ASSUME NEW d \in 1..MaxDeliveries, delivery[e][d].status \notin {"none", "done"},
             delivery' = [delivery EXCEPT ![e][d] = Due("message", "done")], erir' = erir
      PROVE  ErirIInv'
  <2>1. erir[e].request = "done" /\ erir' = [erir EXCEPT ![e] = erir[e]]
    BY <1>1, <1>4 DEF ResultFirst
  <2>2. d = 1 /\ Sole(e) => InOrder(erir[e], Due("message", "done"))
    BY <1>1, <1>2 DEF InOrder
  <2> QED
    BY <1>1, <1>2, <1>4, <2>1, <2>2, ErirKeeps
<1>5. CASE erir[e].request = "registering" /\ erir' = [erir EXCEPT ![e].request = "done"] /\ delivery' = delivery
  <2> DEFINE row == [erir[e] EXCEPT !.request = "done"]
  <2>1. erir' = [erir EXCEPT ![e] = row] /\ delivery' = [delivery EXCEPT ![e][1] = delivery[e][1]]
    BY <1>1, <1>5
  <2>2. row \in ErirRow /\ row.request = "done" /\ row.job = erir[e].job /\ row.event = erir[e].event
        /\ row.result = erir[e].result /\ row.unread = erir[e].unread
    BY <1>1 DEF ErirRow
  <2> HIDE DEF row
  <2>3. ResultFirst(row, delivery[e][1]) /\ (Sole(e) => InOrder(row, delivery[e][1]))
    BY <1>1, <2>2 DEF ResultFirst, InOrder
  <2> QED
    BY <1>1, <2>1, <2>2, <2>3, ErirKeeps
<1> QED
  BY <1>3, <1>4, <1>5 DEF LoseErir

LEMMA StepErirIInv == AdUrlsAssumption /\ ErirIInv /\ [UrlsStep \/ UrlsFault]_urlVars => ErirIInv'
<1> SUFFICES ASSUME AdUrlsAssumption, ErirIInv, [UrlsStep \/ UrlsFault]_urlVars PROVE ErirIInv'
  OBVIOUS
<1>1. CASE UNCHANGED erirVars
  BY <1>1 DEF erirVars, ErirIInv, ErirTyped, ResultFirst, Sole, InOrder
<1>2. ErirStep \/ ErirFault \/ UNCHANGED erirVars
  BY DEF UrlsStep, UrlsFault, urlVars, erirVars, CatalogueStep, CatalogueFault, UpdateUtmSettings, SaveUtmRule,
         SetDesiredUrl, Reconcile, StartReconcile, ReadAds, CommitReconcile, LoseReconcile, CreateBuilderAd,
         PatchBuilderAd, CommitPatch
<1> QED
  BY <1>1, <1>2, RegisterErirIInv, ExecuteErirIInv, CopiesErirIInv DEF ErirStep, ErirFault

LEMMA StepUrlsIInv == AdUrlsAssumption /\ UrlsIInv /\ [UrlsStep \/ UrlsFault]_urlVars => UrlsIInv'
<1> SUFFICES ASSUME AdUrlsAssumption, UrlsIInv, [UrlsStep \/ UrlsFault]_urlVars PROVE UrlsIInv'
  OBVIOUS
<1>1. Edit => edits' \in 0..MaxEdits
  <2>1. MaxEdits \in Nat /\ edits \in 0..MaxEdits
    BY DEF AdUrlsAssumption, UrlsIInv, UrlsTypeOK
  <2> QED
    BY <2>1 DEF Edit
<1> USE DEF UrlsIInv, UrlsTypeOK, CatalogueTyped
<1>2. CASE UpdateUtmSettings
  <2>1. PICK new \in [UtmKeys -> {"set", "", None}] :
          utmSettings' = [k \in UtmKeys |-> IF new[k] = None THEN FromSettings(utmSettings)[k] ELSE new[k]]
    BY <1>2 DEF UpdateUtmSettings
  <2>2. \A k \in UtmKeys : FromSettings(utmSettings)[k] \in {"default", "set", ""}
    BY DEF FromSettings
  <2>3. utmSettings' \in [UtmKeys -> {"default", "set", ""}]
    BY <2>1, <2>2
  <2> QED
    BY <1>1, <1>2, <2>3 DEF UpdateUtmSettings
<1>3. CASE SaveUtmRule
  BY <1>1, <1>3 DEF SaveUtmRule
<1>4. ASSUME NEW a \in CatalogAds, SetDesiredUrl(a) PROVE UrlsIInv'
  <2>1. PICK url \in Given : ad' = [ad EXCEPT ![a].desired = url]
    BY <1>4 DEF SetDesiredUrl
  <2>2. ad' \in [CatalogAds -> AdUrl]
    BY <2>1 DEF AdUrl
  <2>3. \A b \in CatalogAds : ad'[b].desired \in Given /\ ad'[b].status \in UrlStatus
    BY <2>2 DEF AdUrl
  <2> QED
    BY <1>1, <1>4, <2>2, <2>3 DEF SetDesiredUrl
<1>5. ASSUME NEW r \in Reconcilers, StartReconcile(r) PROVE UrlsIInv'
  <2>1. [utmSettings |-> utmSettings, rule |-> rule, ads |-> None] \in UrlReading
    BY DEF UrlReading
  <2> QED
    BY <1>5, <2>1 DEF StartReconcile
<1>6. ASSUME NEW r \in Reconcilers, ReadAds(r) PROVE UrlsIInv'
  <2>1. reconcile[r] \in UrlReading
    BY <1>6 DEF ReadAds
  <2>2. [reconcile[r] EXCEPT !.ads = ad] \in UrlReading
    BY <2>1 DEF UrlReading
  <2> QED
    BY <1>6, <2>2 DEF ReadAds
<1>7. ASSUME NEW r \in Reconcilers, CommitReconcile(r) PROVE UrlsIInv'
  <2> DEFINE read == reconcile[r]
  <2>1. read \in UrlReading /\ read.ads \in [CatalogAds -> AdUrl]
    BY <1>7 DEF CommitReconcile, UrlReading
  <2>2. read.utmSettings \in [UtmKeys -> {"default", "set", ""}] \cup {None} /\ read.rule \in Rule \cup {None}
    BY <2>1 DEF UrlReading
  <2>3. ad' = [a \in CatalogAds |-> Reconciled(read.ads[a], ad[a], read.utmSettings, read.rule, a)]
    BY <1>7 DEF CommitReconcile
  <2> HIDE DEF read
  <2>4. \A a \in CatalogAds : Reconciled(read.ads[a], ad[a], read.utmSettings, read.rule, a) \in AdUrl
    BY <2>1, <2>2, ReconciledTyped
  <2>5. ad' \in [CatalogAds -> AdUrl]
    BY <2>3, <2>4
  <2>6. \A b \in CatalogAds : ad'[b].desired \in Given /\ ad'[b].status \in UrlStatus
    BY <2>5 DEF AdUrl
  <2> QED
    BY <1>7, <2>5, <2>6 DEF CommitReconcile
<1>8. ASSUME NEW r \in Reconcilers, LoseReconcile(r) PROVE UrlsIInv'
  BY <1>8 DEF LoseReconcile
<1>9. ASSUME NEW b \in BuiltAds, CreateBuilderAd(b) PROVE UrlsIInv'
  BY <1>1, <1>9 DEF CreateBuilderAd
<1>10. ASSUME NEW b \in BuiltAds, NEW u \in UrlEditors, PatchBuilderAd(u, b) PROVE UrlsIInv'
  BY <1>1, <1>10 DEF PatchBuilderAd
<1>11. ASSUME NEW u \in UrlEditors, CommitPatch(u) PROVE UrlsIInv'
  BY <1>11 DEF CommitPatch
<1>12. CASE ErirStep \/ ErirFault
  <2>1. UNCHANGED catalogueVars
    BY <1>12 DEF ErirStep, ErirFault, Register, ExecuteErir, LoseErir, RedeliverErir
  <2> QED
    BY <2>1 DEF catalogueVars
<1>13. CASE UNCHANGED urlVars
  BY <1>13 DEF urlVars
<1> QED
  BY <1>2, <1>3, <1>4, <1>5, <1>6, <1>7, <1>8, <1>9, <1>10, <1>11, <1>12, <1>13 DEF UrlsStep, UrlsFault, CatalogueStep, CatalogueFault, Reconcile

\* Settings, the rule, targets and the statuses of ads keep their types, whatever
\* a reconciliation had read before it wrote them (reconcile_ads_utm_for_connection).
THEOREM UrlsTypeCorrect == UrlsSpec => []UrlsTypeOK
<1>1. UrlsInit => UrlsIInv
  BY InitUrlsIInv, AdUrlsAssumption
<1>2. UrlsIInv /\ [UrlsStep \/ UrlsFault]_urlVars => UrlsIInv'
  BY StepUrlsIInv, AdUrlsAssumption
<1>3. UrlsIInv => UrlsTypeOK
  BY DEF UrlsIInv
<1> QED
  BY <1>1, <1>2, <1>3, PTL DEF UrlsSpec

\* A job that says that an ad is registered has an event with its result, for any
\* number of registrations and of copies of their messages, wherever one fails
\* or is lost; and with one copy the event's status says so too, unless the
\* success could not be read back (execute_erir_register).
THEOREM JobsTellTheTruth == UrlsSpec => []ErirFollows
<1>1. UrlsInit => ErirIInv
  BY InitUrlsIInv, AdUrlsAssumption
<1>2. ErirIInv /\ [UrlsStep \/ UrlsFault]_urlVars => ErirIInv'
  BY StepErirIInv, AdUrlsAssumption
<1>3. ErirIInv => ErirFollows
  BY DEF ErirIInv, Sole, InOrder, ErirFollows
<1> QED
  BY <1>1, <1>2, <1>3, PTL DEF UrlsSpec
=============================================================================
