---------------------------- MODULE LoaderProofs ----------------------------
(***************************************************************************)
(* Theorems about Loader, for any servers, releases, revocation list and   *)
(* number of interruptions.                                                *)
(***************************************************************************)
EXTENDS Loader, TLAPS

(* What the server has only grows, so it never falls behind the start. *)
Begun == pc # "off" => began <= release[cdn]

(* The hash that was fetched is the server's, and not older than the start. *)
Fetched ==
  pc \in {"compare", "unlink", "open", "elf", "md5"} =>
    remote \in Releases /\ remote.cdn = cdn /\ began <= remote.n /\ remote.n <= release[cdn]

(* Between the unlinks and the new hash, nothing vouches for the ELF. *)
Replacing ==
  /\ pc = "open" => elf = None
  /\ pc = "elf" => local = None
  /\ pc = "md5" => Vouches(remote, elf)

(* From then on there is an ELF to launch ... *)
Ready ==
  pc \in {"noted", "secure", "sig", "verify", "self"} =>
    elf \in Releases /\ elf.cdn = cdn /\ began <= elf.n

(* ... which with Secure_Boot goes past the list, and then the signature.  *)
Checked ==
  /\ pc \in {"sig", "verify"} => elf \notin Revoked
  /\ pc = "self" /\ secure => sig = elf /\ elf \notin Revoked

Inv ==
  /\ TypeOK /\ Begun /\ Fetched /\ Replacing /\ Ready /\ Checked
  /\ LocalVouches /\ LaunchesCurrent /\ LaunchesVerified

LEMMA InitInv == Init => Inv
<1> SUFFICES ASSUME Init PROVE Inv
  OBVIOUS
<1> USE LoaderAssumption DEF LoaderAssumption
<1>1. secure \in BOOLEAN /\ cdn \in CDNs
  BY Zenon DEF Init
<1>2. {elf, local, remote, sig, self} \subseteq Contents
  BY DEF Init, Contents
<1>3. TypeOK
  BY <1>1, <1>2 DEF Init, TypeOK, Places
<1> QED
  BY <1>3 DEF Init, Inv, Begun, Fetched, Replacing, Ready, Checked, LocalVouches,
              LaunchesCurrent, LaunchesVerified

LEMMA NewestRelease ==
  ASSUME TypeOK
  PROVE  /\ Newest \in Releases /\ Newest.cdn = cdn /\ Newest.n = release[cdn]
         /\ Newest \in Contents
  BY DEF TypeOK, Newest, Releases, Contents

(* A release is a whole file. *)
LEMMA WholeFiles ==
  /\ None \in Contents /\ Broken \in Contents
  /\ None \notin Releases /\ Broken \notin Releases /\ None # Broken
  BY LoaderAssumption DEF LoaderAssumption, Contents

LEMMA StepTyped == TypeOK /\ [Next]_vars => TypeOK'
<1> SUFFICES ASSUME TypeOK, [Next]_vars PROVE TypeOK'
  OBVIOUS
<1> USE WholeFiles, NewestRelease DEF Step, Outside, files, settings, Places
<1>1. CASE Start
  <2>1. secure' \in BOOLEAN /\ cdn' \in CDNs
    BY <1>1, Zenon DEF Start
  <2> QED
    BY <1>1, <2>1 DEF Start, TypeOK
<1>2. CASE PingServer \/ FetchRemote \/ Compare \/ UnlinkElf \/ OpenElf \/ FetchElf
  <2>1. {elf', local', remote', sig', self'} \subseteq Contents /\ pc' \in Places
    BY <1>2 DEF TypeOK, PingServer, FetchRemote, Compare, UnlinkElf, OpenElf, FetchElf
  <2> QED
    BY <1>2, <2>1 DEF TypeOK, PingServer, FetchRemote, Compare, UnlinkElf, OpenElf, FetchElf
<1>3. CASE NoteHash \/ DropRemote \/ Trust \/ SecureBoot \/ FetchSig
  <2>1. {elf', local', remote', sig', self'} \subseteq Contents /\ pc' \in Places
    BY <1>3 DEF TypeOK, NoteHash, DropRemote, Trust, SecureBoot, FetchSig
  <2> QED
    BY <1>3, <2>1 DEF TypeOK, NoteHash, DropRemote, Trust, SecureBoot, FetchSig
<1>4. CASE Verified \/ NotVerified \/ Wipe \/ CopySelf
  <2>1. {elf', local', remote', sig', self'} \subseteq Contents /\ pc' \in Places
    BY <1>4 DEF TypeOK, Verified, NotVerified, Wipe, CopySelf
  <2> QED
    BY <1>4, <2>1 DEF TypeOK, Verified, NotVerified, Wipe, CopySelf
<1>5. CASE Stop
  BY <1>5, LoaderAssumption DEF Stop, Fails, TypeOK, LoaderAssumption
<1>6. CASE StoreEnds
  BY <1>6 DEF StoreEnds, TypeOK
<1>7. ASSUME NEW c \in CDNs, Publish(c) PROVE TypeOK'
  <2>1. release[c] + 1 \in 1 .. MaxRelease
    BY <1>7, LoaderAssumption DEF Publish, TypeOK, LoaderAssumption
  <2> QED
    BY <1>7, <2>1 DEF Publish, TypeOK
<1>8. CASE UNCHANGED vars
  BY <1>8 DEF vars, TypeOK
<1> QED
  BY <1>1, <1>2, <1>3, <1>4, <1>5, <1>6, <1>7, <1>8 DEF Next, Run

LEMMA StepInv == Inv /\ [Next]_vars => Inv'
<1> SUFFICES ASSUME Inv, [Next]_vars PROVE Inv'
  OBVIOUS
<1>t. TypeOK /\ TypeOK'
  BY StepTyped DEF Inv
<1>n. /\ Newest \in Releases /\ Newest.cdn = cdn /\ Newest.n = release[cdn]
      /\ cdn \in CDNs /\ release \in [CDNs -> 1 .. MaxRelease] /\ began \in 1 .. MaxRelease
      /\ MaxRelease \in Nat
  BY <1>t, NewestRelease, LoaderAssumption DEF TypeOK, LoaderAssumption
<1> USE WholeFiles
    DEF Step, Outside, files, settings, Begun, Fetched, Replacing, Ready, Checked,
        LocalVouches, LaunchesCurrent, LaunchesVerified, Vouches
<1>1. CASE Start
  <2>1. cdn' \in CDNs /\ began' = release[cdn'] /\ release' = release /\ began' \in Nat
    BY <1>1, <1>n DEF Start
  <2> QED
    BY <1>1, <1>t, <2>1 DEF Start, Inv
<1>2. CASE PingServer
  BY <1>2, <1>t DEF PingServer, Inv
<1>3. CASE FetchRemote
  BY <1>3, <1>t, <1>n DEF FetchRemote, Inv
<1>4. CASE Compare
  <2>1. CASE elf # None /\ local # None /\ remote = local
    <3>1. elf \in Releases /\ elf.cdn = cdn /\ remote.n <= elf.n /\ began <= remote.n
      BY <1>4, <2>1 DEF Compare, Inv
    <3>2. elf.n \in Nat /\ remote.n \in Nat
      BY <1>4, <1>n, <3>1 DEF Compare, Inv, Releases
    <3>3. began <= elf.n
      BY <1>n, <3>1, <3>2
    <3> QED
      BY <1>4, <1>t, <2>1, <3>1, <3>3 DEF Compare, Inv
  <2>2. CASE ~(elf # None /\ local # None /\ remote = local)
    BY <1>4, <1>t, <2>2 DEF Compare, Inv
  <2> QED
    BY <2>1, <2>2
<1>5. CASE UnlinkElf
  BY <1>5, <1>t DEF UnlinkElf, Inv
<1>6. CASE OpenElf
  BY <1>6, <1>t DEF OpenElf, Inv
<1>7. CASE FetchElf
  BY <1>7, <1>t, <1>n DEF FetchElf, Inv
<1>8. CASE NoteHash
  <2>1. /\ remote \in Releases /\ elf \in Releases /\ elf.cdn = cdn
        /\ began <= remote.n /\ remote.n <= elf.n
    BY <1>8 DEF NoteHash, Inv
  <2>2. began <= elf.n
    BY <1>n, <2>1 DEF Releases
  <2> QED
    BY <1>8, <1>t, <2>1, <2>2 DEF NoteHash, Inv
<1>9. CASE DropRemote
  BY <1>9, <1>t DEF DropRemote, Inv
<1>10. CASE Trust
  BY <1>10, <1>t DEF Trust, Inv
<1>11. CASE SecureBoot
  BY <1>11, <1>t DEF SecureBoot, Inv
<1>12. CASE FetchSig
  BY <1>12, <1>t DEF FetchSig, Inv
<1>13. CASE Verified
  BY <1>13, <1>t DEF Verified, Inv
<1>14. CASE NotVerified
  BY <1>14, <1>t DEF NotVerified, Inv
<1>15. CASE Wipe
  BY <1>15, <1>t DEF Wipe, Inv
<1>16. CASE CopySelf
  BY <1>16, <1>t DEF CopySelf, Inv
<1>17. CASE Stop
  BY <1>17, <1>t DEF Stop, Fails, Inv
<1>18. CASE StoreEnds
  BY <1>18, <1>t DEF StoreEnds, Inv
<1>19. ASSUME NEW c \in CDNs, Publish(c) PROVE Inv'
  <2>1. /\ release'[cdn] \in Nat /\ release[cdn] \in Nat /\ release[cdn] <= release'[cdn]
        /\ cdn' = cdn /\ pc' = pc /\ began' = began /\ remote' = remote
    BY <1>n, <1>19 DEF Publish
  <2>2. Begun'
    BY <1>n, <2>1 DEF Inv
  <2>3. Fetched'
    <3> SUFFICES ASSUME remote \in Releases, remote.n <= release[cdn]
                 PROVE  remote.n <= release'[cdn]
      BY <2>1 DEF Inv
    <3> QED
      BY <2>1 DEF Releases
  <2> QED
    BY <1>19, <1>t, <2>2, <2>3 DEF Publish, Inv
<1>20. CASE UNCHANGED vars
  BY <1>20, <1>t DEF vars, Inv
<1> QED
  BY <1>1, <1>2, <1>3, <1>4, <1>5, <1>6, <1>7, <1>8, <1>9, <1>10, <1>11, <1>12, <1>13,
     <1>14, <1>15, <1>16, <1>17, <1>18, <1>19, <1>20 DEF Next, Run

LEMMA AlwaysInv == Spec => []Inv
  BY InitInv, StepInv, PTL DEF Spec

(* Every variable of the Loader keeps its type. *)
THEOREM LoaderTyped == Spec => []TypeOK
<1>1. Inv => TypeOK
  BY DEF Inv
<1> QED
  BY <1>1, AlwaysInv, PTL

(* checkForUpdate may keep an ELF for the hash beside it: wherever the      *)
(* Loader was stopped, the hash that was noted vouches for it.              *)
THEOREM NotedHashVouches == Spec => []LocalVouches
<1>1. Inv => LocalVouches
  BY DEF Inv
<1> QED
  BY <1>1, AlwaysInv, PTL

(* loader_rooted starts a whole Store of the server in the INI, at least    *)
(* the release that the server had when the Loader began.                   *)
THEOREM LaunchedIsCurrent == Spec => []LaunchesCurrent
<1>1. Inv => LaunchesCurrent
  BY DEF Inv
<1> QED
  BY <1>1, AlwaysInv, PTL

(* With Secure_Boot, loader_rooted starts only what the signature is of,    *)
(* and nothing that is revoked.                                             *)
THEOREM LaunchedIsVerified == Spec => []LaunchesVerified
<1>1. Inv => LaunchesVerified
  BY DEF Inv
<1> QED
  BY <1>1, AlwaysInv, PTL

-----------------------------------------------------------------------------
(* No file is ahead of its server, ... *)
Published == \A f \in {elf, local, remote, sig, self} \cap Releases : f.n <= release[f.cdn]

(* ... and the signature is the server's, not older than the start.         *)
Signed == pc = "verify" => sig \in Releases /\ sig.cdn = cdn /\ began <= sig.n

(* What fails the signature is never an ELF left by an earlier run that was *)
(* cut off, nor one of another server: a release has come out since the     *)
(* Loader began, between the two downloads or since the hash.               *)
RejectsOnlyRaces == pc = "verify" /\ sig # elf => began < release[cdn]

LEMMA PublishedInit == Init => Published /\ Signed
  BY WholeFiles DEF Init, Published, Signed

LEMMA PublishedStep ==
  ASSUME Inv, Published, [Next]_vars
  PROVE  Published'
<1>t. TypeOK /\ Newest \in Releases /\ Newest.n = release[Newest.cdn]
  BY NewestRelease DEF Inv
<1>n. \A c \in CDNs : release[c] \in Nat
  BY <1>t, LoaderAssumption DEF TypeOK, LoaderAssumption
<1>r. \A f \in Releases : f.cdn \in CDNs /\ f.n \in Nat
  BY LoaderAssumption DEF Releases, LoaderAssumption
(* A step writes files that were there, or the newest release. *)
<1>1. CASE /\ {elf', local', remote', sig', self'}
                \subseteq {elf, local, remote, sig, self, None, Broken, Newest}
           /\ release' = release
  <2>1. Newest.n <= release[Newest.cdn]
    BY <1>t, <1>n, <1>r
  <2> HIDE DEF Newest
  <2> QED
    BY <1>1, <2>1, WholeFiles DEF Published
<1>2. CASE \E c \in CDNs : Publish(c)
  <2>1. PICK c \in CDNs : Publish(c)
    BY <1>2
  <2>2. UNCHANGED files /\ release' = [release EXCEPT ![c] = release[c] + 1]
        /\ release \in [CDNs -> 1 .. MaxRelease]
    BY <1>t, <2>1 DEF Publish, TypeOK
  <2>3. \A d \in CDNs : release[d] <= release'[d] /\ release'[d] \in Nat
    BY <1>n, <2>2
  <2>4. \A f \in Releases : f.n <= release[f.cdn] => f.n <= release'[f.cdn]
    BY <1>n, <1>r, <2>3
  <2> QED
    BY <2>2, <2>4 DEF Published, files
<1> HIDE DEF Newest
<1>3. CASE Run
  BY <1>1, <1>3
     DEF Run, Start, PingServer, FetchRemote, Compare, UnlinkElf, OpenElf, FetchElf, NoteHash,
         DropRemote, Trust, SecureBoot, FetchSig, Verified, NotVerified, Wipe, CopySelf,
         Outside, files, settings
<1>4. CASE Stop \/ StoreEnds \/ UNCHANGED vars
  <2>1. UNCHANGED <<elf, local, remote, sig, self, release>>
    BY <1>4 DEF Stop, Fails, StoreEnds, Outside, vars, files
  <2> QED
    BY <1>1, <2>1
<1> QED
  BY <1>2, <1>3, <1>4 DEF Next

LEMMA SignedStep ==
  ASSUME Inv, Signed, [Next]_vars
  PROVE  Signed'
<1>1. CASE FetchSig
  <2>1. Newest \in Releases /\ Newest.cdn = cdn /\ Newest.n = release[cdn] /\ began <= release[cdn]
    BY <1>1, NewestRelease DEF FetchSig, Step, Inv, Begun
  <2> QED
    BY <1>1, <2>1 DEF FetchSig, Outside, settings, Signed
<1>2. CASE ~FetchSig
  <2>1. pc' = "verify" => pc = "verify" /\ UNCHANGED <<sig, cdn, began>>
    BY <1>2 DEF Next, Run, Stop, Fails, StoreEnds, Publish, Step, Start, PingServer, FetchRemote,
       Compare, UnlinkElf, OpenElf, FetchElf, NoteHash, DropRemote, Trust, SecureBoot, Verified,
       NotVerified, Wipe, CopySelf, files, settings, vars
  <2> QED
    BY <2>1 DEF Signed
<1> QED
  BY <1>1, <1>2

LEMMA RacesOnly ==
  ASSUME Inv, Published, Signed
  PROVE  RejectsOnlyRaces
<1> SUFFICES ASSUME pc = "verify", ~(began < release[cdn]) PROVE sig = elf
  BY DEF RejectsOnlyRaces
<1>1. /\ elf \in Releases /\ elf.cdn = cdn /\ began <= elf.n
      /\ sig \in Releases /\ sig.cdn = cdn /\ began <= sig.n
  BY DEF Inv, Ready, Signed
<1>2. elf.n <= release[cdn] /\ sig.n <= release[cdn]
  BY <1>1 DEF Published
<1>3. elf.n \in Nat /\ sig.n \in Nat /\ release[cdn] \in Nat /\ began \in Nat
  BY <1>1, LoaderAssumption DEF Inv, TypeOK, Releases, LoaderAssumption
<1>4. elf.n = sig.n
  BY <1>1, <1>2, <1>3
<1> QED
  BY <1>1, <1>4 DEF Releases

(* loader_rooted throws an ELF away for its signature only when the server  *)
(* has published in the meantime: no stop, no other server and no left-over *)
(* file makes it reject what it had just fetched or kept.                   *)
THEOREM RejectedOnlyInRaces == Spec => []RejectsOnlyRaces
<1>1. Inv /\ Published /\ Signed /\ [Next]_vars => Published' /\ Signed'
  BY PublishedStep, SignedStep
<1>2. Inv /\ Published /\ Signed => RejectsOnlyRaces
  BY RacesOnly
<1> QED
  BY <1>1, <1>2, PublishedInit, AlwaysInv, PTL DEF Spec
=============================================================================
