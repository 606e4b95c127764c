------------------------------- MODULE Loader -------------------------------
(***************************************************************************)
(* The Store-Loader: it fetches the hash of the newest Store, replaces the *)
(* Store's ELF if the hash it noted beside it is another one, has it       *)
(* verified, copies it to where the system runs it, and starts it. It may  *)
(* be stopped between any two steps, and what it wrote stays.              *)
(***************************************************************************)
EXTENDS Naturals

CONSTANTS
  CDNs,         (* servers the INI may name                                *)
  MaxRelease,   (* bound: releases per server                              *)
  Revoked,      (* the releases of revoke_list                             *)
  MaxFailures,  (* bound: stops and failed requests                        *)
  None, Broken  (* a file that is not there, or is not whole               *)

Releases == [cdn : CDNs, n : 1 .. MaxRelease]
Contents == Releases \cup {None, Broken}

ASSUME LoaderAssumption ==
  /\ CDNs # {} /\ MaxRelease \in Nat \ {0} /\ MaxFailures \in Nat
  /\ Revoked \subseteq Releases
  /\ None # Broken /\ None \notin Releases /\ Broken \notin Releases

VARIABLES
  pc,          (* where the Loader is                                      *)
  elf, local,  (* homebrew.elf, and local.md5: the release it is of        *)
  remote, sig, (* remote.md5, homebrew.elf.sig                             *)
  self,        (* /data/self/Store.self                                    *)
  secure, cdn, (* config.SECURE_BOOT and config.opt[CDN_URL]               *)
  release,     (* the newest release of each server                        *)
  began,       (* history: the newest release when the Loader started      *)
  failures     (* history                                                  *)

files    == <<elf, local, remote, sig, self>>
settings == <<secure, cdn>>
vars     == <<pc, files, settings, release, began, failures>>

Places ==
  {"off", "ping", "remote", "compare", "unlink", "open", "elf", "md5", "noted", "secure",
   "sig", "verify", "wipe", "self", "launched"}

Newest == [cdn |-> cdn, n |-> release[cdn]]

TypeOK ==
  /\ pc \in Places
  /\ {elf, local, remote, sig, self} \subseteq Contents
  /\ secure \in BOOLEAN /\ cdn \in CDNs
  /\ release \in [CDNs -> 1 .. MaxRelease]
  /\ began \in 1 .. MaxRelease
  /\ failures \in 0 .. MaxFailures

(* Mutant: an INI that names no server leaves the setting empty. *)
InitNoServer ==
  /\ pc = "off"
  /\ elf = None /\ local = None /\ remote = None /\ sig = None /\ self = None
  /\ secure \in BOOLEAN /\ cdn \in CDNs \cup {None}
  /\ release = [c \in CDNs |-> 1]
  /\ began = 1
  /\ failures = 0

Init ==
  /\ pc = "off"
  /\ elf = None /\ local = None /\ remote = None /\ sig = None /\ self = None
  /\ secure \in BOOLEAN /\ cdn \in CDNs
  /\ release = [c \in CDNs |-> 1]
  /\ began = 1
  /\ failures = 0

-----------------------------------------------------------------------------
Step(from, to) == pc = from /\ pc' = to

(* What only the Loader's own steps leave alone. *)
Outside == UNCHANGED <<settings, release, began, failures>>

Fails ==
  /\ failures < MaxFailures
  /\ failures' = failures + 1
  /\ pc' = "off"
  /\ UNCHANGED <<settings, release, began>>

(* The settings are those of the INI, the app's or one on a USB drive. *)
Start ==
  /\ Step("off", "ping")
  /\ cdn' \in CDNs /\ secure' \in BOOLEAN
  /\ began' = release[cdn']
  /\ UNCHANGED <<files, release, failures>>

(* The server answers, and remote.md5 is opened for writing. *)
PingServer ==
  /\ Step("ping", "remote")
  /\ remote' = Broken
  /\ UNCHANGED <<elf, local, sig, self>>
  /\ Outside

FetchRemote ==
  /\ Step("remote", "compare")
  /\ remote' = Newest
  /\ UNCHANGED <<elf, local, sig, self>>
  /\ Outside

(* Mutant: a hash without an ELF is an error. *)
CompareStrict ==
  /\ pc = "compare"
  /\ pc' = IF elf # None /\ local # None /\ remote = local THEN "secure"
           ELSE IF elf = None /\ local # None THEN "off" ELSE "unlink"
  /\ sig' = None
  /\ UNCHANGED <<elf, local, remote, self>>
  /\ Outside

(* checkForUpdate: the ELF stays if there is one and both hashes are the    *)
(* same; the ELF itself is not looked at.                                   *)
Compare ==
  /\ pc = "compare"
  /\ pc' = IF elf # None /\ local # None /\ remote = local THEN "secure" ELSE "unlink"
  /\ sig' = None
  /\ UNCHANGED <<elf, local, remote, self>>
  /\ Outside

UnlinkElf ==
  /\ Step("unlink", "open")
  /\ elf' = None
  /\ UNCHANGED <<local, remote, sig, self>>
  /\ Outside

(* Mutant: the old hash stays until it is overwritten. *)
OpenElfOnly ==
  /\ Step("open", "elf")
  /\ elf' = Broken
  /\ UNCHANGED <<local, remote, sig, self>>
  /\ Outside

(* The old hash goes as well, and the ELF is opened for writing. *)
OpenElf ==
  /\ Step("open", "elf")
  /\ local' = None
  /\ elf' = Broken
  /\ UNCHANGED <<remote, sig, self>>
  /\ Outside

(* The newest ELF, which may be newer than remote.md5 by now; the hash is  *)
(* opened to be noted.                                                     *)
FetchElf ==
  /\ Step("elf", "md5")
  /\ elf' = Newest
  /\ local' = Broken
  /\ UNCHANGED <<remote, sig, self>>
  /\ Outside

NoteHash ==
  /\ Step("md5", "noted")
  /\ local' = remote
  /\ UNCHANGED <<elf, remote, sig, self>>
  /\ Outside

DropRemote ==
  /\ Step("noted", "secure")
  /\ remote' = None
  /\ UNCHANGED <<elf, local, sig, self>>
  /\ Outside

(* Store.self is opened for writing at once ... *)
Trust ==
  /\ pc = "secure" /\ ~secure
  /\ pc' = "self"
  /\ self' = Broken
  /\ UNCHANGED <<elf, local, remote, sig>>
  /\ Outside

(* Mutant: the revocation list is not looked at. *)
SecureBootAny ==
  /\ pc = "secure" /\ secure
  /\ pc' = "sig" /\ sig' = Broken
  /\ UNCHANGED <<elf, local, remote, self>>
  /\ Outside

(* ... or the signature first, unless the ELF is revoked. *)
SecureBoot ==
  /\ pc = "secure" /\ secure
  /\ IF elf \in Revoked
     THEN pc' = "off" /\ UNCHANGED sig
     ELSE pc' = "sig" /\ sig' = Broken
  /\ UNCHANGED <<elf, local, remote, self>>
  /\ Outside

FetchSig ==
  /\ Step("sig", "verify")
  /\ sig' = Newest
  /\ UNCHANGED <<elf, local, remote, self>>
  /\ Outside

(* VerifyRSA: the signature is this ELF's. *)
Verified ==
  /\ pc = "verify" /\ sig = elf
  /\ pc' = "self"
  /\ self' = Broken
  /\ UNCHANGED <<elf, local, remote, sig>>
  /\ Outside

(* It is not: everything is unlinked, the ELF first. *)
NotVerified ==
  /\ pc = "verify" /\ sig # elf
  /\ pc' = "wipe"
  /\ elf' = None
  /\ UNCHANGED <<local, remote, sig, self>>
  /\ Outside

Wipe ==
  /\ Step("wipe", "off")
  /\ sig' = None /\ remote' = None /\ local' = None
  /\ UNCHANGED <<elf, self>>
  /\ Outside

CopySelf ==
  /\ Step("self", "launched")
  /\ self' = elf
  /\ UNCHANGED <<elf, local, remote, sig>>
  /\ Outside

(* A request, or copying the hash, fails, and the Loader ends with a       *)
(* message; or it is stopped, or the console is.                           *)
Stop ==
  /\ pc \notin {"off", "launched"}
  /\ Fails
  /\ UNCHANGED files

-----------------------------------------------------------------------------
(* Outside the Loader. *)

(* The Store ends, for its own restart or for good. *)
StoreEnds ==
  /\ Step("launched", "off")
  /\ UNCHANGED files
  /\ Outside

Publish(c) ==
  /\ release[c] < MaxRelease
  /\ release' = [release EXCEPT ![c] = @ + 1]
  /\ UNCHANGED <<pc, files, settings, began, failures>>

Run ==
  \/ Start \/ PingServer \/ FetchRemote \/ Compare \/ UnlinkElf \/ OpenElf \/ FetchElf
  \/ NoteHash \/ DropRemote \/ Trust \/ SecureBoot \/ FetchSig
  \/ Verified \/ NotVerified \/ Wipe \/ CopySelf

Next == Run \/ Stop \/ StoreEnds \/ \E c \in CDNs : Publish(c)

Spec == Init /\ [][Next]_vars

(* The user starts it until it runs; it is scheduled, and servers answer   *)
(* except for the failures that Stop counts.                               *)
FairSpec == Spec /\ WF_vars(Run)

-----------------------------------------------------------------------------
(* Properties. *)

(* The hash that was noted vouches for the ELF: if there is an ELF beside   *)
(* it, it is whole, and of that release or a later one of the server.       *)
Vouches(h, e) == e \in Releases /\ e.cdn = h.cdn /\ h.n <= e.n

LocalVouches == local \in Releases /\ elf # None => Vouches(local, elf)

(* Wherever the Loader was stopped before, and whatever server it had then, *)
(* what it starts is whole, and at least what the server had when it began. *)
LaunchesCurrent ==
  pc = "launched" => /\ self \in Releases
                     /\ self.cdn = cdn /\ began <= self.n

(* With Secure_Boot, what it starts is verified and not revoked.            *)
LaunchesVerified ==
  pc = "launched" /\ secure => self = sig /\ self \notin Revoked

(* No stop and no release in between leaves files that keep the Loader from *)
(* starting the Store for ever, unless the newest release is revoked.       *)
LaunchesInTheEnd == []<>(pc = "launched" \/ (secure /\ Newest \in Revoked))
=============================================================================
