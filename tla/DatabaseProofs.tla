--------------------------- MODULE DatabaseProofs ---------------------------
(***************************************************************************)
(* Theorems about Database, for any servers, databases published, presses  *)
(* and interruptions.                                                      *)
(***************************************************************************)
EXTENDS Database, TLAPS

Booting == {"copy?", "copy", "unlink", "check", "fetch", "load"}

(* While the Store starts, its server is the one it began with. *)
Begun == pc \in Booting => began <= server[cdn]

(* What is loaded has been compared with the server, or comes from it. *)
Loadable ==
  pc = "load" => /\ store_db \in Databases
                 /\ store_db.cdn = cdn /\ began <= store_db.n

Inv == TypeOK /\ Begun /\ Loadable /\ ShowsCurrent /\ OneServer

LEMMA Constants ==
  /\ None \in Contents /\ Broken \in Contents
  /\ None \notin Databases /\ Broken \notin Databases
  /\ Default \in CDNs /\ MaxVersion \in Nat \ {0}
  /\ MaxFailures \in Nat /\ MaxPresses \in Nat
  BY DatabaseAssumption DEF DatabaseAssumption, Contents

LEMMA InitInv == Init => Inv
<1> SUFFICES ASSUME Init PROVE Inv
  OBVIOUS
<1>1. TypeOK
  BY Constants DEF Init, TypeOK
<1> QED
  BY <1>1 DEF Init, Inv, Begun, Booting, Loadable, ShowsCurrent, OneServer

LEMMA NewestDatabase ==
  ASSUME TypeOK, NEW c \in CDNs
  PROVE  /\ Newest(c) \in Databases /\ Newest(c) \in Contents
         /\ Newest(c).cdn = c /\ Newest(c).n = server[c]
  BY DEF TypeOK, Newest, Databases, Contents

LEMMA StepTyped == TypeOK /\ [Next]_vars => TypeOK'
<1> SUFFICES ASSUME TypeOK, [Next]_vars PROVE TypeOK'
  OBVIOUS
<1>n. /\ Newest(cdn) \in Contents /\ Newest(home) \in Contents /\ Newest(wanted) \in Contents
  BY NewestDatabase DEF TypeOK
<1> USE Constants
    DEF TypeOK, Boot, Exit, Settle, Press, Update, files, memory, threads, history
<1>1. CASE Start
  BY <1>1 DEF Start
<1>2. CASE Options
  <2>1. cdn' \in CDNs /\ began' = server[cdn']
    BY <1>2 DEF Options
  <2> QED
    BY <1>2, <2>1 DEF Options
<1>3. CASE UseDownloaded \/ CopyDownloaded \/ UnlinkDownloaded
  BY <1>3 DEF UseDownloaded, CopyDownloaded, UnlinkDownloaded
<1>4. CASE Check \/ Fetch \/ Load
  BY <1>4, <1>n DEF Check, Fetch, Load
<1>5. CASE UpdateCheck \/ UpdateFetch \/ Wake
  BY <1>5, <1>n DEF UpdateCheck, UpdateFetch, Wake
<1>6. ASSUME NEW c \in CDNs, TryCDN(c) PROVE TypeOK'
  BY <1>6 DEF TryCDN
<1>7. CASE UseCDN \/ RefuseCDN \/ DiscardDownloaded
  BY <1>7, <1>n DEF UseCDN, RefuseCDN, DiscardDownloaded
<1>8. CASE Save \/ WriteINI \/ Reset \/ RefreshDB
  BY <1>8 DEF Save, WriteINI, Reset, RefreshDB
<1>9. CASE Stop
  BY <1>9 DEF Stop
<1>10. ASSUME NEW c \in CDNs, Publish(c) PROVE TypeOK'
  <2>1. server[c] + 1 \in 1 .. MaxVersion
    BY <1>10 DEF Publish
  <2> QED
    BY <1>10, <2>1 DEF Publish
<1>11. CASE UNCHANGED vars
  BY <1>11 DEF vars
<1> QED
  BY <1>1, <1>2, <1>3, <1>4, <1>5, <1>6, <1>7, <1>8, <1>9, <1>10, <1>11
     DEF Next, Starting, Updating, Setting

LEMMA StepInv == Inv /\ [Next]_vars => Inv'
<1> SUFFICES ASSUME Inv, [Next]_vars PROVE Inv'
  OBVIOUS
<1>t. TypeOK /\ TypeOK'
  BY StepTyped DEF Inv
<1>n. /\ \A c \in CDNs : /\ Newest(c) \in Databases /\ Newest(c).cdn = c
                         /\ Newest(c).n = server[c]
      /\ cdn \in CDNs /\ home \in CDNs /\ wanted \in CDNs
      /\ server \in [CDNs -> 1 .. MaxVersion] /\ began \in Nat
  BY <1>t, NewestDatabase, Constants DEF TypeOK
<1> USE Constants
    DEF Boot, Exit, Settle, Press, Update, files, memory, threads, history,
        Begun, Booting, Loadable, ShowsCurrent, OneServer
<1>1. CASE Start
  BY <1>1, <1>t DEF Start, Inv
<1>2. CASE Options
  <2>1. cdn' \in CDNs /\ began' = server[cdn'] /\ server' = server /\ began' \in Nat
    BY <1>2, <1>n DEF Options, Inv, TypeOK
  <2> QED
    BY <1>2, <1>t, <2>1 DEF Options, Inv
<1>3. CASE UseDownloaded \/ CopyDownloaded \/ UnlinkDownloaded
  BY <1>3, <1>t DEF UseDownloaded, CopyDownloaded, UnlinkDownloaded, Inv
<1>4. CASE Check
  BY <1>4, <1>t, <1>n DEF Check, Inv
<1>5. CASE Fetch
  BY <1>5, <1>t, <1>n DEF Fetch, Inv
<1>6. CASE Load
  BY <1>6, <1>t DEF Load, Inv
<1>7. CASE UpdateCheck \/ UpdateFetch \/ Wake
  BY <1>7, <1>t DEF UpdateCheck, UpdateFetch, Wake, Inv
<1>8. ASSUME NEW c \in CDNs, TryCDN(c) PROVE Inv'
  BY <1>8, <1>t DEF TryCDN, Inv
<1>9. CASE UseCDN \/ RefuseCDN \/ DiscardDownloaded
  BY <1>9, <1>t DEF UseCDN, RefuseCDN, DiscardDownloaded, Inv
<1>10. CASE Save \/ WriteINI \/ Reset \/ RefreshDB
  BY <1>10, <1>t DEF Save, WriteINI, Reset, RefreshDB, Inv
<1>11. CASE Stop
  BY <1>11, <1>t DEF Stop, Inv
<1>12. ASSUME NEW c \in CDNs, Publish(c) PROVE Inv'
  <2>1. /\ server'[cdn] \in Nat /\ server[cdn] \in Nat /\ server[cdn] <= server'[cdn]
        /\ cdn' = cdn /\ pc' = pc /\ began' = began
    BY <1>n, <1>12 DEF Publish
  <2>2. Begun'
    BY <1>n, <2>1 DEF Inv
  <2> QED
    BY <1>12, <1>t, <2>2 DEF Publish, Inv
<1>13. CASE UNCHANGED vars
  BY <1>13, <1>t DEF vars, Inv
<1> QED
  BY <1>1, <1>2, <1>3, <1>4, <1>5, <1>6, <1>7, <1>8, <1>9, <1>10, <1>11, <1>12, <1>13
     DEF Next, Starting, Updating, Setting

LEMMA AlwaysInv == Spec => []Inv
  BY InitInv, StepInv, PTL DEF Spec

(* Every variable of the database's model keeps its type. *)
THEOREM DatabaseTyped == Spec => []TypeOK
<1>1. Inv => TypeOK
  BY DEF Inv
<1> QED
  BY <1>1, AlwaysInv, PTL

(* SQL_Load_DB reads a whole database of the Store's server that is at      *)
(* least as new as the Store's start, whatever files were left before.      *)
THEOREM DatabaseIsCurrent == Spec => []ShowsCurrent
<1>1. Inv => ShowsCurrent
  BY DEF Inv
<1> QED
  BY <1>1, AlwaysInv, PTL

(* check_for_updates and the CDN setting do not take turns in store.db.     *)
THEOREM DatabaseOfOneServer == Spec => []OneServer
<1>1. Inv => OneServer
  BY DEF Inv
<1> QED
  BY <1>1, AlwaysInv, PTL

-----------------------------------------------------------------------------
(* No database is ahead of its server, ... *)
Published == \A f \in {store_db, downloaded, db} \cap Databases : f.n <= server[f.cdn]

(* ... store.db is the one that is shown until the update thread opens it  *)
(* for another, whatever Settings does meanwhile, ...                       *)
Unmoved == pc = "run" /\ up # "fetch" => store_db = db

(* ... and it does that only when the server has a newer one.              *)
Outdated == pc = "run" /\ up = "fetch" => db.n < server[home]

(* The update thread restarts the Store for a newer database of the same   *)
(* server than the one that is shown, and for nothing else: it does not    *)
(* restart it again and again, and the setting of another server does not  *)
(* make it.                                                                 *)
RestartsForNewer == [][UpdateFetch => store_db'.cdn = db.cdn /\ db.n < store_db'.n]_vars

Newer == Published /\ Unmoved /\ Outdated

LEMMA NewerInit == Init => Newer
  BY Constants DEF Init, Newer, Published, Unmoved, Outdated

LEMMA PublishedStep ==
  ASSUME Inv, Published, [Next]_vars
  PROVE  Published'
<1>t. TypeOK
  BY DEF Inv
<1>n. /\ \A c \in CDNs : Newest(c) \in Databases /\ Newest(c).cdn = c /\ Newest(c).n = server[c]
      /\ \A c \in CDNs : server[c] \in Nat
      /\ cdn \in CDNs /\ home \in CDNs /\ wanted \in CDNs
  BY <1>t, NewestDatabase, Constants DEF TypeOK
<1>r. \A f \in Databases : f.cdn \in CDNs /\ f.n \in Nat
  BY Constants DEF Databases
(* A step writes files that were there, or the newest of some server. *)
<1>1. CASE /\ {store_db', downloaded', db'}
                \subseteq {store_db, downloaded, db, None, Broken} \cup {Newest(c) : c \in CDNs}
           /\ server' = server
  <2>1. \A c \in CDNs : Newest(c).n <= server[Newest(c).cdn]
    BY <1>n
  <2> HIDE DEF Newest
  <2> QED
    BY <1>1, <2>1, Constants DEF Published
<1>2. CASE \E c \in CDNs : Publish(c)
  <2>1. PICK c \in CDNs : Publish(c)
    BY <1>2
  <2>2. UNCHANGED <<store_db, downloaded, db>> /\ server' = [server EXCEPT ![c] = server[c] + 1]
        /\ server \in [CDNs -> 1 .. MaxVersion]
    BY <1>t, <2>1 DEF Publish, TypeOK, files, memory
  <2>3. \A d \in CDNs : server[d] <= server'[d] /\ server'[d] \in Nat
    BY <1>n, <2>2
  <2>4. \A f \in Databases : f.n <= server[f.cdn] => f.n <= server'[f.cdn]
    BY <1>n, <1>r, <2>3
  <2> QED
    BY <2>2, <2>4 DEF Published
<1> HIDE DEF Newest
<1>3. CASE Starting \/ Updating
  BY <1>1, <1>n, <1>3 DEF Starting, Updating, Start, Options, UseDownloaded, CopyDownloaded,
     UnlinkDownloaded, Check, Fetch, Load, UpdateCheck, UpdateFetch, Wake, Boot, Update,
     files, memory
<1>4. CASE Setting
  BY <1>1, <1>n, <1>4 DEF Setting, TryCDN, UseCDN, RefuseCDN, DiscardDownloaded, Save, WriteINI,
     Reset, RefreshDB, files, memory
<1>5. CASE Stop \/ UNCHANGED vars
  <2>1. UNCHANGED <<store_db, downloaded, db, server>>
    BY <1>5 DEF Stop, vars, files, memory
  <2> QED
    BY <1>1, <2>1
<1> QED
  BY <1>2, <1>3, <1>4, <1>5 DEF Next

LEMMA UnmovedStep ==
  ASSUME Inv, Unmoved, [Next]_vars
  PROVE  Unmoved'
<1> USE DEF Unmoved
<1>1. CASE Load
  BY <1>1 DEF Load, files
<1>2. CASE Starting /\ ~Load
  BY <1>2 DEF Starting, Start, Options, UseDownloaded, CopyDownloaded, UnlinkDownloaded, Check,
     Fetch, Boot
<1>3. CASE Updating
  BY <1>3 DEF Updating, UpdateCheck, UpdateFetch, Wake, Update, Exit, files, memory
<1>4. CASE Setting
  <2>1. pc' = "run" => UNCHANGED <<pc, up, store_db, db>>
    BY <1>4 DEF Setting, TryCDN, UseCDN, RefuseCDN, DiscardDownloaded, Save, WriteINI, Reset,
       RefreshDB, Settle, Press, Exit, files, memory
  <2> QED
    BY <2>1
<1>5. CASE Stop
  BY <1>5 DEF Stop, Exit
<1>6. CASE UNCHANGED vars \/ \E c \in CDNs : Publish(c)
  BY <1>6 DEF vars, Publish, threads, files, memory
<1> QED
  BY <1>1, <1>2, <1>3, <1>4, <1>5, <1>6 DEF Next

LEMMA OutdatedStep ==
  ASSUME Inv, Newer, [Next]_vars
  PROVE  Outdated'
<1>t. /\ server \in [CDNs -> 1 .. MaxVersion] /\ home \in CDNs /\ MaxVersion \in Nat
      /\ \A f \in Databases : f.n \in Nat
  BY Constants DEF Inv, TypeOK, Databases
<1> USE DEF Outdated
<1>1. CASE UpdateCheck
  <2>1. /\ pc = "run" /\ up = "check" /\ server' = server /\ home' = home /\ db' = db
        /\ up' = "fetch" => store_db # Newest(home)
    BY <1>1 DEF UpdateCheck, memory
  <2>2. SUFFICES ASSUME store_db # Newest(home) PROVE db.n < server[home]
    BY <2>1
  <2>3. db \in Databases /\ db.cdn = home /\ db = store_db
    BY <2>1 DEF Inv, ShowsCurrent, Newer, Unmoved
  <2>4. db.n <= server[home]
    BY <2>3 DEF Newer, Published
  <2>5. db.n # server[home]
    <3>1. SUFFICES ASSUME db.n = server[home] PROVE db = Newest(home)
      BY <2>2, <2>3
    <3> QED
      BY <2>3, <3>1 DEF Newest, Databases
  <2>6. db.n \in Nat /\ server[home] \in Nat
    BY <1>t, <2>3
  <2> QED
    BY <2>4, <2>5, <2>6
<1>2. CASE \E c \in CDNs : Publish(c)
  <2>1. /\ server[home] <= server'[home] /\ server[home] \in Nat /\ server'[home] \in Nat
        /\ UNCHANGED <<pc, up, db, home>>
    BY <1>t, <1>2 DEF Publish, threads, memory
  <2>2. pc = "run" => db.n \in Nat
    BY <1>t DEF Inv, ShowsCurrent
  <2> QED
    BY <2>1, <2>2 DEF Newer
<1>3. CASE Updating /\ ~UpdateCheck
  BY <1>3 DEF Updating, UpdateFetch, Wake, Update, Exit
<1>4. CASE Setting
  <2>1. pc' = "run" => UNCHANGED <<pc, up, db, server, home>>
    BY <1>4 DEF Setting, TryCDN, UseCDN, RefuseCDN, DiscardDownloaded, Save, WriteINI, Reset,
       RefreshDB, Settle, Press, Exit, files, memory
  <2> QED
    BY <2>1 DEF Newer
<1>5. CASE Starting
  BY <1>5 DEF Starting, Start, Options, UseDownloaded, CopyDownloaded, UnlinkDownloaded, Check,
     Fetch, Load, Boot
<1>6. CASE Stop
  BY <1>6 DEF Stop, Exit
<1>7. CASE UNCHANGED vars
  BY <1>7 DEF vars, threads, memory, Newer
<1> QED
  BY <1>1, <1>2, <1>3, <1>4, <1>5, <1>6, <1>7 DEF Next

(* check_for_updates ends the Store (for the Loader to start it again) only *)
(* for a database that is newer than the one on show: a database that was   *)
(* just loaded, or that Settings downloads, never sends it round in circles. *)
THEOREM RestartsOnlyForNewer == Spec => RestartsForNewer
<1>1. Inv /\ Newer /\ [Next]_vars => Newer'
  BY PublishedStep, UnmovedStep, OutdatedStep DEF Newer
<1>2. Inv /\ Newer /\ [Next]_vars =>
        [UpdateFetch => store_db'.cdn = db.cdn /\ db.n < store_db'.n]_vars
  <2> SUFFICES ASSUME Inv, Newer, UpdateFetch
               PROVE  store_db'.cdn = db.cdn /\ db.n < store_db'.n
    OBVIOUS
  <2>1. store_db' = Newest(home) /\ db.cdn = home /\ db.n < server[home]
    BY DEF UpdateFetch, Inv, ShowsCurrent, Newer, Outdated
  <2> QED
    BY <2>1, NewestDatabase DEF Inv, TypeOK
<1> QED
  BY <1>1, <1>2, NewerInit, AlwaysInv, PTL DEF Spec, RestartsForNewer
=============================================================================
