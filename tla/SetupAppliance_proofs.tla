------------------------ MODULE SetupAppliance_proofs ------------------------
(***************************************************************************)
(* Theorems about SetupAppliance for any networks, and any numbers of      *)
(* forms and faults.                                                       *)
(***************************************************************************)
EXTENDS SetupInvariant, TLAPS

USE NetworksAssumption, PairedAssumption, SetupBoundsAssumption
USE DEF radio, hotspot, service, saved, portal, history, bounds, Well, Fault, Stopping, Values

\* The files of a form are different ones, and there are two or four.
LEMMA WritesFacts ==
  ASSUME TypeOK
  PROVE  /\ Len(Writes) \in {2, 4} /\ DOMAIN Writes = 1..Len(Writes)
         /\ \A i \in DOMAIN Writes : i < Len(Writes) => i + 1 \in 1..4
         /\ \A i \in DOMAIN Writes : Writes[i] \in Names
         /\ \A i, j \in DOMAIN Writes : Writes[i] = Writes[j] => i = j
         /\ flavor = "standalone" => \A i \in DOMAIN Writes : Writes[i] \notin {"url", "code"}
<1>1. CASE flavor = "satellite"
  <2>1. Writes = <<"name", "room", "url", "code">>
    BY <1>1 DEF Writes
  <2>2. QED
    BY <1>1, <2>1 DEF Names
<1>2. CASE flavor # "satellite"
  <2>1. Writes = <<"name", "room">>
    BY <1>2 DEF Writes
  <2>2. QED
    BY <2>1 DEF Names
<1>3. QED
  BY <1>1, <1>2

\* The scalar parts: what they say and the types of what they are about.
Scalars == HotspotTypeOK /\ Turns /\ Interface

\* The portal's part, which the hotspot does not disturb while threads run.
PortalInv == TypeOK /\ Progress /\ Kept

-----------------------------------------------------------------------------
(* The hotspot and its service.                                            *)

HotspotMoves ==
  \/ CheckWifi \/ WaitForWifi \/ Begin \/ TakeInterface \/ StartHostapd \/ StartPortal
  \/ MainStops \/ StopperStops
  \/ StartUnit \/ MainExits \/ UnitEnds
  \/ HotspotFails
  \/ Join
  \/ \E n \in Networks : Wander(n)

LEMMA HotspotTypes ==
  ASSUME SetupInv, HotspotMoves
  PROVE  HotspotTypeOK' /\ UNCHANGED profiles
<1> USE DEF SetupInv, TypeOK, HotspotTypeOK
<1>1. CASE CheckWifi
  BY <1>1 DEF CheckWifi, MainTo
<1>2. CASE WaitForWifi
  BY <1>2 DEF WaitForWifi, MainTo
<1>3. CASE Begin
  <2>1. active' \in BOOLEAN /\ ap' \in BOOLEAN
    BY <1>3, Zenon DEF Begin
  <2>2. QED
    BY <1>3, <2>1 DEF Begin
<1>4. CASE TakeInterface
  <2>1. managed' \in BOOLEAN
    BY <1>4, Zenon DEF TakeInterface
  <2>2. QED
    BY <1>4, <2>1 DEF TakeInterface
<1>5. CASE StartHostapd
  <2>1. ap' \in BOOLEAN
    BY <1>5, Zenon DEF StartHostapd
  <2>2. QED
    BY <1>5, <2>1 DEF StartHostapd
<1>6. CASE StartPortal
  BY <1>6 DEF StartPortal, MainTo
<1>7. ASSUME NEW step, StopServices(step)
      PROVE  managed' \in BOOLEAN /\ ap' \in BOOLEAN /\ active' \in BOOLEAN
  BY <1>7, Zenon DEF StopServices
<1>8. CASE MainStops
  BY <1>7, <1>8 DEF MainStops, After
<1>9. CASE StopperStops
  BY <1>7, <1>9 DEF StopperStops, After
<1>10. CASE StartUnit
  BY <1>10 DEF StartUnit
<1>11. CASE MainExits
  BY <1>11 DEF MainExits, StopUnit
<1>12. CASE UnitEnds
  <2>1. again' \in BOOLEAN
    BY <1>12, Zenon DEF UnitEnds
  <2>2. QED
    BY <1>12, <2>1 DEF UnitEnds
<1>13. CASE HotspotFails
  <2>1. again' \in BOOLEAN
    BY <1>13, Zenon DEF HotspotFails
  <2>2. QED
    BY <1>13, <2>1 DEF HotspotFails, MainFails
<1>14. CASE Join
  BY <1>14 DEF Join
<1>15. ASSUME NEW n \in Networks, Wander(n)
       PROVE  HotspotTypeOK' /\ UNCHANGED profiles
  BY <1>15 DEF Wander
<1>16. QED
  BY <1>1, <1>2, <1>3, <1>4, <1>5, <1>6, <1>8, <1>9, <1>10, <1>11, <1>12, <1>13, <1>14, <1>15
  DEF HotspotMoves

LEMMA HotspotTurns ==
  ASSUME SetupInv, HotspotMoves, HotspotTypeOK', UNCHANGED portal
  PROVE  Turns' /\ Interface'
<1> USE DEF SetupInv, TypeOK, HotspotTypeOK, Turns, Interface, Busy
<1>1. CASE CheckWifi
  BY <1>1 DEF CheckWifi, MainTo
<1>2. CASE WaitForWifi
  BY <1>2 DEF WaitForWifi, MainTo
<1>3. CASE Begin
  BY <1>3 DEF Begin
<1>4. CASE TakeInterface
  BY <1>4 DEF TakeInterface
<1>5. CASE StartHostapd
  BY <1>5 DEF StartHostapd
<1>6. CASE StartPortal
  BY <1>6 DEF StartPortal, MainTo
<1>7. CASE MainStops
  BY <1>7 DEF MainStops, After, StopServices
<1>8. CASE StopperStops
  BY <1>8 DEF StopperStops, After, StopServices
<1>9. CASE StartUnit
  BY <1>9 DEF StartUnit
<1>10. CASE MainExits
  BY <1>10 DEF MainExits, StopUnit
<1>11. CASE UnitEnds
  BY <1>11 DEF UnitEnds
<1>12. CASE HotspotFails
  BY <1>12 DEF HotspotFails, MainFails
<1>13. CASE Join
  BY <1>13 DEF Join
<1>14. ASSUME NEW n \in Networks, Wander(n)
       PROVE  Turns' /\ Interface'
  BY <1>14 DEF Wander
<1>15. QED
  BY <1>1, <1>2, <1>3, <1>4, <1>5, <1>6, <1>7, <1>8, <1>9, <1>10, <1>11, <1>12, <1>13, <1>14
  DEF HotspotMoves

\* The portal's part depends on the profiles, the portal and the history.
LEMMA PortalKept ==
  ASSUME SetupInv, HotspotTypeOK', UNCHANGED <<profiles, flavor, portal, history, voice>>,
         posts' \in 0..MaxPosts, faults' \in 0..MaxFaults
  PROVE  PortalInv'
<1>1. TypeOK'
  BY DEF SetupInv, TypeOK, PortalTypeOK, Profiles
<1>2. Progress' /\ Kept'
  BY DEF SetupInv, Progress, Kept, FormDone, Busy, Entire, Writes
<1>3. QED
  BY <1>1, <1>2 DEF PortalInv

-----------------------------------------------------------------------------
(* The portal.                                                             *)

\* The portal's threads leave the hotspot alone.
LEMMA ThreadScalars ==
  ASSUME SetupInv, UNCHANGED <<radio, hotspot, service>>, profiles' \subseteq Profiles,
         main = "portal"
  PROVE  Scalars'
  BY DEF SetupInv, TypeOK, HotspotTypeOK, Scalars, Turns, Interface, Busy

LEMMA BusyPortal ==
  ASSUME SetupInv, NEW form \in Networks, request[form].step # "idle"
  PROVE  Busy(form) /\ main = "portal"
  BY DEF SetupInv, Turns, Busy, Idle

Steps == {"idle", "write", "rename", "sync"} \union Nmcli
Requests == [step : Steps, file : 1..4]

\* The types that a step of a thread can change.
LEMMA ThreadTypes ==
  ASSUME SetupInv, UNCHANGED <<radio, hotspot, service, flavor>>,
         profiles' \subseteq Profiles,
         request' \in [Networks -> Requests], finish' \subseteq Networks,
         files' \in [Names -> Values], temp' \in [Names -> Values],
         stored' \in [profiles : SUBSET Profiles, files : [Names -> Values]],
         flavor = "standalone" => files'["url"] = None /\ files'["code"] = None,
         voice' \in [Names -> Values] \union {None},
         settled' \in Values, hasty' \in BOOLEAN,
         posts' \in 0..MaxPosts, faults' \in 0..MaxFaults
  PROVE  TypeOK'
  BY DEF SetupInv, TypeOK, HotspotTypeOK, PortalTypeOK, Requests, Steps

\* A thread goes on: its own progress is what matters, and only if no form
\* has overlapped.
LEMMA ThreadProgress ==
  ASSUME SetupInv, TypeOK', NEW form \in Networks, NEW next, next \in Requests,
         Busy(form), Then(form, next), UNCHANGED <<flavor, stored, history>>,
         next.step \in {"write", "rename"} => next.file \in DOMAIN Writes,
         ~hasty => FormDone(form)'
  PROVE  Progress' /\ Kept'
<1>1. /\ request'[form] = next
      /\ \A other \in Networks \ {form} : request'[other] = request[other]
  BY DEF Then, SetupInv, TypeOK, PortalTypeOK
<1>2. settled = None
  BY DEF SetupInv, Kept
<1>3. Writes' = Writes
  BY DEF Writes
<1>4. ASSUME ~hasty'
      PROVE  \A f \in Networks :
               Busy(f)' => FormDone(f)' /\ \A other \in Networks : Busy(other)' => other = f
  <2>1. ~hasty
    BY <1>4
  <2>2. \A other \in Networks : Busy(other)' => other = form
    BY <1>1, <2>1 DEF SetupInv, Progress, Busy
  <2>3. QED
    BY <2>1, <2>2
<1>5. \A f \in Networks :
         request'[f].step \in {"write", "rename"} => request'[f].file \in DOMAIN Writes'
  BY <1>1, <1>3 DEF SetupInv, Progress
<1>6. QED
  BY <1>2, <1>4, <1>5 DEF SetupInv, Progress, Kept

\* A thread that ends leaves nothing to say of it.
LEMMA ThreadEnds ==
  ASSUME SetupInv, TypeOK', NEW form \in Networks, Busy(form), Then(form, Idle),
         UNCHANGED <<flavor, stored, history>>
  PROVE  Progress' /\ Kept'
<1>1. Idle \in Requests /\ Idle.step = "idle"
  BY DEF Idle, Requests, Steps
<1>2. request'[form] = Idle
  BY DEF Then, SetupInv, TypeOK, PortalTypeOK
<1>3. FormDone(form)'
  BY <1>1, <1>2 DEF FormDone
<1>4. QED
  BY <1>1, <1>3, ThreadProgress

LEMMA NextTypes ==
  ASSUME SetupInv, NEW form \in Networks, NEW next \in Requests, Then(form, next)
  PROVE  request' \in [Networks -> Requests]
  BY DEF Then, SetupInv, TypeOK, PortalTypeOK, Requests, Steps

LEMMA AtFacts ==
  /\ \A step \in Steps : At(step) \in Requests /\ At(step).step = step /\ At(step).file = 1
  /\ Idle \in Requests /\ Idle.step = "idle"
  /\ \A r \in Requests : [r EXCEPT !.step = "rename"] \in Requests
  /\ \A step \in Steps, file \in 1..4 : [step |-> step, file |-> file] \in Requests
  BY DEF At, Idle, Requests, Steps

\* What is common to the steps of a thread that save.
LEMMA SaveFrame ==
  ASSUME SetupInv, NEW form \in Networks, SaveStep(form) \/ Fails(form),
         UNCHANGED <<radio, hotspot, service, flavor, voice, history>>
  PROVE  /\ Busy(form) /\ main = "portal"
         /\ UNCHANGED <<stored, finish>>
         /\ settled = None
<1>1. request[form].step # "idle"
  BY DEF SaveStep, Fails, Delete, Add, Modify, SetKey, WriteTemporary, Rename, LosesOut
<1>2. UNCHANGED <<stored, finish>>
  BY DEF SaveStep, Fails, Delete, Add, Modify, SetKey, WriteTemporary, Rename, LosesOut, GiveUp
<1>3. QED
  BY <1>1, <1>2, BusyPortal DEF SetupInv, Kept

\* Types of what a saving step changes.
LEMMA SaveTypes ==
  ASSUME SetupInv, NEW form \in Networks, SaveStep(form) \/ Fails(form),
         UNCHANGED <<radio, hotspot, service, flavor, voice, history>>,
         posts' \in 0..MaxPosts, faults' \in 0..MaxFaults
  PROVE  TypeOK' /\ profiles' \subseteq Profiles
<1> USE DEF SetupInv, TypeOK, HotspotTypeOK, PortalTypeOK
<1>0. request[form] \in Requests /\ files \in [Names -> Values] /\ temp \in [Names -> Values]
  BY DEF Requests, Steps
<1>1. /\ profiles' \subseteq Profiles
      /\ request' \in [Networks -> Requests]
      /\ files' \in [Names -> Values] /\ temp' \in [Names -> Values]
      /\ flavor = "standalone" => files'["url"] = None /\ files'["code"] = None
  <2>1. CASE Delete(form)
    BY <2>1, AtFacts, NextTypes DEF Delete, Steps, Nmcli
  <2>2. CASE Add(form)
    BY <2>2, AtFacts, NextTypes DEF Add, Steps, Nmcli, Profile, Profiles
  <2>3. CASE Modify(form)
    BY <2>3, AtFacts, NextTypes DEF Modify, Steps, Nmcli
  <2>4. CASE SetKey(form)
    <3>1. profiles' \subseteq Profiles
      BY <2>4 DEF SetKey, Profiles
    <3>2. QED
      BY <2>4, <3>1, AtFacts, NextTypes DEF SetKey, Steps, Nmcli
  <2>5. CASE WriteTemporary(form)
    <3>1. [request[form] EXCEPT !.step = "rename"] \in Requests
      BY <1>0, AtFacts
    <3>2. QED
      BY <2>5, <3>1, <1>0, NextTypes DEF WriteTemporary
  <2>6. CASE Rename(form)
    <3> DEFINE file == request[form].file  name == Writes[file]
    <3>1. file \in DOMAIN Writes /\ name \in Names /\ file \in 1..4
      <4>1. file \in DOMAIN Writes
        BY <2>6 DEF Rename, Progress
      <4>2. QED
        BY <4>1, WritesFacts, <1>0 DEF Requests
    <3>2. file < Len(Writes) => file + 1 \in 1..4
      BY <3>1, WritesFacts
    <3>3. request' \in [Networks -> Requests]
      BY <2>6, <3>1, <3>2, AtFacts, NextTypes DEF Rename, Steps
    <3>4. files' = [files EXCEPT ![name] = temp[name]] /\ temp' = [temp EXCEPT ![name] = None]
      BY <2>6 DEF Rename
    <3>5. flavor = "standalone" => name \notin {"url", "code"}
      BY <3>1, WritesFacts
    <3>6. files' \in [Names -> Values] /\ temp' \in [Names -> Values]
      BY <3>1, <3>4, <1>0
    <3>7. flavor = "standalone" => files'["url"] = None /\ files'["code"] = None
      BY <3>4, <3>5 DEF Names
    <3>8. profiles' = profiles
      BY <2>6 DEF Rename
    <3>9. QED
      BY <3>3, <3>6, <3>7, <3>8
  <2>7. CASE LosesOut(form) \/ Fails(form)
    BY <2>7, AtFacts, NextTypes DEF LosesOut, Fails, GiveUp
  <2>8. QED
    BY <2>1, <2>2, <2>3, <2>4, <2>5, <2>6, <2>7 DEF SaveStep
<1>2. UNCHANGED <<stored, finish>>
  BY SaveFrame
<1>3. QED
  BY <1>1, <1>2, ThreadTypes

\* How a saving step brings its form on.
LEMMA SaveProgress ==
  ASSUME SetupInv, TypeOK', NEW form \in Networks, SaveStep(form) \/ Fails(form),
         UNCHANGED <<radio, hotspot, service, flavor, voice, history>>
  PROVE  Progress' /\ Kept'
<1> DEFINE r == request[form]
<1>0. /\ Busy(form) /\ UNCHANGED <<stored, finish>>
      /\ r \in Requests /\ request \in [Networks -> Requests]
      /\ Writes' = Writes
      /\ ~hasty => FormDone(form)
      /\ r.step \in {"write", "rename"} => r.file \in DOMAIN Writes
  BY SaveFrame DEF SetupInv, Progress, TypeOK, PortalTypeOK, Requests, Steps, Writes
<1>00. 1 \in DOMAIN Writes /\ ~(\E i \in DOMAIN Writes : i < 1)
  BY WritesFacts DEF SetupInv
<1>1. CASE Delete(form)
  <2>1. Then(form, At("add")) /\ profiles' = {}
    BY <1>1 DEF Delete
  <2>2. At("add") \in Requests /\ At("add").step = "add"
    BY AtFacts DEF Steps, Nmcli
  <2>3. FormDone(form)'
    BY <1>0, <2>1, <2>2 DEF FormDone, Then
  <2>4. QED
    BY <1>0, <2>1, <2>2, <2>3, ThreadProgress
<1>2. CASE Add(form)
  <2>1. Then(form, At("modify")) /\ r.step = "add" /\ profiles' = profiles \union {Profile(form, None)}
    BY <1>2 DEF Add
  <2>2. At("modify") \in Requests /\ At("modify").step = "modify"
    BY AtFacts DEF Steps, Nmcli
  <2>3. ~hasty => FormDone(form)'
    BY <1>0, <2>1, <2>2 DEF FormDone, Then
  <2>4. QED
    BY <1>0, <2>1, <2>2, <2>3, ThreadProgress
<1>3. CASE Modify(form)
  <2> DEFINE next == At(IF form \in Open THEN "write" ELSE "key")
  <2>1. Then(form, next) /\ r.step = "modify" /\ profiles' = profiles
    BY <1>3 DEF Modify
  <2>2. /\ next \in Requests /\ next.file = 1
        /\ next.step = IF form \in Open THEN "write" ELSE "key"
    BY AtFacts DEF Steps, Nmcli
  <2>3. request'[form] = next
    BY <1>0, <2>1 DEF Then
  <2> HIDE DEF next
  <2>4. ~hasty => FormDone(form)'
    BY <1>0, <1>00, <2>1, <2>2, <2>3 DEF FormDone, Key
  <2>5. QED
    BY <1>0, <1>00, <2>1, <2>2, <2>4, ThreadProgress
<1>4. CASE SetKey(form)
  <2>1. /\ Then(form, At("write")) /\ r.step = "key"
        /\ \E p \in profiles :
             profiles' = (profiles \ {p}) \union {[p EXCEPT !.key = form]}
    BY <1>4 DEF SetKey
  <2>2. At("write") \in Requests /\ At("write").file = 1 /\ At("write").step = "write"
    BY AtFacts DEF Steps
  <2>3. request'[form] = At("write")
    BY <1>0, <2>1 DEF Then
  <2>4. [Profile(form, None) EXCEPT !.key = form] = Profile(form, form)
    BY DEF Profile
  <2>5. ~hasty => profiles' = {Profile(form, Key(form))}
    BY <1>0, <2>1, <2>4 DEF FormDone, Key
  <2>6. ~hasty => FormDone(form)'
    BY <1>0, <1>00, <2>2, <2>3, <2>5 DEF FormDone, Key
  <2>7. QED
    BY <1>0, <1>00, <2>1, <2>2, <2>6, ThreadProgress
<1>5. CASE WriteTemporary(form)
  <2> DEFINE next == [r EXCEPT !.step = "rename"]
  <2>1. /\ Then(form, next) /\ r.step = "write" /\ UNCHANGED <<profiles, files>>
        /\ temp' = [temp EXCEPT ![Writes[r.file]] = form]
    BY <1>5 DEF WriteTemporary
  <2>2. next \in Requests /\ next.file = r.file /\ next.step = "rename"
    BY <1>0, AtFacts DEF Requests
  <2>3. request'[form] = next
    BY <1>0, <2>1 DEF Then
  <2>4. temp'[Writes[r.file]] = form
    BY <1>0, <2>1, WritesFacts DEF SetupInv, TypeOK, PortalTypeOK
  <2> HIDE DEF next
  <2>5. ~hasty => FormDone(form)'
    BY <1>0, <2>1, <2>2, <2>3, <2>4 DEF FormDone
  <2>6. QED
    BY <1>0, <2>1, <2>2, <2>5, ThreadProgress
<1>6. CASE Rename(form)
  <2> DEFINE next == IF r.file < Len(Writes) THEN [step |-> "write", file |-> r.file + 1]
                                             ELSE At("sync")
  <2>1. /\ Then(form, next) /\ r.step = "rename" /\ profiles' = profiles
        /\ files' = [files EXCEPT ![Writes[r.file]] = temp[Writes[r.file]]]
    BY <1>6 DEF Rename
  <2>2. r.file \in 1..Len(Writes) /\ Len(Writes) \in {2, 4} /\ DOMAIN Writes = 1..Len(Writes)
    BY <1>0, <2>1, WritesFacts DEF SetupInv
  <2>3. /\ next \in Requests
        /\ r.file < Len(Writes) => next.step = "write" /\ next.file = r.file + 1
        /\ ~(r.file < Len(Writes)) => next.step = "sync"
    <3>1. CASE r.file < Len(Writes)
      <4>1. r.file + 1 \in 1..4
        BY <1>0, <2>1, <3>1, WritesFacts DEF SetupInv
      <4>2. QED
        BY <3>1, <4>1, AtFacts DEF Steps
    <3>2. CASE ~(r.file < Len(Writes))
      BY <3>2, AtFacts DEF Steps
    <3>3. QED
      BY <3>1, <3>2
  <2>4. request'[form] = next
    BY <1>0, <2>1 DEF Then
  <2> HIDE DEF next
  <2>5. ~hasty => \A i \in DOMAIN Writes : i <= r.file => files'[Writes[i]] = form
    <3> SUFFICES ASSUME ~hasty, NEW i \in DOMAIN Writes, i <= r.file
                 PROVE  files'[Writes[i]] = form
      OBVIOUS
    <3>1. files \in [Names -> Values] /\ Writes[i] \in Names /\ Writes[r.file] \in Names
      BY <2>2, WritesFacts DEF SetupInv, TypeOK, PortalTypeOK
    <3>2. CASE i = r.file
      BY <1>0, <2>1, <3>1, <3>2 DEF FormDone
    <3>3. CASE i # r.file
      <4>1. i < r.file /\ Writes[i] # Writes[r.file]
        BY <2>2, <3>3, WritesFacts DEF SetupInv
      <4>2. QED
        BY <1>0, <2>1, <3>1, <4>1 DEF FormDone
    <3>4. QED
      BY <3>2, <3>3
  <2>6. ~hasty => profiles = {Profile(form, Key(form))}
    BY <1>0, <2>1 DEF FormDone
  <2>7. CASE r.file < Len(Writes)
    <3>1. ~hasty => FormDone(form)'
      BY <1>0, <2>1, <2>2, <2>3, <2>4, <2>5, <2>6, <2>7 DEF FormDone, Key
    <3>2. next.file \in DOMAIN Writes
      BY <2>2, <2>3, <2>7
    <3>3. QED
      BY <1>0, <2>1, <2>3, <3>1, <3>2, ThreadProgress
  <2>8. CASE ~(r.file < Len(Writes))
    <3>1. ~hasty => Entire(form)'
      BY <1>0, <2>1, <2>2, <2>5, <2>6, <2>8 DEF Entire, Key
    <3>2. ~hasty => FormDone(form)'
      BY <1>0, <2>1, <2>3, <2>4, <2>6, <2>8, <3>1 DEF FormDone, Key
    <3>3. QED
      BY <1>0, <2>1, <2>3, <2>8, <3>2, ThreadProgress
  <2>9. QED
    BY <2>7, <2>8
<1>7. CASE LosesOut(form) \/ Fails(form)
  <2>1. Then(form, Idle)
    BY <1>7 DEF LosesOut, Fails, GiveUp
  <2>2. QED
    BY <1>0, <2>1, ThreadEnds
<1>8. QED
  BY <1>1, <1>2, <1>3, <1>4, <1>5, <1>6, <1>7 DEF SaveStep

-----------------------------------------------------------------------------
(* The other actions.                                                      *)

LEMMA PostInv ==
  ASSUME SetupInv, NEW form \in Networks, PostForm(form)
  PROVE  SetupInv'
<1>0. /\ main = "portal" /\ ~Busy(form) /\ profiles' = profiles
      /\ Then(form, At("delete")) /\ UNCHANGED <<saved, finish, flavor>>
      /\ At("delete") \in Requests /\ At("delete").step = "delete"
      /\ settled' = None /\ hasty' = (Pending \/ unit # "running")
      /\ posts' \in 0..MaxPosts
  BY AtFacts DEF PostForm, Post, Steps, Nmcli, SetupInv, TypeOK
<1>1. hasty' \in BOOLEAN /\ settled' \in Values
  BY <1>0, Zenon DEF Values
<1>2. TypeOK'
  BY <1>0, <1>1, NextTypes, ThreadTypes
  DEF PostForm, SetupInv, TypeOK, HotspotTypeOK, PortalTypeOK
<1>3. Scalars'
  BY <1>0, ThreadScalars DEF PostForm, SetupInv, TypeOK, HotspotTypeOK
<1>4. /\ request'[form] = At("delete")
      /\ \A other \in Networks \ {form} : request'[other] = request[other]
  BY <1>0 DEF Then, SetupInv, TypeOK, PortalTypeOK
<1>5. FormDone(form)'
  BY <1>0, <1>4 DEF FormDone
<1>6. ~hasty' => \A other \in Networks : Busy(other)' => other = form
  BY <1>0, <1>4 DEF Pending, Busy
<1>7. Progress'
  BY <1>0, <1>4, <1>5, <1>6 DEF SetupInv, Progress, Writes
<1>8. Kept'
  BY <1>0 DEF Kept
<1>9. QED
  BY <1>2, <1>3, <1>7, <1>8 DEF SetupInv, Scalars

\* The thread that has saved: with or without its answer.
LEMMA SyncInv ==
  ASSUME SetupInv, NEW form \in Networks,
         request[form].step = "sync",
         stored' = [profiles |-> profiles, files |-> files],
         Then(form, Idle), finish' \subseteq Networks,
         UNCHANGED <<profiles, files, temp, radio, hotspot, service, flavor, voice, hasty>>,
         settled' = settled \/ (~hasty /\ settled' = form) \/ settled' = None,
         posts' \in 0..MaxPosts, faults' \in 0..MaxFaults
  PROVE  SetupInv'
<1>0. /\ Busy(form) /\ main = "portal" /\ settled = None
      /\ request'[form] = Idle
      /\ \A other \in Networks \ {form} : request'[other] = request[other]
      /\ ~hasty => Entire(form) /\ \A other \in Networks : Busy(other) => other = form
  BY BusyPortal DEF SetupInv, Kept, Then, TypeOK, PortalTypeOK, Progress, FormDone
<1>1. TypeOK'
  <2>1. request' \in [Networks -> Requests] /\ settled' \in Values
    BY AtFacts, NextTypes DEF SetupInv, TypeOK
  <2>2. QED
    BY <2>1, ThreadTypes DEF SetupInv, TypeOK, HotspotTypeOK, PortalTypeOK
<1>2. Scalars'
  BY <1>0, ThreadScalars DEF SetupInv, TypeOK, HotspotTypeOK
<1>3. \A f \in Networks : Busy(f)' => Busy(f) /\ f # form
  BY <1>0 DEF Busy
<1>4. Progress'
  <2>1. flavor = "standalone" => stored'.files["url"] = None /\ stored'.files["code"] = None
    BY DEF SetupInv, TypeOK, PortalTypeOK
  <2>2. ~hasty => \A f \in Networks : ~Busy(f)'
    BY <1>0, <1>3
  <2>3. Idle.step = "idle"
    BY AtFacts
  <2>4. QED
    BY <1>0, <2>1, <2>2, <2>3 DEF SetupInv, Progress, Writes
<1>5. Kept'
  <2>1. settled' # None => ~hasty /\ settled' = form
    BY <1>0
  <2>2. Entire(form) => Entire(form)'
    BY DEF Entire, Writes
  <2>3. QED
    BY <1>0, <1>3, <2>1, <2>2 DEF Kept, Entire, Writes
<1>6. QED
  BY <1>1, <1>2, <1>4, <1>5 DEF SetupInv, Scalars

LEMMA SavedInv ==
  ASSUME SetupInv, NEW form \in Networks, Saved(form) \/ AnswerLost(form)
  PROVE  SetupInv'
<1>1. CASE Saved(form)
  BY <1>1, SyncInv DEF Saved, SyncAndAnswer, SetupInv, TypeOK, PortalTypeOK
<1>2. CASE AnswerLost(form)
  BY <1>2, SyncInv DEF AnswerLost, SetupInv, TypeOK, PortalTypeOK
<1>3. QED
  BY <1>1, <1>2

LEMMA FinishInv ==
  ASSUME SetupInv, NEW form \in Networks, FinishSetup(form)
  PROVE  SetupInv'
<1>0. /\ main = "portal" /\ finish' \subseteq finish /\ voice' = None
      /\ UNCHANGED <<profiles, radio, hotspot, flavor, saved, request, history, bounds>>
      /\ unit \in {"running", "stopping"} /\ unit' = "stopping"
      /\ stopper' = IF unit = "running" THEN "kill" ELSE stopper
  BY DEF FinishSetup, RestartUnit, StopUnit, SetupInv, Turns
<1>1. again' \in BOOLEAN
  BY Zenon DEF FinishSetup, RestartUnit
<1>2. HotspotTypeOK'
  BY <1>0, <1>1 DEF SetupInv, TypeOK, HotspotTypeOK
<1>3. TypeOK'
  BY <1>0, <1>2 DEF SetupInv, TypeOK, PortalTypeOK
<1>4. Turns' /\ Interface'
  BY <1>0 DEF SetupInv, TypeOK, HotspotTypeOK, Turns, Interface, Busy
<1>5. Progress' /\ Kept'
  BY <1>0 DEF SetupInv, Progress, Kept, FormDone, Busy, Entire, Writes
<1>6. QED
  BY <1>3, <1>4, <1>5 DEF SetupInv

\* The portal ends, with its threads.
LEMMA PortalEndsInv ==
  ASSUME SetupInv, TypeOK', PortalEnds, UNCHANGED <<profiles, saved, flavor, settled>>
  PROVE  Progress' /\ Kept'
<1>1. \A form \in Networks : ~Busy(form)' /\ request'[form].step = "idle"
  BY AtFacts DEF PortalEnds, Busy
<1>2. QED
  BY <1>1 DEF SetupInv, Progress, Kept, Entire, Writes

LEMMA NoThreads ==
  ASSUME PortalEnds
  PROVE  /\ request' \in [Networks -> Requests] /\ finish' = {}
         /\ \A form \in Networks : ~Busy(form)'
  BY AtFacts DEF PortalEnds, Busy

LEMMA EndPortalInv ==
  ASSUME SetupInv, EndPortal
  PROVE  SetupInv'
<1>0. /\ UNCHANGED <<profiles, radio, ap, active, service, flavor, saved, voice, history, bounds>>
      /\ unit = "term"
      /\ \/ main = "portal" /\ main' = "kill" /\ PortalEnds
         \/ main \in Stopping /\ main' = "off" /\ UNCHANGED <<request, finish>>
  BY DEF EndPortal, Terminate
<1>1. /\ request' \in [Networks -> Requests] /\ finish' \subseteq Networks
      /\ \A form \in Networks : ~Busy(form)' /\ finish' = {}
  BY <1>0, NoThreads DEF SetupInv, TypeOK, PortalTypeOK, Turns, Busy, Requests, Steps
<1>2. TypeOK'
  BY <1>0, <1>1 DEF SetupInv, TypeOK, HotspotTypeOK, PortalTypeOK, Requests, Steps
<1>3. Turns' /\ Interface'
  BY <1>0, <1>1, NoThreads DEF SetupInv, TypeOK, HotspotTypeOK, Turns, Interface, Busy
<1>4. Progress' /\ Kept'
  <2>1. CASE PortalEnds
    BY <1>0, <1>2, <2>1, PortalEndsInv
  <2>2. CASE UNCHANGED request
    BY <1>0, <2>2 DEF SetupInv, Progress, Kept, FormDone, Busy, Entire, Writes
  <2>3. QED
    BY <1>0, <2>1, <2>2
<1>5. QED
  BY <1>2, <1>3, <1>4 DEF SetupInv

LEMMA PortalDiesInv ==
  ASSUME SetupInv, PortalDies, PortalEnds, hasty' = (hasty \/ finish # {}),
         UNCHANGED <<saved, flavor, voice, settled, posts>>, faults' \in 0..MaxFaults
  PROVE  SetupInv'
<1>0. /\ UNCHANGED <<profiles, radio, ap, active, stopper, unit>>
      /\ main = "portal" /\ main' = "kill"
  BY DEF PortalDies, MainFails
<1>1. again' \in BOOLEAN /\ hasty' \in BOOLEAN
  BY Zenon DEF PortalDies
<1>2. TypeOK'
  BY <1>0, <1>1, NoThreads DEF SetupInv, TypeOK, HotspotTypeOK, PortalTypeOK, Requests, Steps
<1>3. Turns' /\ Interface'
  BY <1>0, NoThreads DEF SetupInv, TypeOK, HotspotTypeOK, Turns, Interface, Busy
<1>4. Progress' /\ Kept'
  BY <1>0, <1>2, PortalEndsInv
<1>5. QED
  BY <1>2, <1>3, <1>4 DEF SetupInv

LEMMA PowerLossInv ==
  ASSUME SetupInv, PowerLoss
  PROVE  SetupInv'
<1>0. /\ profiles' \in {profiles, stored.profiles}
      /\ stored' = [profiles |-> profiles', files |-> files']
      /\ HotspotAtBoot /\ PortalEnds /\ voice' = None
      /\ UNCHANGED <<air, temp, flavor, history, posts>> /\ faults' \in 0..MaxFaults
  BY DEF PowerLoss, SetupInv, TypeOK
<1>1. PICK kept \in SUBSET {name \in Names : files[name] # stored.files[name]} :
        files' = [name \in Names |-> IF name \in kept THEN files[name] ELSE stored.files[name]]
  BY DEF PowerLoss
<1>2. /\ profiles' \subseteq Profiles
      /\ files' \in [Names -> Values]
      /\ flavor = "standalone" => files'["url"] = None /\ files'["code"] = None
  BY <1>0, <1>1 DEF SetupInv, TypeOK, HotspotTypeOK, PortalTypeOK, Progress, Names
<1>3. TypeOK'
  <2>1. /\ managed' \in BOOLEAN /\ ap' \in BOOLEAN
        /\ active' \in BOOLEAN /\ again' \in BOOLEAN
    BY <1>0, Zenon DEF HotspotAtBoot
  <2>2. HotspotTypeOK'
    BY <1>0, <1>2, <2>1 DEF HotspotAtBoot, SetupInv, TypeOK, HotspotTypeOK
  <2>3. PortalTypeOK'
    BY <1>0, <1>2, NoThreads DEF SetupInv, TypeOK, PortalTypeOK, Requests, Steps
  <2>4. QED
    BY <1>0, <2>2, <2>3 DEF SetupInv, TypeOK
<1>4. Turns' /\ Interface'
  BY <1>0, NoThreads DEF HotspotAtBoot, Turns, Interface
<1>5. Progress'
  <2>1. \A form \in Networks : ~Busy(form)' /\ request'[form].step = "idle"
    BY <1>0, AtFacts DEF PortalEnds, Busy
  <2>2. QED
    BY <1>0, <1>2, <2>1 DEF Progress
<1>6. Kept'
  <2>1. settled # None => profiles' = profiles /\ files' = files
    <3>1. settled # None => stored.profiles = profiles /\ stored.files = files
      BY DEF SetupInv, Kept
    <3>2. files \in [Names -> Values]
      BY DEF SetupInv, TypeOK, PortalTypeOK
    <3>3. QED
      BY <1>0, <1>1, <3>1, <3>2
  <2>2. QED
    BY <1>0, <2>1, NoThreads DEF SetupInv, Kept, Entire, Writes
<1>7. QED
  BY <1>3, <1>4, <1>5, <1>6 DEF SetupInv

LEMMA HotspotInv ==
  ASSUME SetupInv, HotspotMoves, UNCHANGED <<flavor, portal, voice, history>>,
         posts' \in 0..MaxPosts, faults' \in 0..MaxFaults
  PROVE  SetupInv'
<1>1. HotspotTypeOK' /\ UNCHANGED profiles
  BY HotspotTypes
<1>2. Turns' /\ Interface'
  BY <1>1, HotspotTurns
<1>3. PortalInv'
  BY <1>1, PortalKept
<1>4. QED
  BY <1>2, <1>3 DEF SetupInv, PortalInv

LEMMA SaveInv ==
  ASSUME SetupInv, NEW form \in Networks, SaveStep(form) \/ Fails(form),
         UNCHANGED <<radio, hotspot, service, flavor, voice, history>>,
         posts' \in 0..MaxPosts, faults' \in 0..MaxFaults
  PROVE  SetupInv'
<1>1. TypeOK' /\ profiles' \subseteq Profiles
  BY SaveTypes
<1>2. Scalars'
  BY <1>1, SaveFrame, ThreadScalars
<1>3. Progress' /\ Kept'
  BY <1>1, SaveProgress
<1>4. QED
  BY <1>1, <1>2, <1>3 DEF SetupInv, Scalars

LEMMA VoiceInv ==
  ASSUME SetupInv, StartVoice
  PROVE  SetupInv'
<1>1. /\ voice' = files
      /\ UNCHANGED <<profiles, radio, hotspot, service, flavor, portal, history, bounds>>
  BY DEF StartVoice
<1>2. QED
  BY <1>1 DEF SetupInv, TypeOK, HotspotTypeOK, PortalTypeOK, Turns, Interface, Progress, Kept,
              FormDone, Busy, Entire, Writes

-----------------------------------------------------------------------------
(* The invariant and what follows from it.                                 *)

LEMMA InitInv == Init => SetupInv
<1> SUFFICES ASSUME Init PROVE SetupInv
  OBVIOUS
<1>1. NoFiles \in [Names -> Values] /\ \A name \in Names : NoFiles[name] = None
  BY DEF NoFiles
<1>2. TypeOK
  <2>1. /\ managed \in BOOLEAN /\ ap \in BOOLEAN /\ active \in BOOLEAN
        /\ again \in BOOLEAN /\ hasty \in BOOLEAN
    BY Zenon DEF Init
  <2>2. HotspotTypeOK
    BY <2>1 DEF Init, HotspotTypeOK
  <2>3. PortalTypeOK
    BY <1>1, AtFacts DEF Init, PortalInit, PortalTypeOK, Requests, Steps, Names
  <2>4. QED
    BY <2>1, <2>2, <2>3 DEF Init, TypeOK
<1>3. \A form \in Networks : ~Busy(form) /\ request[form].step = "idle"
  BY AtFacts DEF Init, PortalInit, Busy
<1>4. Turns /\ Interface
  BY <1>3 DEF Init, PortalInit, Turns, Interface
<1>5. Progress /\ Kept
  BY <1>1, <1>3 DEF Init, PortalInit, Progress, Kept, Names
<1>6. QED
  BY <1>2, <1>4, <1>5 DEF SetupInv

LEMMA StepInv == SetupInv /\ [Next]_vars => SetupInv'
<1> SUFFICES ASSUME SetupInv, [Next]_vars PROVE SetupInv'
  OBVIOUS
<1>0. posts \in 0..MaxPosts /\ faults \in 0..MaxFaults
  BY DEF SetupInv, TypeOK
<1>1. CASE HotspotStep \/ JoinNetwork
  BY <1>0, <1>1, HotspotInv DEF HotspotStep, JoinNetwork, HotspotMoves
<1>2. CASE EndPortal
  BY <1>2, EndPortalInv
<1>3. ASSUME NEW form \in Networks,
             PostForm(form) \/ Saved(form) \/ FinishSetup(form) \/ AnswerLost(form)
      PROVE  SetupInv'
  BY <1>3, PostInv, SavedInv, FinishInv
<1>4. ASSUME NEW form \in Networks, Save(form) \/ SaveFails(form)
      PROVE  SetupInv'
  BY <1>0, <1>4, SaveInv DEF Save, SaveFails
<1>5. CASE StartVoice
  BY <1>5, VoiceInv
<1>6. CASE Failure
  <2>1. faults' \in 0..MaxFaults /\ posts' = posts /\ UNCHANGED <<flavor, voice, settled>>
    BY <1>0, <1>6 DEF Failure
  <2>2. CASE HotspotMoves /\ UNCHANGED <<portal, hasty>>
    BY <1>0, <2>1, <2>2, HotspotInv
  <2>3. CASE PortalDies /\ PortalEnds /\ hasty' = (hasty \/ finish # {}) /\ UNCHANGED saved
    BY <2>1, <2>3, PortalDiesInv
  <2>4. QED
    BY <1>6, <2>2, <2>3 DEF Failure, HotspotMoves
<1>7. CASE PowerLoss
  BY <1>7, PowerLossInv
<1>8. CASE UNCHANGED vars
  BY <1>8 DEF vars, SetupInv, TypeOK, HotspotTypeOK, PortalTypeOK, Turns, Interface, Progress,
              Kept, FormDone, Busy, Entire, Writes
<1>9. QED
  BY <1>1, <1>2, <1>3, <1>4, <1>5, <1>6, <1>7, <1>8 DEF Next

\* The invariant holds for any networks, forms and faults.
THEOREM SetupInvariantHolds == Spec => []SetupInv
  BY InitInv, StepInv, PTL DEF Spec

THEOREM SetupTypes == Spec => []TypeOK
<1>1. SetupInv => TypeOK
  BY DEF SetupInv
<1>2. QED
  BY <1>1, SetupInvariantHolds, PTL

\* NetworkManager is on a network only when hostapd was told to end.
THEOREM HotspotNeverBoth == Spec => []NeverBoth
<1>1. SetupInv => NeverBoth
  BY DEF SetupInv, Interface, NeverBoth
<1>2. QED
  BY <1>1, SetupInvariantHolds, PTL

\* A service that is over or starts afresh finds wlan0 returned.
THEOREM InterfaceIsReturned == Spec => []InterfaceReturned
<1>1. SetupInv => InterfaceReturned
  BY DEF SetupInv, Interface, InterfaceReturned
<1>2. QED
  BY <1>1, SetupInvariantHolds, PTL

\* What was answered "Setup saved" is there entirely, also after power losses.
THEOREM SavedIsWhole == Spec => []SavedWhole
<1>1. SetupInv => SavedWhole
  BY DEF SetupInv, Kept, SavedWhole
<1>2. QED
  BY <1>1, SetupInvariantHolds, PTL
=============================================================================
