--------------------------- MODULE SetupAppliance ---------------------------
(***************************************************************************)
(* Setup as a whole: the hotspot, the portal in it, the voice service that *)
(* reads what the portal writes, people who send forms and networks that   *)
(* come and go, power losses and failures.                                 *)
(***************************************************************************)
EXTENDS SetupPortal

CONSTANTS
  MaxPosts,  \* bound on the forms sent
  MaxFaults  \* bound on what fails or changes from outside

ASSUME SetupBoundsAssumption == MaxPosts \in Nat /\ MaxFaults \in Nat

VARIABLES
  voice,    \* what the voice service read when it started; None: it is to start
  settled,  \* history: the form of the last "Setup saved", with no other since
  hasty,    \* history: and forms have overlapped, or a restart was lost
  posts,    \* forms sent so far
  faults    \* faults so far

history == <<settled, hasty>>
bounds  == <<posts, faults>>
vars    == <<profiles, radio, hotspot, service, flavor, portal, voice, history, bounds>>

TypeOK ==
  /\ HotspotTypeOK
  /\ PortalTypeOK
  /\ voice \in [Names -> Values] \union {None}
  /\ settled \in Values
  /\ hasty \in BOOLEAN
  /\ posts \in 0..MaxPosts
  /\ faults \in 0..MaxFaults

Init ==
  /\ profiles = {}
  /\ air = Networks /\ wifi = None /\ managed = TRUE
  /\ ap = FALSE /\ active = FALSE /\ main = "off"
  /\ stopper = "off" /\ unit = "start" /\ again = FALSE
  /\ PortalInit
  /\ voice = None
  /\ settled = None /\ hasty = FALSE
  /\ posts = 0 /\ faults = 0

Well  == UNCHANGED bounds
Fault == faults < MaxFaults /\ faults' = faults + 1 /\ UNCHANGED posts

-----------------------------------------------------------------------------
(* The hotspot and its service.                                            *)

\* The portal that is told to end takes its threads with it.
HotspotStep ==
  /\ \/ CheckWifi \/ WaitForWifi \/ Begin \/ TakeInterface \/ StartHostapd \/ StartPortal
     \/ MainStops \/ StopperStops
     \/ StartUnit \/ MainExits \/ UnitEnds
  /\ UNCHANGED <<flavor, portal, voice, history>>
  /\ Well

EndPortal ==
  /\ Terminate
  /\ IF main = "portal" THEN PortalEnds ELSE UNCHANGED <<request, finish>>
  /\ UNCHANGED <<flavor, saved, voice, history>>
  /\ Well

JoinNetwork ==
  /\ Join
  /\ UNCHANGED <<flavor, portal, voice, history>>
  /\ Well

-----------------------------------------------------------------------------
(* The portal.                                                             *)

Pending == finish # {} \/ \E form \in Networks : Busy(form)

PostForm(form) ==
  /\ posts < MaxPosts
  /\ Post(form)
  /\ posts' = posts + 1
  /\ settled' = None
  /\ hasty' = (Pending \/ unit # "running")
  /\ UNCHANGED <<radio, hotspot, service, flavor, voice, faults>>

Save(form) ==
  /\ SaveStep(form)
  /\ UNCHANGED <<radio, hotspot, service, flavor, voice, history>>
  /\ Well

Saved(form) ==
  /\ SyncAndAnswer(form)
  /\ settled' = IF hasty THEN None ELSE form
  /\ UNCHANGED <<radio, hotspot, service, flavor, voice, hasty>>
  /\ Well

\* Mutant: the voice service is not restarted.
HotspotOnly(form) ==
  /\ form \in finish
  /\ finish' = finish \ {form}
  /\ RestartUnit
  /\ UNCHANGED <<flavor, saved, request, voice, history>>
  /\ Well

\* Mutant: the provisioning service is not restarted.
VoiceOnly(form) ==
  /\ form \in finish
  /\ finish' = finish \ {form}
  /\ voice' = None
  /\ UNCHANGED <<profiles, radio, hotspot, service, flavor, saved, request, history>>
  /\ Well

\* _finish_setup, after its two seconds.
FinishSetup(form) ==
  /\ form \in finish
  /\ finish' = finish \ {form}
  /\ RestartUnit
  /\ voice' = None
  /\ UNCHANGED <<flavor, saved, request, history>>
  /\ Well

\* The standalone image has a token of its own since its first boot, and its
\* Tater server is on the appliance: it reads the name and the room alone.
StartVoice ==
  /\ voice = None
  /\ voice' = files
  /\ UNCHANGED <<profiles, radio, hotspot, service, flavor, portal, history>>
  /\ Well

-----------------------------------------------------------------------------
(* What goes wrong.                                                        *)

Failure ==
  /\ \/ HotspotFails /\ UNCHANGED <<portal, hasty>>
     \/ PortalDies /\ PortalEnds /\ hasty' = (hasty \/ finish # {}) /\ UNCHANGED saved
     \/ (\E n \in Networks : Wander(n)) /\ UNCHANGED <<portal, hasty>>
  /\ UNCHANGED <<flavor, voice, settled>>
  /\ Fault

SaveFails(form) ==
  /\ Fails(form)
  /\ UNCHANGED <<radio, hotspot, service, flavor, voice, history>>
  /\ Fault

\* The phone is gone when "Setup saved" is sent to it: no thread is started.
AnswerLost(form) ==
  /\ request[form].step = "sync"
  /\ stored' = [profiles |-> profiles, files |-> files]
  /\ Then(form, Idle)
  /\ UNCHANGED <<profiles, files, temp, finish, radio, hotspot, service, flavor, voice, history>>
  /\ Fault

\* Each profile and file is as it was, or as the card last had it for sure.
PowerLoss ==
  /\ profiles' \in {profiles, stored.profiles}
  /\ \E kept \in SUBSET {name \in Names : files[name] # stored.files[name]} :
       files' = [name \in Names |-> IF name \in kept THEN files[name] ELSE stored.files[name]]
  /\ stored' = [profiles |-> profiles', files |-> files']
  /\ HotspotAtBoot
  /\ PortalEnds
  /\ voice' = None
  /\ UNCHANGED <<air, temp, flavor, history>>
  /\ Fault

Next ==
  \/ HotspotStep \/ EndPortal \/ JoinNetwork
  \/ \E form \in Networks : PostForm(form) \/ Save(form) \/ Saved(form) \/ FinishSetup(form)
  \/ StartVoice
  \/ Failure \/ PowerLoss
  \/ \E form \in Networks : SaveFails(form) \/ AnswerLost(form)

\* The scripts and systemd go on, the portal's threads run, NetworkManager
\* joins what it can.  Nobody has to send a form.
Fairness ==
  /\ WF_vars(HotspotStep) /\ WF_vars(EndPortal)
  /\ WF_vars(JoinNetwork)
  /\ WF_vars(StartVoice)
  /\ \A form \in Networks :
       WF_vars(Save(form)) /\ WF_vars(Saved(form)) /\ WF_vars(FinishSetup(form))

Spec == Init /\ [][Next]_vars /\ Fairness

-----------------------------------------------------------------------------
(* Properties.                                                             *)

\* NetworkManager is on a network only when hostapd was told to end: both
\* clean-ups, the trap's and ExecStop's, kill it before they return wlan0.
NeverBoth == wifi # None => ~ap

\* Whenever the service is over or looks for Wi-Fi afresh, wlan0 is
\* NetworkManager's, no hostapd is left and the LED service is not shown a
\* hotspot, however the last run ended.
InterfaceReturned ==
  unit \in {"dead", "start"} \/ main \in {"check", "wait"} => managed /\ ~ap /\ ~active

\* What was answered "Setup saved" is there entirely, profile and all files
\* from the one form, after a power loss too, as long as no form overlapped.
Entire(form) ==
  /\ profiles = {Profile(form, IF form \in Open THEN None ELSE form)}
  /\ \A i \in DOMAIN Writes : files[Writes[i]] = form

SavedWhole == settled # None => Entire(settled)

\* A service that starts comes to Wi-Fi or to a portal, for all the failures
\* of hostapd and the portal.  It looks for Wi-Fi once: a network lost after it
\* has ended brings no portal before the next start.
SetupComes == unit = "start" ~> (Connected \/ (main = "portal" /\ ap))

\* "The hotspot closes, control of Wi-Fi returns to NetworkManager, and the SAT1
\* joins the selected network without rebooting" (docs/PROVISIONING.md:24-25) and
\* stays there, if the network is in reach from the answer on.
Joined(form) == wifi = form /\ ~ap /\ unit = "dead"

Joins ==
  \A form \in Networks :
    [](settled = form => form \in air) /\ <>[](settled = form) => <>[]Joined(form)

\* The voice service comes to run on what was saved, unless a form overlapped
\* or the portal died in the two seconds before the restart.
VoiceTold ==
  \A form \in Networks :
    (settled = form /\ ~hasty) ~>
      (settled # form \/ hasty \/ (voice # None /\ \A i \in DOMAIN Writes : voice[Writes[i]] = form))
=============================================================================
