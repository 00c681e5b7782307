----------------------------- MODULE SetupPortal -----------------------------
(***************************************************************************)
(* The setup portal (setup_portal.py, provisioning.py): a thread for each  *)
(* form that is sent.  It replaces the Wi-Fi profile by four nmcli calls,  *)
(* then writes the files of the voice service one after the other, each to *)
(* a temporary file of one name that is renamed.  No lock keeps two forms  *)
(* apart.  A form is named for the network it asks for, and every file it  *)
(* makes has that name for its value.                                      *)
(***************************************************************************)
EXTENDS SetupHotspot, Sequences

CONSTANT Paired  \* the forms with a server address and a pairing code

ASSUME PairedAssumption == Paired \subseteq Networks

VARIABLES
  flavor,   \* the image: "standalone" or "satellite"
  files,    \* the files that the voice service reads
  temp,     \* the temporary file of each
  stored,   \* the profiles and the files as the card is sure to have them
  request,  \* what the thread of each form does next
  finish    \* the saved forms whose restart of the services is to come

saved  == <<files, temp, stored>>
portal == <<saved, request, finish>>

Names  == {"name", "room", "url", "code"}
Values == Networks \union {None}

\* Mutant: the standalone image is given the address too.
UrlForAll == <<"name", "room", "url">>

\* What save_configuration writes, in this order.
Writes == IF flavor = "satellite" THEN <<"name", "room", "url", "code">> ELSE <<"name", "room">>

Idle       == [step |-> "idle", file |-> 1]
At(step)   == [step |-> step, file |-> 1]
Nmcli      == {"delete", "add", "modify", "key"}
Busy(form) == request[form] # Idle

PortalTypeOK ==
  /\ flavor \in {"standalone", "satellite"}
  /\ files \in [Names -> Values] /\ temp \in [Names -> Values]
  /\ stored \in [profiles : SUBSET Profiles, files : [Names -> Values]]
  /\ request \in [Networks -> [step : {"idle", "write", "rename", "sync"} \union Nmcli,
                               file : 1..4]]
  /\ finish \subseteq Networks
  /\ flavor = "standalone" => files["url"] = None /\ files["code"] = None

NoFiles == [name \in Names |-> None]

PortalInit ==
  /\ flavor \in {"standalone", "satellite"}
  /\ files = NoFiles /\ temp = NoFiles
  /\ stored = [profiles |-> profiles, files |-> files]
  /\ request = [form \in Networks |-> Idle]
  /\ finish = {}

Then(form, next) == request' = [request EXCEPT ![form] = next]

-----------------------------------------------------------------------------
(* do_POST and save_configuration.                                         *)

\* validate_fields: any other form is answered before anything is done.
Valid(form) == flavor = "satellite" => form \in Paired

Post(form) ==
  /\ main = "portal" /\ ap
  /\ ~Busy(form) /\ Valid(form)
  /\ Then(form, At("delete"))
  /\ UNCHANGED <<profiles, saved, finish>>

\* networkmanager_commands.  An old profile may not be there.
Delete(form) ==
  /\ request[form].step = "delete"
  /\ profiles' = {}
  /\ Then(form, At("add"))
  /\ UNCHANGED <<saved, finish>>

Add(form) ==
  /\ request[form].step = "add"
  /\ profiles' = profiles \union {Profile(form, None)}
  /\ Then(form, At("modify"))
  /\ UNCHANGED <<saved, finish>>

Modify(form) ==
  /\ request[form].step = "modify"
  /\ profiles # {}
  /\ Then(form, At(IF form \in Open THEN "write" ELSE "key"))
  /\ UNCHANGED <<profiles, saved, finish>>

\* The profile is found by its name.
SetKey(form) ==
  /\ request[form].step = "key"
  /\ \E p \in profiles :
       profiles' = (profiles \ {p}) \union {[p EXCEPT !.key = form]}
  /\ Then(form, At("write"))
  /\ UNCHANGED <<saved, finish>>

\* _write_private
WriteTemporary(form) ==
  /\ request[form].step = "write"
  /\ temp' = [temp EXCEPT ![Writes[request[form].file]] = form]
  /\ Then(form, [request[form] EXCEPT !.step = "rename"])
  /\ UNCHANGED <<profiles, files, stored, finish>>

Rename(form) ==
  LET file == request[form].file  name == Writes[file] IN
  /\ request[form].step = "rename"
  /\ temp[name] # None
  /\ files' = [files EXCEPT ![name] = temp[name]]
  /\ temp' = [temp EXCEPT ![name] = None]
  /\ Then(form, IF file < Len(Writes) THEN [step |-> "write", file |-> file + 1] ELSE At("sync"))
  /\ UNCHANGED <<profiles, stored, finish>>

\* Mutant: "Setup saved" is answered before the card has it.
AnswerOnly(form) ==
  /\ request[form].step = "sync"
  /\ finish' = finish \union {form}
  /\ Then(form, Idle)
  /\ UNCHANGED <<profiles, saved>>

\* os.sync, the answer "Setup saved" and the thread of _finish_setup.
SyncAndAnswer(form) ==
  /\ request[form].step = "sync"
  /\ stored' = [profiles |-> profiles, files |-> files]
  /\ finish' = finish \union {form}
  /\ Then(form, Idle)
  /\ UNCHANGED <<profiles, files, temp>>

GiveUp(form) ==
  /\ Then(form, Idle)
  /\ UNCHANGED <<profiles, saved, finish>>

\* The profile or the temporary file was taken away by another form.
LosesOut(form) ==
  /\ \/ request[form].step \in {"modify", "key"} /\ profiles = {}
     \/ request[form].step = "rename" /\ temp[Writes[request[form].file]] = None
  /\ GiveUp(form)

\* "Setup was not saved": a command or a write fails.
Fails(form) ==
  /\ request[form].step \in {"add", "modify", "key", "write", "rename"}
  /\ GiveUp(form)

SaveStep(form) ==
  \/ Delete(form) \/ Add(form) \/ Modify(form) \/ SetKey(form)
  \/ WriteTemporary(form) \/ Rename(form) \/ LosesOut(form)

\* The threads go with the process.
PortalEnds ==
  /\ request' = [form \in Networks |-> Idle]
  /\ finish' = {}
=============================================================================
