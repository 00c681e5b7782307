---------------------------- MODULE SetupInvariant ----------------------------
(***************************************************************************)
(* The inductive invariant behind the safety properties of SetupAppliance: *)
(* how the script and ExecStop take turns at wlan0 (Turns, Interface), and *)
(* how far the only form under way has come (Progress).                    *)
(***************************************************************************)
EXTENDS SetupAppliance

\* The portal's threads live with it, and a stop only meets the portal or
\* the end of the script.
Turns ==
  /\ (\E form \in Networks : Busy(form)) \/ finish # {} => main = "portal"
  /\ unit \in {"start", "dead"} => main = "off"
  /\ unit \in {"stopping", "term"} => main \in {"off", "portal"} \union Stopping
  /\ unit = "stopping" <=> stopper # "off"

\* Who has wlan0.
Interface ==
  /\ wifi # None => managed
  /\ ap => ~managed
  /\ main = "hostapd" => ~managed
  /\ main \in {"return", "remove"} \/ stopper \in {"return", "remove"} => ~ap
  /\ stopper = "remove" => managed
  /\ unit \in {"start", "term", "dead"} \/ main \in {"check", "wait", "begin"} =>
       managed /\ ~ap /\ ~active

Key(form) == IF form \in Open THEN None ELSE form

\* How far the thread of a form has come, when no other is under way.
FormDone(form) ==
  LET r == request[form] IN
  /\ r.step = "add" => profiles = {}
  /\ r.step \in {"modify", "key"} => profiles = {Profile(form, None)}
  /\ r.step = "key" => form \notin Open
  /\ r.step \in {"write", "rename", "sync"} => profiles = {Profile(form, Key(form))}
  /\ r.step \in {"write", "rename"} =>
       \A i \in DOMAIN Writes : i < r.file => files[Writes[i]] = form
  /\ r.step = "rename" => temp[Writes[r.file]] = form
  /\ r.step = "sync" => Entire(form)

Progress ==
  /\ \A form \in Networks :
       request[form].step \in {"write", "rename"} => request[form].file \in DOMAIN Writes
  /\ flavor = "standalone" => stored.files["url"] = None /\ stored.files["code"] = None
  /\ ~hasty =>
       \A form \in Networks :
         Busy(form) => FormDone(form) /\ \A other \in Networks : Busy(other) => other = form

\* What was answered "Setup saved" is on the card, and nobody is changing it.
Kept ==
  settled # None =>
    /\ settled \in Networks
    /\ \A form \in Networks : ~Busy(form)
    /\ Entire(settled)
    /\ stored = [profiles |-> profiles, files |-> files]

SetupInv == TypeOK /\ Turns /\ Interface /\ Progress /\ Kept
=============================================================================
