------------------------------ MODULE Founding ------------------------------
(***************************************************************************)
(* What CReG promises of a channel, without nicks, records and pointers: a *)
(* user asks for it, other people support the request, each with a mail    *)
(* address of its own, and only when there are enough of them (or a member *)
(* of the channel commission steps in) may the channel be founded.         *)
(***************************************************************************)
CONSTANTS
  Chans,
  Mails,
  Enough   \* the sets of mail addresses whose support suffices

VARIABLES
  phase,  \* of each channel
  votes   \* the mail addresses that support it

founding == <<phase, votes>>

FoundingInit ==
  /\ phase = [ch \in Chans |-> "free"]
  /\ votes = [ch \in Chans |-> {}]

Become(ch, from, to) ==
  /\ phase[ch] \in from
  /\ phase' = [phase EXCEPT ![ch] = to]

(* A request that needs nobody is granted at once.                         *)
Ask(ch) ==
  /\ Become(ch, {"free"}, IF {} \in Enough THEN "granted" ELSE "asked")
  /\ UNCHANGED votes

Support(ch, m) ==
  /\ m \notin votes[ch]
  /\ votes' = [votes EXCEPT ![ch] = @ \cup {m}]
  /\ Become(ch, {"asked"},
            IF votes[ch] \cup {m} \in Enough THEN "granted" ELSE "asked")

(* The commission: without votes, against them, or when they are there.    *)
Appoint(ch) == Become(ch, {"free"}, "granted") /\ UNCHANGED votes
Refuse(ch)  == Become(ch, {"granted"}, "closed") /\ UNCHANGED votes
Accept(ch)  == Become(ch, {"granted"}, "founded") /\ UNCHANGED votes
Force(ch)   == Become(ch, {"asked", "granted", "closed"}, "founded") /\ UNCHANGED votes

(* A founded channel that is deleted or forbidden is closed, never free.   *)
Close(ch) == Become(ch, {"founded"}, "closed") /\ UNCHANGED votes

Forget(ch) ==
  /\ Become(ch, {"asked", "granted", "closed"}, "free")
  /\ votes' = [votes EXCEPT ![ch] = {}]

FoundingNext ==
  \E ch \in Chans :
    \/ Ask(ch) \/ Appoint(ch) \/ Refuse(ch) \/ Accept(ch) \/ Force(ch)
    \/ Close(ch) \/ Forget(ch)
    \/ \E m \in Mails : Support(ch, m)

FoundingSpec == FoundingInit /\ [][FoundingNext]_founding
=============================================================================
