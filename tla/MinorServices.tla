--------------------------- MODULE MinorServices ----------------------------
(***************************************************************************)
(* The lists and tables beside nicks and channels, with the clock and the  *)
(* rounds of saving that main.c gives them.  They share nothing else, so   *)
(* one behaviour works one of them, and every one has its behaviours.      *)
(***************************************************************************)
EXTENDS Akills, Akicks, Pending, Numbered, IpVirtual, MemoServ

CONSTANTS
  Parts,                  \* the parts to be worked
  MaxRounds               \* bound: restarts in one run

ASSUME PartsAssumption ==
  /\ Parts \subseteq {"akills", "akicks", "limits", "newcomers", "news", "spam", "vhosts", "memos"}
  /\ MaxRounds \in Nat

VARIABLES part, rounds
vars == <<now, akillVars, akickVars, pendingVars, numVars, vhostVars, memoVars, part, rounds>>

Init ==
  /\ now = 0 /\ part \in Parts /\ rounds = 0
  /\ AkillsInit /\ AkicksInit /\ PendingInit /\ NumberedInit /\ IpVirtualInit
  /\ MemoInit /\ (part # "memos" => mbox = Channel)

Others(p) ==
  /\ p # "akills" => UNCHANGED akillVars
  /\ p # "akicks" => UNCHANGED akickVars
  /\ p \notin {"limits", "newcomers"} => UNCHANGED pendingVars
  /\ p \notin {"news", "spam"} => UNCHANGED numVars
  /\ p # "vhosts" => UNCHANGED vhostVars
  /\ p # "memos" => UNCHANGED memoVars
  /\ UNCHANGED part

Work ==
  /\ \/ part = "akills" /\ AkillsNext
     \/ part = "akicks" /\ AkicksNext
     \/ part = "limits" /\ LimitsNext
     \/ part = "newcomers" /\ NewcomersNext
     \/ part = "news" /\ NewsNext
     \/ part = "spam" /\ SpamNext
     \/ part = "vhosts" /\ IpVirtualNext
     \/ part = "memos" /\ MemoNext
  /\ Others(part)
  /\ UNCHANGED <<now, rounds>>

Time ==
  /\ part \in {"akills", "newcomers", "vhosts"}
  /\ Tick /\ Others("") /\ UNCHANGED rounds

Save ==
  /\ \/ part = "akills" /\ save_akill
     \/ part = "akicks" /\ save_achanakick
     \/ part \in {"news", "spam"} /\ save_numbered
     \/ part = "vhosts" /\ save_nicks
  /\ Others(part) /\ UNCHANGED <<now, rounds>>

Restart ==
  /\ rounds < MaxRounds /\ rounds' = rounds + 1
  /\ \/ part = "akills" /\ load_akill
     \/ part = "akicks" /\ \E half \in BOOLEAN : load_achanakick(half)
     \/ part \in {"news", "spam"} /\ load_numbered
     \/ part = "vhosts" /\ load_nicks
  /\ Others(part) /\ UNCHANGED now

Next == Work \/ Time \/ Save \/ Restart

Spec == Init /\ [][Next]_vars

----------------------------------------------------------------------------
(* What DEL is given names one entry of the lists that look for one: an    *)
(* AKICK by channel and mask, a change of limit by its channel, an item of *)
(* news, a word or a memo by its number, after any series of commands and  *)
(* restarts, and when the numbers of memos wrap.                           *)
NoTwins == OneAkickPerMask /\ OneLimitPerChan /\ OneItemPerNumber /\ NumbersIncrease
=============================================================================
