------------------------------- MODULE Akills -------------------------------
(***************************************************************************)
(* The AKILL list of akill.c, the commands of OperServ and XServ that      *)
(* enter and take out masks, and the G-lines of the network, which only    *)
(* services set here and which the network drops when their time is up.    *)
(***************************************************************************)
EXTENDS Clock, Lists

CONSTANTS
  Masks,
  Spans,                  \* durations an AKILL ADD may give, 0 for no end
  Dotime,                 \* the durations 5m, 1h, 6h, 7d and 1d
  FullAkills              \* the 32767 entries the list takes at most

ASSUME AkillsAssumption ==
  /\ Spans \subseteq Nat /\ FullAkills \in Nat \ {0}
  /\ Dotime \in [{"5m", "1h", "6h", "7d", "1d"} -> Nat \ {0}]

VARIABLES
  akills,    \* the array: masks and when they expire, 0 for never
  glines,    \* the masks the network bans
  loose,     \* history: G-lines set with no entry, or whose entry a crash lost
  akillfile  \* what save_akill wrote last

akillVars == <<akills, glines, loose, akillfile>>

Listed(m) == \E i \in DOMAIN akills : akills[i].mask = m

(* GLINE * +mask and GLINE * -mask.                                        *)
Gline(m)   == glines' = glines \cup {m}
Ungline(m) == glines' = glines \ {m} /\ loose' = loose \ {m}

(* A full list takes no entry, and does not say so to the caller.          *)
add_akill(m, due) ==
  akills' = IF Len(akills) >= FullAkills THEN akills
            ELSE Append(akills, [mask |-> m, expires |-> due])

(* The first entry with the mask; the same mask may be there twice.        *)
del_akill(m) == akills' = RemoveFirstMatch(akills, LAMBDA e : e.mask = m)

do_akill_add(m, span) ==
  /\ Len(akills) < FullAkills
  /\ add_akill(m, IF span = 0 THEN 0 ELSE now + span)
  /\ Gline(m)
  /\ UNCHANGED <<loose, akillfile>>

do_xakill_add(m, span) == do_akill_add(m, span)

do_akill_del(m) ==
  /\ Listed(m)
  /\ del_akill(m)
  /\ Ungline(m)
  /\ UNCHANGED akillfile

do_xakill_del(m) == do_akill_del(m)

(* XServ bans the host of a user who is not of the staff: the G-line is set*)
(* whether the list took the entry or not.                                 *)
x_block(m, span) ==
  /\ add_akill(m, now + span)
  /\ Gline(m)
  /\ loose' = IF Len(akills) >= FullAkills THEN loose \cup {m} ELSE loose
  /\ UNCHANGED akillfile

do_block(m)      == x_block(m, Dotime["5m"])
do_blockpubli(m) == x_block(m, Dotime["1h"])
do_blockmol(m)   == x_block(m, Dotime["6h"])
do_blockabus(m)  == x_block(m, Dotime["7d"])
do_blockclon(m)  == x_block(m, Dotime["1d"])

(* OperServ's BLOCK enters nothing.                                        *)
os_block(m) ==
  /\ Gline(m)
  /\ loose' = loose \cup {m}
  /\ UNCHANGED <<akills, akillfile>>

do_unblock(m) ==
  /\ del_akill(m)
  /\ Ungline(m)
  /\ UNCHANGED akillfile

(* A user connects whom an entry matches: the G-line is set again.         *)
check_akill(i) ==
  /\ i \in DOMAIN akills
  /\ Gline(akills[i].mask)
  /\ UNCHANGED <<akills, loose, akillfile>>

(* Mutant: an entry that ends takes no G-line with it.                     *)
expire_akillsKeeps ==
  /\ akills' = Remaining(akills, {i \in DOMAIN akills :
                                   akills[i].expires = 0 \/ akills[i].expires > now})
  /\ UNCHANGED <<glines, loose, akillfile>>

(* Called by the timer of main, and before LIST and VIEW.                  *)
expire_akills ==
  LET over == {i \in DOMAIN akills : akills[i].expires # 0 /\ akills[i].expires <= now}
      ended == {akills[i].mask : i \in over}
  IN  /\ akills' = Remaining(akills, DOMAIN akills \ over)
      /\ glines' = glines \ ended
      /\ loose' = loose \ ended
      /\ UNCHANGED akillfile

GlineEnds(m) ==
  /\ m \in glines
  /\ Ungline(m)
  /\ UNCHANGED <<akills, akillfile>>

save_akill == akillfile' = akills /\ UNCHANGED <<akills, glines, loose>>

(* Services end without saving and start again; the network goes on.       *)
load_akill ==
  /\ akills' = akillfile
  /\ loose' = loose \cup {m \in glines : \A i \in DOMAIN akillfile : akillfile[i].mask # m}
  /\ UNCHANGED <<glines, akillfile>>

AkillsInit == akills = <<>> /\ glines = {} /\ loose = {} /\ akillfile = <<>>

AkillsNext ==
  \/ \E m \in Masks, span \in Spans : do_akill_add(m, span) \/ do_xakill_add(m, span)
  \/ \E m \in Masks : do_akill_del(m) \/ do_xakill_del(m)
  \/ \E m \in Masks : \/ do_block(m) \/ do_blockpubli(m) \/ do_blockmol(m)
                      \/ do_blockabus(m) \/ do_blockclon(m) \/ os_block(m)
  \/ \E m \in Masks : do_unblock(m) \/ GlineEnds(m)
  \/ \E i \in DOMAIN akills : check_akill(i)
  \/ expire_akills

(* A mask the network bans is in the list, unless no entry was made for it *)
(* or a crash lost the entry: however entries are added twice, taken out   *)
(* and expire, in the list and in the network, no ban of akill.c outlives  *)
(* its entries.                                                            *)
GlinesListed == \A m \in glines : Listed(m) \/ m \in loose
=============================================================================
