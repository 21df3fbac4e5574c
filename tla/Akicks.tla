------------------------------- MODULE Akicks -------------------------------
(***************************************************************************)
(* The AKICK list of chanakicks.c, one array for all the channels, keyed by*)
(* their names: AKICK ADD and DEL, what becomes of it when a channel is    *)
(* dropped and registered again, and the two files it takes to save it:    *)
(* chan.db first, achanakick.db last.                                      *)
(*                                                                         *)
(* A suspended or forbidden channel takes no ADD or DEL, which leaves out  *)
(* some of the steps below.  delchan frees the record that borra_akick is  *)
(* then given the name of; the builds in use leave the name in place.      *)
(***************************************************************************)
EXTENDS Lists

CONSTANTS
  AChans, AMasks,
  CSAutokickMax,          \* entries per channel
  FullAkicks,             \* the 32767 entries the list takes at most
  MaxRegs                 \* bound: registrations in one run

ASSUME AkicksAssumption ==
  CSAutokickMax \in Nat \ {0} /\ FullAkicks \in Nat \ {0} /\ MaxRegs \in Nat

VARIABLES
  reg,       \* the number of each channel's registration, 0 if it has none
  regs,      \* how many registrations there were
  achanakicks, \* the array: channel, mask, and the registration it was entered in
  torn,      \* history: channels whose files did not agree when they were loaded
  akickfiles \* chan.db and achanakick.db

akickVars == <<reg, regs, achanakicks, torn, akickfiles>>

Of(c) == {i \in DOMAIN achanakicks : achanakicks[i].chan = c}
Kicked(c, m) == \E i \in Of(c) : achanakicks[i].mask = m

RegisterChan(c) ==
  /\ reg[c] = 0 /\ regs < MaxRegs
  /\ regs' = regs + 1 /\ reg' = [reg EXCEPT ![c] = regs + 1]
  /\ UNCHANGED <<achanakicks, torn, akickfiles>>

(* Every entry of the channel.                                             *)
borra_akick(c) ==
  /\ achanakicks' = Remaining(achanakicks, DOMAIN achanakicks \ Of(c))
  /\ torn' = torn \ {c}

(* Mutant: a channel is dropped and its entries stay.                      *)
DropChanKeeps(c) ==
  /\ reg[c] # 0
  /\ reg' = [reg EXCEPT ![c] = 0]
  /\ UNCHANGED <<regs, achanakicks, torn, akickfiles>>

(* delchan, and borra_akick after it, wherever a channel goes: DROP, expiry,*)
(* a founder who goes without a successor, FORBID.                         *)
DropChan(c) ==
  /\ reg[c] # 0
  /\ reg' = [reg EXCEPT ![c] = 0]
  /\ borra_akick(c)
  /\ UNCHANGED <<regs, akickfiles>>

add_achanakick(c, m) ==
  achanakicks' = Append(achanakicks, [chan |-> c, mask |-> m, in |-> reg[c]])

do_achanakick_add(c, m) ==
  /\ reg[c] # 0 /\ Len(achanakicks) < FullAkicks
  /\ Cardinality(Of(c)) < CSAutokickMax
  /\ ~Kicked(c, m)
  /\ add_achanakick(c, m)
  /\ UNCHANGED <<reg, regs, torn, akickfiles>>

(* The first entry with the mask, or the n-th of the channel.              *)
del_achanakick(c, m) ==
  achanakicks' = RemoveFirstMatch(achanakicks, LAMBDA e : e.chan = c /\ e.mask = m)
del_achanakick_nth(c, n) ==
  \E i \in Of(c) : /\ Cardinality({j \in Of(c) : j <= i}) = n
                   /\ achanakicks' = RemoveAt(achanakicks, i)

do_achanakick_del(c) ==
  /\ reg[c] # 0 /\ Of(c) # {}
  /\ \/ \E m \in AMasks : del_achanakick(c, m) /\ UNCHANGED torn
     \/ \E n \in 1..Cardinality(Of(c)) : del_achanakick_nth(c, n) /\ UNCHANGED torn
     \/ borra_akick(c)                                       \* DEL ALL
  /\ UNCHANGED <<reg, regs, akickfiles>>

save_achanakick ==
  /\ akickfiles' = [reg |-> reg, akicks |-> achanakicks]
  /\ UNCHANGED <<reg, regs, achanakicks, torn>>

(* Services end and start again; chan.db may have been written and         *)
(* achanakick.db not yet.                                                  *)
load_achanakick(half) ==
  LET chans == IF half THEN reg ELSE akickfiles.reg
      entries == akickfiles.akicks
  IN  /\ reg' = chans
      /\ achanakicks' = entries
      /\ torn' = {entries[i].chan : i \in
                    {j \in DOMAIN entries : entries[j].in # chans[entries[j].chan]}}
      /\ akickfiles' = [reg |-> chans, akicks |-> entries]
      /\ UNCHANGED regs

AkicksInit ==
  /\ reg = [c \in AChans |-> 0] /\ regs = 0
  /\ achanakicks = <<>> /\ torn = {}
  /\ akickfiles = [reg |-> [c \in AChans |-> 0], akicks |-> <<>>]

AkicksNext ==
  \E c \in AChans :
    \/ RegisterChan(c) \/ DropChan(c)
    \/ \E m \in AMasks : do_achanakick_add(c, m)
    \/ do_achanakick_del(c)

(* Whom a channel kicks was entered by those who run it now: the entries of*)
(* a registration go with it, and the next founder of the name starts with *)
(* none, unless services ended between the two files.                      *)
AkicksOwn == \A i \in DOMAIN achanakicks :
               LET e == achanakicks[i] IN e.chan \in torn \/ (reg[e.chan] # 0 /\ e.in = reg[e.chan])

(* AKICK DEL mask takes every entry it names.                              *)
OneAkickPerMask == \A i, j \in DOMAIN achanakicks :
  achanakicks[i].chan = achanakicks[j].chan /\ achanakicks[i].mask = achanakicks[j].mask => i = j
=============================================================================
