------------------------------ MODULE MemoServ ------------------------------
(***************************************************************************)
(* A mailbox of memoserv.c: the memos of a nick or of a channel, the limit *)
(* of their number, and SEND, CANCEL, READ, DEL and SET LIMIT, by users who*)
(* are recognised (SEND, CANCEL) or identified for their nicks.  Mailboxes *)
(* share nothing, so there is one: of the nick Box, or of a channel.       *)
(*                                                                         *)
(* A list of numbers is a series of commands with one each, and SEND may   *)
(* come at any time: MSSendDelay only spaces the memos of a user.  Memos   *)
(* are part of the records of nick.db and chan.db: a restart brings back a *)
(* mailbox as it was at some time before.                                  *)
(***************************************************************************)
EXTENDS Integers, Sequences

CONSTANTS
  Senders,                \* nicks; one of them may own the mailbox
  Postmasters,            \* those of them whom is_services_admin accepts
  Readers,                \* those who have the level of CA_MEMO in the channel
  Channel,                \* the mailbox that is a channel's
  MSMaxMemos,             \* the limit a new mailbox has and its owner may set
  MaxNumber,              \* 2^32 - 1, the last number of a memo
  MaxListed,              \* 65536, the last number process_numlist takes
  MaxMemos                \* 32767, what memocount can count

ASSUME MemoAssumption ==
  /\ Postmasters \subseteq Senders /\ Readers \subseteq Senders /\ Channel \notin Senders
  /\ MSMaxMemos \in Nat /\ MaxNumber \in Nat /\ MaxListed \in Nat /\ MaxMemos \in Nat
  /\ MaxMemos < MaxNumber

VARIABLES
  mbox,      \* whose mailbox it is
  taken,     \* it is registered
  memos,     \* mi->memos
  memomax,   \* mi->memomax, -1 for no limit
  hardmax    \* NI_MEMO_HARDMAX or CI_MEMO_HARDMAX

memoVars == <<mbox, taken, memos, memomax, hardmax>>
settings == <<mbox, taken, memomax, hardmax>>

----------------------------------------------------------------------------
(* The numbers of memos.                                                   *)

NextNumber(s) == IF s = <<>> THEN 1 ELSE (s[Len(s)].number + 1) % (MaxNumber + 1)

(* A new memo at the end.  When the numbers wrap, all memos get new ones.  *)
Sent(s, u) ==
  [i \in 1..(Len(s) + 1) |->
     [number |-> IF NextNumber(s) < 1 THEN i
                 ELSE IF i <= Len(s) THEN s[i].number ELSE NextNumber(s),
      from   |-> IF i <= Len(s) THEN s[i].from ELSE u,
      unread |-> IF i <= Len(s) THEN s[i].unread ELSE TRUE]]

(* The memo at k goes and those behind it move down.                       *)
Without(s, k) == [i \in 1..(Len(s) - 1) |-> IF i < k THEN s[i] ELSE s[i + 1]]

(* The first memo with the number.                                         *)
HasNumber(s, k, num) == s[k].number = num /\ \A i \in 1..(k - 1) : s[i].number # num
delmemo(num) == \E k \in DOMAIN memos : HasNumber(memos, k, num) /\ memos' = Without(memos, k)

----------------------------------------------------------------------------
(* Whoever reads, and sets the limit, without being an admin.              *)
Owner(u) == u = mbox \/ (mbox = Channel /\ u \in Readers)

do_send(u) ==
  /\ taken /\ Len(memos) < MaxMemos
  /\ \/ memomax < 0 \/ Len(memos) < memomax
     \/ u \in Postmasters
  /\ memos' = Sent(memos, u)
  /\ UNCHANGED settings

(* The last memo of the user's that is unread, by its number.              *)
LastOwn(u, k) ==
  /\ memos[k].unread /\ memos[k].from = u
  /\ \A i \in (k + 1)..Len(memos) : ~(memos[i].unread /\ memos[i].from = u)

(* Mutant: delmemo is given the place of the memo in the array.            *)
do_cancelAt(u) ==
  /\ taken
  /\ \E k \in DOMAIN memos : LastOwn(u, k) /\ delmemo(k)
  /\ UNCHANGED settings

do_cancel(u) ==
  /\ taken
  /\ \E k \in DOMAIN memos : LastOwn(u, k) /\ delmemo(memos[k].number)
  /\ UNCHANGED settings

read_memo(read) ==
  memos' = [i \in DOMAIN memos |->
             [number |-> memos[i].number, from |-> memos[i].from,
              unread |-> memos[i].unread /\ i \notin read]]

(* NEW, LAST, or a number.                                                 *)
do_read(u) ==
  /\ taken /\ Owner(u) /\ memos # <<>>
  /\ \/ read_memo(DOMAIN memos)
     \/ read_memo({Len(memos)})
     \/ \E k \in DOMAIN memos, num \in 1..MaxListed : HasNumber(memos, k, num) /\ read_memo({k})
  /\ UNCHANGED settings

do_del(u) ==
  /\ taken /\ Owner(u) /\ memos # <<>>
  /\ \/ \E num \in 0..MaxListed : delmemo(num)
     \/ memos' = <<>>                                        \* DEL ALL
  /\ UNCHANGED settings

(* An admin sets any limit, NONE too, and with HARD nobody else does then. *)
do_set_limit(u, limit, hard) ==
  /\ taken
  /\ \/ u \in Postmasters /\ limit \in -1..MaxMemos /\ hardmax' = hard
     \/ /\ u \notin Postmasters /\ Owner(u) /\ ~hardmax
        /\ limit \in 0..MaxMemos /\ (MSMaxMemos > 0 => limit <= MSMaxMemos)
        /\ UNCHANGED hardmax
  /\ memomax' = limit
  /\ UNCHANGED <<mbox, taken, memos>>

(* A nick or channel is registered; dropped, expired or forbidden.         *)
NewBox ==
  /\ ~taken /\ taken' = TRUE
  /\ memos' = <<>> /\ memomax' = MSMaxMemos /\ hardmax' = FALSE
  /\ UNCHANGED mbox
FreeBox ==
  /\ taken /\ taken' = FALSE
  /\ memos' = <<>> /\ memomax' = 0 /\ hardmax' = FALSE
  /\ UNCHANGED mbox

MemoInit ==
  /\ mbox \in Senders \cup {Channel} /\ taken = FALSE
  /\ memos = <<>> /\ memomax = 0 /\ hardmax = FALSE

MemoNext ==
  \/ \E u \in Senders : do_send(u) \/ do_cancel(u) \/ do_read(u) \/ do_del(u)
  \/ \E u \in Senders, limit \in -1..MaxMemos, hard \in BOOLEAN : do_set_limit(u, limit, hard)
  \/ NewBox \/ FreeBox

----------------------------------------------------------------------------
(* The numbers of the memos rise from the first to the last, also when the *)
(* 32 bits of the last one have wrapped: a number names one memo, which    *)
(* READ and DEL rely on.                                                   *)
NumbersIncrease ==
  \A i, j \in DOMAIN memos : i < j => memos[i].number < memos[j].number

(* CANCEL, which finds the memo in the array and has it deleted by its     *)
(* number, takes back a memo that its user sent and nobody has read, and   *)
(* no other memo goes or is changed.                                       *)
CancelOwn ==
  [][\A u \in Senders : do_cancel(u) =>
       \E k \in DOMAIN memos : /\ memos[k].from = u /\ memos[k].unread
                               /\ memos' = Without(memos, k)]_memoVars
=============================================================================
