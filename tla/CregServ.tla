------------------------------ MODULE CregServ ------------------------------
(***************************************************************************)
(* How a channel comes to be registered: the requests of cregserv.c, the   *)
(* supporters they collect, the decisions of the channel commission, and   *)
(* the registration in ChanServ (registra_con_creg) they end in.           *)
(*                                                                         *)
(* cr->founder points into the NickInfo of the nick that asked until the   *)
(* next restart, and to a copy of the name after it.  As in ChanServ, nick *)
(* records are named by their address, which a later nick may get again.   *)
(***************************************************************************)
EXTENDS Naturals, Sequences, FiniteSets

CONSTANTS
  Users,
  Addrs,       \* addresses of NickInfo records
  Names,       \* nicks
  Mails,       \* mail addresses
  Chans,       \* names of channels
  NULL,
  CregApoyos   \* the supporters a request needs

(* The bits of cr->estado; DROPADO is never set.                           *)
Estados == {"PROCESO_REG", "ACEPTADO", "RECHAZADO", "EXPIRADO",
            "REGISTRADO", "MARCADO", "SUSPENDIDO"}

ASSUME NullAssumption    == NULL \notin Addrs \cup Names \cup Mails \cup Estados
ASSUME AddrAssumption    == Addrs \cap Names = {}
ASSUME ApoyosAssumption  == CregApoyos \in Nat

VARIABLES
  nick,     \* ni->nick of the record at each address, NULL if there is none
  mail,     \* ni->email
  ni,       \* user->ni of a user who has identified, NULL for any other
  asked,    \* the users who have got a code in user->creg_apoyo
  estado,   \* cr->estado, NULL if there is no CregInfo for the channel
  founder,  \* cr->founder
  email,    \* cr->email
  apoyos,   \* cr->apoyos: nick and mail of every supporter, as they came
  chan      \* the ChannelInfo of the channel in ChanServ

people   == <<nick, mail, ni, asked>>
requests == <<estado, founder, email, apoyos>>
vars     == <<people, requests, chan>>
-----------------------------------------------------------------------------
Live == {a \in Addrs : nick[a] # NULL}

(* The names one may read through cr->founder: of a freed record, any.     *)
FounderNames(ch) ==
  CASE founder[ch] \in Names \cup {NULL} -> {founder[ch]}
    [] founder[ch] \in Live              -> {nick[founder[ch]]}
    [] OTHER                             -> Names \cup {NULL}

(* findnick(cr->founder).                                                  *)
FounderFound(ch) == \E a \in Live : nick[a] \in FounderNames(ch)

Supporters(ch)     == {apoyos[ch][i][1] : i \in DOMAIN apoyos[ch]}
SupporterMails(ch) == {apoyos[ch][i][2] : i \in DOMAIN apoyos[ch]}

Becomes(ch, e) ==
  /\ estado' = [estado EXCEPT ![ch] = e]
  /\ UNCHANGED <<founder, email, apoyos>>

makecreg(ch, a, e) ==
  /\ estado'  = [estado EXCEPT ![ch] = e]
  /\ founder' = [founder EXCEPT ![ch] = a]
  /\ email'   = [email EXCEPT ![ch] = mail[a]]
  /\ apoyos'  = [apoyos EXCEPT ![ch] = <<>>]

delcreg(ch) ==
  /\ estado'  = [estado EXCEPT ![ch] = NULL]
  /\ founder' = [founder EXCEPT ![ch] = NULL]
  /\ email'   = [email EXCEPT ![ch] = NULL]
  /\ apoyos'  = [apoyos EXCEPT ![ch] = <<>>]

(* It also fails when nobody is on the channel, which may be at any time.  *)
registra_con_creg(ch) ==
  /\ chan[ch] = "none"
  /\ chan' = [chan EXCEPT ![ch] = "registered"]
-----------------------------------------------------------------------------
(* The world of NickServ, as far as requests depend on it.                 *)

RegisterNick(a, n, m) ==
  /\ nick[a] = NULL
  /\ \A b \in Addrs : nick[b] # n
  /\ nick' = [nick EXCEPT ![a] = n]
  /\ mail' = [mail EXCEPT ![a] = m]
  /\ UNCHANGED <<ni, asked, requests, chan>>

(* SET EMAIL, a command of the root of services.                           *)
SetEmail(a, m) ==
  /\ nick[a] # NULL
  /\ mail' = [mail EXCEPT ![a] = m]
  /\ UNCHANGED <<nick, ni, asked, requests, chan>>

delnick(a) ==
  /\ nick[a] # NULL
  /\ nick' = [nick EXCEPT ![a] = NULL]
  /\ mail' = [mail EXCEPT ![a] = NULL]
  /\ ni' = [u \in Users |-> IF ni[u] = a THEN NULL ELSE ni[u]]
  /\ UNCHANGED <<asked, requests, chan>>

(* NICK and IDENTIFY; the code for supporters stays with the user.         *)
Identify(u, a) ==
  /\ a \in Live
  /\ \A v \in Users : ni[v] # a
  /\ ni' = [ni EXCEPT ![u] = a]
  /\ UNCHANGED <<nick, mail, asked, requests, chan>>

DeleteUser(u) ==
  /\ ni' = [ni EXCEPT ![u] = NULL]
  /\ asked' = asked \ {u}
  /\ UNCHANGED <<nick, mail, requests, chan>>
-----------------------------------------------------------------------------
(* Commands of users, who must have identified.                            *)

do_registra(u, ch) ==
  /\ ni[u] # NULL
  /\ chan[ch] = "none"
  /\ estado[ch] = NULL
  /\ makecreg(ch, ni[u], IF CregApoyos > 0 THEN "PROCESO_REG" ELSE "ACEPTADO")
  /\ UNCHANGED <<people, chan>>

do_cancela(u, ch) ==
  /\ ni[u] # NULL
  /\ estado[ch] = "PROCESO_REG"
  /\ nick[ni[u]] \in FounderNames(ch)
  /\ delcreg(ch)
  /\ UNCHANGED <<people, chan>>

(* Mutant: the mails of the other supporters are not compared.           *)
MaySupportOnce(u, ch) ==
  /\ ni[u] # NULL
  /\ estado[ch] = "PROCESO_REG"
  /\ FounderNames(ch) # {nick[ni[u]]}
  /\ nick[ni[u]] \notin Supporters(ch)
  /\ apoyos[ch] # <<>> => mail[ni[u]] # email[ch]

(* Who may support a request.  Both mail tests are made for each supporter *)
(* there is, so the first one is not compared with the founder.            *)
MaySupport(u, ch) ==
  /\ ni[u] # NULL
  /\ estado[ch] = "PROCESO_REG"
  /\ FounderNames(ch) # {nick[ni[u]]}
  /\ nick[ni[u]] \notin Supporters(ch)
  /\ mail[ni[u]] \notin SupporterMails(ch)
  /\ apoyos[ch] # <<>> => mail[ni[u]] # email[ch]

(* APOYA without the code: the user gets one.                              *)
do_apoya_ask(u, ch) ==
  /\ MaySupport(u, ch)
  /\ asked' = asked \cup {u}
  /\ UNCHANGED <<nick, mail, ni, requests, chan>>

(* APOYA with it.  The code is the user's, not the request's.              *)
do_apoya(u, ch) ==
  /\ MaySupport(u, ch)
  /\ u \in asked
  /\ apoyos' = [apoyos EXCEPT ![ch] = Append(@, <<nick[ni[u]], mail[ni[u]]>>)]
  /\ estado' = [estado EXCEPT ![ch] =
                  IF Len(apoyos'[ch]) >= CregApoyos THEN "ACEPTADO" ELSE @]
  /\ UNCHANGED <<people, founder, email, chan>>
-----------------------------------------------------------------------------
(* Commands of the commission.                                             *)

do_reg(u, ch) ==
  /\ ni[u] # NULL
  /\ chan[ch] = "none"
  /\ estado[ch] = NULL
  /\ makecreg(ch, ni[u], "ACEPTADO")
  /\ UNCHANGED <<people, chan>>

do_acepta(ch) ==
  /\ estado[ch] = "ACEPTADO"
  /\ FounderFound(ch)
  /\ registra_con_creg(ch)
  /\ Becomes(ch, "REGISTRADO")
  /\ UNCHANGED people

(* Mutant: whatever the request has come to.                               *)
do_deniegaAny(ch) ==
  /\ estado[ch] # NULL
  /\ FounderFound(ch)
  /\ Becomes(ch, "RECHAZADO")
  /\ UNCHANGED <<people, chan>>

do_deniega(ch) ==
  /\ estado[ch] = "ACEPTADO"
  /\ FounderFound(ch)
  /\ Becomes(ch, "RECHAZADO")
  /\ UNCHANGED <<people, chan>>

(* Whatever the request has come to.                                       *)
do_fuerza(ch) ==
  /\ estado[ch] # NULL
  /\ FounderFound(ch)
  /\ registra_con_creg(ch)
  /\ Becomes(ch, "REGISTRADO")
  /\ UNCHANGED people

do_marcar(ch) ==
  /\ estado[ch] = "REGISTRADO"
  /\ Becomes(ch, "MARCADO")
  /\ UNCHANGED <<people, chan>>

do_desmarcar(ch) ==
  /\ estado[ch] = "MARCADO"
  /\ Becomes(ch, "REGISTRADO")
  /\ UNCHANGED <<people, chan>>

(* suspende_con_creg suspends the channel, and then returns 1 if it has an *)
(* operator and no value at all if it has not.                             *)
do_suspend(ch) ==
  /\ estado[ch] \notin {NULL, "SUSPENDIDO"}
  /\ chan[ch] \in {"registered", "suspended"}
  /\ chan' = [chan EXCEPT ![ch] = "suspended"]
  /\ Becomes(ch, "SUSPENDIDO") \/ UNCHANGED requests
  /\ UNCHANGED people

do_unsuspend(ch) ==
  /\ estado[ch] \notin {NULL, "REGISTRADO"}
  /\ chan[ch] = "suspended"
  /\ chan' = [chan EXCEPT ![ch] = "registered"]
  /\ Becomes(ch, "REGISTRADO")
  /\ UNCHANGED people

(* Mutant: a channel that is registered can be dropped from CReG.          *)
do_dropAny(ch) ==
  /\ estado[ch] # NULL
  /\ delcreg(ch)
  /\ UNCHANGED <<people, chan>>

do_drop(ch) ==
  /\ estado[ch] # NULL
  /\ chan[ch] = "none"
  /\ delcreg(ch)
  /\ UNCHANGED <<people, chan>>
-----------------------------------------------------------------------------
(* ChanServ, as far as requests see it.  Its own REGISTER is disabled.     *)

(* expire_chans, and cs_remove_nick when the founder's nick goes.          *)
expire_chans(ch) ==
  /\ chan[ch] \in {"registered", "suspended"}
  /\ chan' = [chan EXCEPT ![ch] = "none"]
  /\ IF estado[ch] = NULL THEN UNCHANGED requests ELSE Becomes(ch, "EXPIRADO")
  /\ UNCHANGED people

(* DROP, FORBID, UNFORBID, SUSPEND and UNSUSPEND say nothing to CReG.      *)
cs_do(ch) ==
  /\ \/ chan[ch] # "none"       /\ chan' = [chan EXCEPT ![ch] = "none"]
     \/ chan[ch] # "forbidden"  /\ chan' = [chan EXCEPT ![ch] = "forbidden"]
     \/ chan[ch] = "registered" /\ chan' = [chan EXCEPT ![ch] = "suspended"]
     \/ chan[ch] = "suspended"  /\ chan' = [chan EXCEPT ![ch] = "registered"]
  /\ UNCHANGED <<people, requests>>

(* Save, quit, load: founders become names.  NULL is saved as "no string". *)
Restart ==
  /\ founder' \in [Chans -> Names \cup {NULL}]
  /\ \A ch \in Chans : founder'[ch] \in IF estado[ch] = NULL THEN {NULL}
                                        ELSE FounderNames(ch)
  /\ ni' = [u \in Users |-> NULL]
  /\ asked' = {}
  /\ UNCHANGED <<nick, mail, estado, email, apoyos, chan>>
-----------------------------------------------------------------------------
Init ==
  /\ nick = [a \in Addrs |-> NULL] /\ mail = [a \in Addrs |-> NULL]
  /\ ni = [u \in Users |-> NULL] /\ asked = {}
  /\ estado  = [ch \in Chans |-> NULL]
  /\ founder = [ch \in Chans |-> NULL]
  /\ email   = [ch \in Chans |-> NULL]
  /\ apoyos  = [ch \in Chans |-> <<>>]
  /\ chan    = [ch \in Chans |-> "none"]

NickStep ==
  \/ \E a \in Addrs : \/ delnick(a)
                      \/ \E m \in Mails : \/ SetEmail(a, m)
                                          \/ \E n \in Names : RegisterNick(a, n, m)
  \/ \E u \in Users : DeleteUser(u) \/ \E a \in Addrs : Identify(u, a)

UserStep ==
  \E u \in Users, ch \in Chans :
    \/ do_registra(u, ch) \/ do_cancela(u, ch)
    \/ do_apoya_ask(u, ch) \/ do_apoya(u, ch) \/ do_reg(u, ch)

StaffStep ==
  \E ch \in Chans :
    \/ do_acepta(ch) \/ do_deniega(ch) \/ do_fuerza(ch)
    \/ do_marcar(ch) \/ do_desmarcar(ch) \/ do_drop(ch)
    \/ do_suspend(ch) \/ do_unsuspend(ch)
    \/ expire_chans(ch) \/ cs_do(ch)

Next == NickStep \/ UserStep \/ StaffStep \/ Restart

Spec == Init /\ [][Next]_vars
-----------------------------------------------------------------------------
TypeOK ==
  /\ nick \in [Addrs -> Names \cup {NULL}]
  /\ mail \in [Addrs -> Mails \cup {NULL}]
  /\ \A a \in Addrs : nick[a] = NULL <=> mail[a] = NULL
  /\ ni \in [Users -> Live \cup {NULL}] /\ asked \subseteq Users
  /\ estado \in [Chans -> Estados \cup {NULL}]
  /\ founder \in [Chans -> Addrs \cup Names \cup {NULL}]
  /\ email \in [Chans -> Mails \cup {NULL}]
  /\ apoyos \in [Chans -> Seq(Names \X Mails)]
  /\ chan \in [Chans -> {"none", "registered", "suspended", "forbidden"}]

(* ChanServ has no channel that CReG did not let through: of a channel that*)
(* is registered or suspended there, CReG says REGISTRADO, MARCADO or      *)
(* SUSPENDIDO, whatever the two have been told since.                      *)
RegisteredIsAccepted ==
  \A ch \in Chans : chan[ch] \in {"registered", "suspended"} =>
                      estado[ch] \in {"REGISTRADO", "MARCADO", "SUSPENDIDO"}

(* do_apoya and do_registra: a request waits while supporters are missing, *)
(* and one that waits for the commission has them all or never needed any. *)
SupportCount ==
  \A ch \in Chans :
    /\ estado[ch] = "PROCESO_REG" => Len(apoyos[ch]) < CregApoyos
    /\ estado[ch] = "ACEPTADO" => Len(apoyos[ch]) \in {0, CregApoyos}

(* The tests of do_apoya: no two supporters share a nick or a mail, and    *)
(* none but the first has the mail of the founder, whatever nicks are      *)
(* dropped, taken again or given other mails between two of them.          *)
OneVotePerMail ==
  \A ch \in Chans : \A i, j \in DOMAIN apoyos[ch] :
    i < j => /\ apoyos[ch][i][1] # apoyos[ch][j][1]
             /\ apoyos[ch][i][2] # apoyos[ch][j][2]
             /\ apoyos[ch][j][2] # email[ch]

(* A founding waits for exactly as many supporters as CregApoyos, who are  *)
(* as many people.                                                         *)
VotesCounted == SupportCount /\ OneVotePerMail

(* The founding CReG promises, whatever becomes of nicks and mails on the  *)
(* way: the votes are the mails, and a channel is founded while ChanServ   *)
(* has it.                                                                 *)
Phase(ch) ==
  IF chan[ch] \in {"registered", "suspended"} THEN "founded"
  ELSE CASE estado[ch] = NULL          -> "free"
         [] estado[ch] = "PROCESO_REG" -> "asked"
         [] estado[ch] = "ACEPTADO"    -> "granted"
         [] OTHER                      -> "closed"

Founding == INSTANCE Founding WITH
  phase  <- [ch \in Chans |-> Phase(ch)],
  votes  <- [ch \in Chans |-> SupporterMails(ch)],
  Enough <- {ms \in SUBSET Mails : Cardinality(ms) >= CregApoyos}

ImplementsFounding == Founding!FoundingSpec
=============================================================================
