-------------------------- MODULE CregServ_proofs --------------------------
(***************************************************************************)
(* What CReG promises of the channels it lets ChanServ register, for any   *)
(* number of users, nicks, mail addresses, channels and supporters.        *)
(***************************************************************************)
EXTENDS CregServ, FiniteSetTheorems, TLAPS

(* The votes of the abstract specification are counted as in the code:     *)
(* supporters have mail addresses of their own.                            *)
MailsCounted ==
  \A ch \in Chans : /\ IsFiniteSet(SupporterMails(ch))
                    /\ Cardinality(SupporterMails(ch)) = Len(apoyos[ch])

(* delcreg frees the supporters with the request.                          *)
NoRequestNoVotes == \A ch \in Chans : estado[ch] = NULL => apoyos[ch] = <<>>

CregInv ==
  /\ TypeOK
  /\ NoRequestNoVotes
  /\ RegisteredIsAccepted
  /\ SupportCount
  /\ OneVotePerMail
  /\ MailsCounted
-----------------------------------------------------------------------------
LEMMA InitCregInv == Init => CregInv
<1> SUFFICES ASSUME Init PROVE CregInv
  OBVIOUS
<1>1. TypeOK
  BY NullAssumption DEF Init, TypeOK, Live
<1>2. RegisteredIsAccepted
  BY DEF Init, RegisteredIsAccepted
<1>3. SupportCount /\ NoRequestNoVotes
  BY NullAssumption DEF Init, SupportCount, NoRequestNoVotes, Estados
<1>4. OneVotePerMail
  BY DEF Init, OneVotePerMail
<1>5. ASSUME NEW ch \in Chans
      PROVE  IsFiniteSet(SupporterMails(ch)) /\ Cardinality(SupporterMails(ch)) = Len(apoyos[ch])
  <2>1. SupporterMails(ch) = {} /\ Len(apoyos[ch]) = 0
    BY DEF Init, SupporterMails
  <2> QED BY <2>1, FS_EmptySet
<1> QED BY <1>1, <1>2, <1>3, <1>4, <1>5 DEF CregInv, MailsCounted

(* A request that is made, and one that is forgotten, has no supporters.   *)
LEMMA NoSupporters ==
  ASSUME TypeOK, OneVotePerMail, MailsCounted, NEW ch \in Chans, NEW m,
         apoyos' = [apoyos EXCEPT ![ch] = <<>>],
         email'  = [email EXCEPT ![ch] = m]
  PROVE  /\ OneVotePerMail' /\ MailsCounted'
         /\ apoyos'[ch] = <<>> /\ Len(apoyos'[ch]) = 0
         /\ \A c \in Chans \ {ch} : apoyos'[c] = apoyos[c]
<1>1. apoyos'[ch] = <<>> /\ \A c \in Chans \ {ch} : apoyos'[c] = apoyos[c] /\ email'[c] = email[c]
  BY DEF TypeOK
<1>2. OneVotePerMail'
  BY <1>1 DEF OneVotePerMail
<1>3. ASSUME NEW c \in Chans
      PROVE  (IsFiniteSet(SupporterMails(c)) /\ Cardinality(SupporterMails(c)) = Len(apoyos[c]))'
  <2>1. CASE c = ch
    <3>1. SupporterMails(c)' = {} /\ Len(apoyos'[c]) = 0
      BY <1>1, <2>1 DEF SupporterMails
    <3> QED BY <3>1, FS_EmptySet
  <2>2. CASE c # ch
    <3>1. SupporterMails(c)' = SupporterMails(c) /\ Len(apoyos'[c]) = Len(apoyos[c])
      BY <1>1, <2>2 DEF SupporterMails
    <3> QED BY <3>1 DEF MailsCounted
  <2> QED BY <2>1, <2>2
<1> QED BY <1>1, <1>2, <1>3 DEF MailsCounted

(* One more supporter, whom do_apoya has let through.                      *)
LEMMA OneMoreSupporter ==
  ASSUME CregInv, NEW u \in Users, NEW ch \in Chans, MaySupport(u, ch),
         apoyos' = [apoyos EXCEPT ![ch] = Append(@, <<nick[ni[u]], mail[ni[u]]>>)],
         email' = email
  PROVE  /\ apoyos' \in [Chans -> Seq(Names \X Mails)]
         /\ OneVotePerMail' /\ MailsCounted'
         /\ Len(apoyos'[ch]) = Len(apoyos[ch]) + 1
         /\ \A c \in Chans \ {ch} : apoyos'[c] = apoyos[c]
         /\ mail[ni[u]] \in Mails \ SupporterMails(ch)
         /\ SupporterMails(ch)' = SupporterMails(ch) \cup {mail[ni[u]]}
<1> DEFINE n == nick[ni[u]]
           m == mail[ni[u]]
           s == apoyos[ch]
<1>1. ni[u] \in Addrs /\ n \in Names /\ m \in Mails
  BY DEF CregInv, TypeOK, MaySupport, Live
<1>2. s \in Seq(Names \X Mails) /\ apoyos \in [Chans -> Seq(Names \X Mails)]
  BY DEF CregInv, TypeOK
<1>3. <<n, m>> \in Names \X Mails
  BY <1>1
<1> HIDE DEF n, m, s
<1>4. /\ Append(s, <<n, m>>) \in Seq(Names \X Mails)
      /\ Len(s) \in Nat
      /\ Len(Append(s, <<n, m>>)) = Len(s) + 1
      /\ DOMAIN s = 1 .. Len(s)
      /\ DOMAIN Append(s, <<n, m>>) = 1 .. Len(s) + 1
      /\ \A i \in 1 .. Len(s) : Append(s, <<n, m>>)[i] = s[i]
      /\ Append(s, <<n, m>>)[Len(s) + 1] = <<n, m>>
  BY <1>2, <1>3
<1>5. apoyos'[ch] = Append(s, <<n, m>>) /\ \A c \in Chans \ {ch} : apoyos'[c] = apoyos[c]
  BY <1>2 DEF n, m, s
<1>6. apoyos' \in [Chans -> Seq(Names \X Mails)]
  BY <1>2, <1>4 DEF n, m, s
<1>7. /\ \A i \in DOMAIN s : s[i][1] # n /\ s[i][2] # m
      /\ s # <<>> => m # email[ch]
  BY DEF MaySupport, Supporters, SupporterMails, n, m, s
<1>8. OneVotePerMail'
  <2> SUFFICES ASSUME NEW c \in Chans, NEW i \in DOMAIN apoyos'[c], NEW j \in DOMAIN apoyos'[c], i < j
               PROVE  /\ apoyos'[c][i][1] # apoyos'[c][j][1]
                      /\ apoyos'[c][i][2] # apoyos'[c][j][2]
                      /\ apoyos'[c][j][2] # email[c]
    BY DEF OneVotePerMail
  <2>1. CASE c # ch
    BY <1>5, <2>1 DEF CregInv, OneVotePerMail
  <2>2. CASE c = ch
    <3>1. i \in 1 .. Len(s) /\ j \in 1 .. Len(s) + 1
      BY <1>4, <1>5, <2>2
    <3>2. CASE j \in 1 .. Len(s)
      BY <1>4, <1>5, <2>2, <3>1, <3>2 DEF CregInv, OneVotePerMail, s
    <3>3. CASE j = Len(s) + 1
      <4>1. s # <<>>
        BY <1>4, <3>1
      <4>2. apoyos'[c][j] = <<n, m>> /\ apoyos'[c][i] = s[i] /\ i \in DOMAIN s
        BY <1>4, <1>5, <2>2, <3>1, <3>3
      <4> QED BY <1>7, <2>2, <4>1, <4>2
    <3> QED BY <1>4, <3>1, <3>2, <3>3
  <2> QED BY <2>1, <2>2
<1>9. SupporterMails(ch)' = SupporterMails(ch) \cup {m}
  <2>1. SupporterMails(ch)' = {Append(s, <<n, m>>)[i][2] : i \in 1 .. Len(s) + 1}
    BY <1>4, <1>5 DEF SupporterMails
  <2>2. SupporterMails(ch) = {s[i][2] : i \in 1 .. Len(s)}
    BY <1>4 DEF SupporterMails, s
  <2>3. \A i \in 1 .. Len(s) + 1 : i \in 1 .. Len(s) \/ i = Len(s) + 1
    BY <1>4
  <2>4. Len(s) + 1 \in 1 .. Len(s) + 1 /\ 1 .. Len(s) \subseteq 1 .. Len(s) + 1
    BY <1>4
  <2>5. Append(s, <<n, m>>)[Len(s) + 1][2] = m
    BY <1>4
  <2> QED BY <1>4, <2>1, <2>2, <2>3, <2>4, <2>5
<1>10. m \notin SupporterMails(ch)
  BY DEF MaySupport, m
<1>11. MailsCounted'
  <2> SUFFICES ASSUME NEW c \in Chans
               PROVE  (IsFiniteSet(SupporterMails(c)) /\ Cardinality(SupporterMails(c)) = Len(apoyos[c]))'
    BY DEF MailsCounted
  <2>1. CASE c # ch
    BY <1>5, <2>1 DEF SupporterMails, CregInv, MailsCounted
  <2>2. CASE c = ch
    <3>1. IsFiniteSet(SupporterMails(ch)) /\ Cardinality(SupporterMails(ch)) = Len(s)
      BY DEF CregInv, MailsCounted, s
    <3>2. /\ IsFiniteSet(SupporterMails(ch) \cup {m})
          /\ Cardinality(SupporterMails(ch) \cup {m}) = Len(s) + 1
      BY <1>10, <3>1, FS_AddElement
    <3> QED BY <1>4, <1>5, <1>9, <2>2, <3>2
  <2> QED BY <2>1, <2>2
<1> QED BY <1>1, <1>4, <1>5, <1>6, <1>8, <1>9, <1>10, <1>11 DEF n, m, s

(* No supporter comes or goes.                                             *)
LEMMA SameSupporters ==
  ASSUME CregInv, UNCHANGED <<apoyos, email>>
  PROVE  OneVotePerMail' /\ MailsCounted'
BY DEF CregInv, OneVotePerMail, MailsCounted, SupporterMails
-----------------------------------------------------------------------------
LEMMA NickStepKeeps ==
  ASSUME CregInv, NickStep
  PROVE  CregInv'
<1>1. TypeOK'
  <2>1. ASSUME NEW a \in Addrs, delnick(a) PROVE TypeOK'
    BY <2>1, NullAssumption DEF CregInv, TypeOK, delnick, Live, requests
  <2>2. ASSUME NEW a \in Addrs, NEW m \in Mails, SetEmail(a, m) PROVE TypeOK'
    BY <2>2, NullAssumption DEF CregInv, TypeOK, SetEmail, Live, requests
  <2>3. ASSUME NEW a \in Addrs, NEW m \in Mails, NEW n \in Names, RegisterNick(a, n, m)
        PROVE  TypeOK'
    BY <2>3, NullAssumption DEF CregInv, TypeOK, RegisterNick, Live, requests
  <2>4. ASSUME NEW u \in Users, DeleteUser(u) PROVE TypeOK'
    BY <2>4 DEF CregInv, TypeOK, DeleteUser, Live, requests
  <2>5. ASSUME NEW u \in Users, NEW a \in Addrs, Identify(u, a) PROVE TypeOK'
    BY <2>5 DEF CregInv, TypeOK, Identify, Live, requests
  <2> QED BY <2>1, <2>2, <2>3, <2>4, <2>5 DEF NickStep
<1>2. UNCHANGED <<requests, chan>>
  BY DEF NickStep, delnick, SetEmail, RegisterNick, DeleteUser, Identify
<1>3. RegisteredIsAccepted' /\ SupportCount' /\ NoRequestNoVotes'
  BY <1>2 DEF CregInv, RegisteredIsAccepted, SupportCount, NoRequestNoVotes, requests
<1> QED BY <1>1, <1>2, <1>3, SameSupporters DEF CregInv, requests

(* A request is made, for a channel ChanServ does not have.                *)
LEMMA MakecregKeeps ==
  ASSUME CregInv, NEW ch \in Chans, NEW a \in Live, NEW e \in {"PROCESO_REG", "ACEPTADO"},
         e = "PROCESO_REG" => CregApoyos > 0,
         chan[ch] = "none", makecreg(ch, a, e), UNCHANGED <<people, chan>>
  PROVE  CregInv'
<1>1. a \in Addrs /\ mail[a] \in Mails
  BY DEF CregInv, TypeOK, Live
<1>2. TypeOK'
  BY <1>1 DEF CregInv, TypeOK, Live, makecreg, people, Estados
<1>3. /\ OneVotePerMail' /\ MailsCounted'
      /\ apoyos'[ch] = <<>> /\ Len(apoyos'[ch]) = 0
      /\ \A c \in Chans \ {ch} : apoyos'[c] = apoyos[c]
  BY NoSupporters DEF CregInv, makecreg
<1>4. RegisteredIsAccepted'
  BY DEF CregInv, TypeOK, RegisteredIsAccepted, makecreg
<1>5. SupportCount' /\ NoRequestNoVotes'
  BY <1>3, ApoyosAssumption, NullAssumption DEF CregInv, TypeOK, SupportCount, NoRequestNoVotes, makecreg
<1> QED BY <1>2, <1>3, <1>4, <1>5 DEF CregInv

(* A request is forgotten, for a channel ChanServ does not have.           *)
LEMMA DelcregKeeps ==
  ASSUME CregInv, NEW ch \in Chans,
         chan[ch] \notin {"registered", "suspended"}, delcreg(ch), UNCHANGED <<people, chan>>
  PROVE  CregInv'
<1>1. TypeOK'
  BY DEF CregInv, TypeOK, Live, delcreg, people
<1>2. /\ OneVotePerMail' /\ MailsCounted' /\ apoyos'[ch] = <<>>
      /\ \A c \in Chans \ {ch} : apoyos'[c] = apoyos[c]
  BY NoSupporters DEF CregInv, delcreg
<1>3. RegisteredIsAccepted'
  BY DEF CregInv, TypeOK, RegisteredIsAccepted, delcreg
<1>4. SupportCount' /\ NoRequestNoVotes'
  BY <1>2, NullAssumption DEF CregInv, TypeOK, SupportCount, NoRequestNoVotes, delcreg, Estados
<1> QED BY <1>1, <1>2, <1>3, <1>4 DEF CregInv

LEMMA UserStepKeeps ==
  ASSUME CregInv, UserStep
  PROVE  CregInv'
<1>1. ASSUME NEW u \in Users, NEW ch \in Chans, do_registra(u, ch) PROVE CregInv'
  <2>1. ni[u] \in Live
    BY <1>1 DEF CregInv, TypeOK, do_registra
  <2>2. CASE CregApoyos > 0
    BY <1>1, <2>1, <2>2, MakecregKeeps DEF do_registra
  <2>3. CASE ~(CregApoyos > 0)
    BY <1>1, <2>1, <2>3, MakecregKeeps DEF do_registra
  <2> QED BY <2>2, <2>3
<1>2. ASSUME NEW u \in Users, NEW ch \in Chans, do_reg(u, ch) PROVE CregInv'
  <2>1. ni[u] \in Live
    BY <1>2 DEF CregInv, TypeOK, do_reg
  <2> QED BY <1>2, <2>1, MakecregKeeps DEF do_reg
<1>3. ASSUME NEW u \in Users, NEW ch \in Chans, do_cancela(u, ch) PROVE CregInv'
  <2>1. chan[ch] \notin {"registered", "suspended"}
    BY <1>3 DEF CregInv, RegisteredIsAccepted, do_cancela
  <2> QED BY <1>3, <2>1, DelcregKeeps DEF do_cancela
<1>4. ASSUME NEW u \in Users, NEW ch \in Chans, do_apoya_ask(u, ch) PROVE CregInv'
  <2>1. TypeOK' /\ UNCHANGED <<requests, chan>>
    BY <1>4 DEF CregInv, TypeOK, do_apoya_ask, Live, requests
  <2>2. RegisteredIsAccepted' /\ SupportCount' /\ NoRequestNoVotes'
    BY <2>1 DEF CregInv, RegisteredIsAccepted, SupportCount, NoRequestNoVotes, requests
  <2> QED BY <2>1, <2>2, SameSupporters DEF CregInv, requests
<1>5. ASSUME NEW u \in Users, NEW ch \in Chans, do_apoya(u, ch) PROVE CregInv'
  <2>1. /\ MaySupport(u, ch) /\ UNCHANGED <<people, founder, email, chan>>
        /\ apoyos' = [apoyos EXCEPT ![ch] = Append(@, <<nick[ni[u]], mail[ni[u]]>>)]
        /\ estado' = [estado EXCEPT ![ch] =
                        IF Len(apoyos'[ch]) >= CregApoyos THEN "ACEPTADO" ELSE @]
        /\ estado[ch] = "PROCESO_REG"
    BY <1>5 DEF do_apoya, MaySupport
  <2>2. /\ apoyos' \in [Chans -> Seq(Names \X Mails)]
        /\ OneVotePerMail' /\ MailsCounted'
        /\ Len(apoyos'[ch]) = Len(apoyos[ch]) + 1
        /\ \A c \in Chans \ {ch} : apoyos'[c] = apoyos[c]
    BY <2>1, OneMoreSupporter
  <2>3. TypeOK'
    BY <2>1, <2>2 DEF CregInv, TypeOK, Live, people, Estados
  <2>4. RegisteredIsAccepted'
    BY <2>1 DEF CregInv, TypeOK, RegisteredIsAccepted
  <2>5. Len(apoyos[ch]) < CregApoyos /\ Len(apoyos[ch]) \in Nat
    BY <2>1 DEF CregInv, TypeOK, SupportCount
  <2>6. ASSUME NEW c \in Chans
        PROVE  /\ estado'[c] = "PROCESO_REG" => Len(apoyos'[c]) < CregApoyos
               /\ estado'[c] = "ACEPTADO" => Len(apoyos'[c]) \in {0, CregApoyos}
    <3>1. CASE c = ch
      BY <2>1, <2>2, <2>5, <3>1, ApoyosAssumption DEF CregInv, TypeOK
    <3>2. CASE c # ch
      BY <2>1, <2>2, <3>2 DEF CregInv, TypeOK, SupportCount
    <3> QED BY <3>1, <3>2
  <2>7. NoRequestNoVotes'
    BY <2>1, <2>2, NullAssumption DEF CregInv, TypeOK, NoRequestNoVotes, Estados
  <2> QED BY <2>2, <2>3, <2>4, <2>6, <2>7 DEF CregInv, SupportCount
<1> QED BY <1>1, <1>2, <1>3, <1>4, <1>5 DEF UserStep

(* A decision: the request gets another state, and ChanServ may follow.    *)
LEMMA DecisionKeeps ==
  ASSUME CregInv, NEW ch \in Chans, NEW e \in Estados, e \notin {"PROCESO_REG", "ACEPTADO"},
         Becomes(ch, e), UNCHANGED people,
         chan' \in [Chans -> {"none", "registered", "suspended", "forbidden"}],
         \A c \in Chans \ {ch} : chan'[c] = chan[c],
         chan'[ch] \in {"registered", "suspended"} => e \in {"REGISTRADO", "MARCADO", "SUSPENDIDO"}
  PROVE  CregInv'
<1>1. TypeOK'
  BY DEF CregInv, TypeOK, Live, Becomes, people
<1>2. RegisteredIsAccepted'
  BY DEF CregInv, TypeOK, RegisteredIsAccepted, Becomes
<1>3. SupportCount' /\ NoRequestNoVotes'
  BY NullAssumption DEF CregInv, TypeOK, SupportCount, NoRequestNoVotes, Becomes
<1> QED BY <1>1, <1>2, <1>3, SameSupporters DEF CregInv, Becomes

(* ChanServ changes a channel it has, or takes a forbidden one away.       *)
LEMMA ChannelKeeps ==
  ASSUME CregInv, NEW ch \in Chans, UNCHANGED <<people, requests>>,
         chan' \in [Chans -> {"none", "registered", "suspended", "forbidden"}],
         \A c \in Chans \ {ch} : chan'[c] = chan[c],
         chan'[ch] \in {"registered", "suspended"} => chan[ch] \in {"registered", "suspended"}
  PROVE  CregInv'
<1>1. TypeOK'
  BY DEF CregInv, TypeOK, Live, people, requests
<1>2. RegisteredIsAccepted' /\ SupportCount' /\ NoRequestNoVotes'
  BY DEF CregInv, RegisteredIsAccepted, SupportCount, NoRequestNoVotes, requests
<1> QED BY <1>1, <1>2, SameSupporters DEF CregInv, requests

LEMMA StaffStepKeeps ==
  ASSUME CregInv, NEW ch \in Chans,
         \/ do_acepta(ch) \/ do_deniega(ch) \/ do_fuerza(ch)
         \/ do_marcar(ch) \/ do_desmarcar(ch) \/ do_drop(ch)
         \/ do_suspend(ch) \/ do_unsuspend(ch)
         \/ expire_chans(ch) \/ cs_do(ch)
  PROVE  CregInv'
<1> USE DEF CregInv, TypeOK, Estados
<1>1. CASE do_acepta(ch)
  BY <1>1, DecisionKeeps DEF do_acepta, registra_con_creg
<1>2. CASE do_fuerza(ch)
  BY <1>2, DecisionKeeps DEF do_fuerza, registra_con_creg
<1>3. CASE do_deniega(ch)
  <2>1. chan[ch] \notin {"registered", "suspended"}
    BY <1>3 DEF do_deniega, RegisteredIsAccepted
  <2> QED BY <1>3, <2>1, DecisionKeeps DEF do_deniega
<1>4. CASE do_marcar(ch)
  BY <1>4, DecisionKeeps DEF do_marcar
<1>5. CASE do_desmarcar(ch)
  BY <1>5, DecisionKeeps DEF do_desmarcar
<1>6. CASE do_drop(ch)
  BY <1>6, DelcregKeeps DEF do_drop
<1>7. CASE do_suspend(ch)
  <2>1. CASE Becomes(ch, "SUSPENDIDO")
    BY <1>7, <2>1, DecisionKeeps DEF do_suspend
  <2>2. CASE UNCHANGED requests
    BY <1>7, <2>2, ChannelKeeps DEF do_suspend
  <2> QED BY <1>7, <2>1, <2>2 DEF do_suspend
<1>8. CASE do_unsuspend(ch)
  BY <1>8, DecisionKeeps DEF do_unsuspend
<1>9. CASE expire_chans(ch)
  <2>1. CASE estado[ch] = NULL
    BY <1>9, <2>1, ChannelKeeps DEF expire_chans
  <2>2. CASE estado[ch] # NULL
    BY <1>9, <2>2, DecisionKeeps DEF expire_chans
  <2> QED BY <2>1, <2>2
<1>10. CASE cs_do(ch)
  <2>1. /\ chan' \in [Chans -> {"none", "registered", "suspended", "forbidden"}]
        /\ \A c \in Chans \ {ch} : chan'[c] = chan[c]
        /\ chan'[ch] \in {"registered", "suspended"} => chan[ch] \in {"registered", "suspended"}
    BY <1>10 DEF cs_do
  <2> QED BY <1>10, <2>1, ChannelKeeps DEF cs_do
<1> QED BY <1>1, <1>2, <1>3, <1>4, <1>5, <1>6, <1>7, <1>8, <1>9, <1>10

LEMMA RestartKeeps ==
  ASSUME CregInv, Restart
  PROVE  CregInv'
<1>1. TypeOK'
  BY DEF CregInv, TypeOK, Restart, Live
<1>2. RegisteredIsAccepted' /\ SupportCount' /\ NoRequestNoVotes'
  BY DEF CregInv, RegisteredIsAccepted, SupportCount, NoRequestNoVotes, Restart
<1> QED BY <1>1, <1>2, SameSupporters DEF CregInv, Restart

LEMMA NextCregInv == CregInv /\ [Next]_vars => CregInv'
<1> SUFFICES ASSUME CregInv, [Next]_vars PROVE CregInv'
  OBVIOUS
<1>1. CASE NickStep
  BY <1>1, NickStepKeeps
<1>2. CASE UserStep
  BY <1>2, UserStepKeeps
<1>3. CASE StaffStep
  BY <1>3, StaffStepKeeps DEF StaffStep
<1>4. CASE Restart
  BY <1>4, RestartKeeps
<1>5. CASE UNCHANGED vars
  <2>1. TypeOK' /\ RegisteredIsAccepted' /\ SupportCount' /\ NoRequestNoVotes'
    BY <1>5 DEF CregInv, TypeOK, Live, RegisteredIsAccepted, SupportCount, NoRequestNoVotes, vars, people, requests
  <2> QED BY <1>5, <2>1, SameSupporters DEF CregInv, vars, requests
<1> QED BY <1>1, <1>2, <1>3, <1>4, <1>5 DEF Next

LEMMA InvariantHolds == Spec => []CregInv
BY InitCregInv, NextCregInv, PTL DEF Spec
-----------------------------------------------------------------------------
(* The types of all variables, in every run of CregServ.                   *)
THEOREM TypeCorrect == Spec => []TypeOK
<1>1. CregInv => TypeOK
  BY DEF CregInv
<1> QED BY <1>1, InvariantHolds, PTL

(* registra_con_creg is the only way a channel of ChanServ comes about, and*)
(* no command of either leaves CReG without the request it came from.      *)
THEOREM RegisteredCorrect == Spec => []RegisteredIsAccepted
<1>1. CregInv => RegisteredIsAccepted
  BY DEF CregInv
<1> QED BY <1>1, InvariantHolds, PTL

(* do_apoya counts what is enough, and its tests keep the nicks and mails  *)
(* of supporters apart.                                                    *)
THEOREM VotesCorrect == Spec => []VotesCounted
<1>1. CregInv => VotesCounted
  BY DEF CregInv, VotesCounted
<1> QED BY <1>1, InvariantHolds, PTL
-----------------------------------------------------------------------------
(* The abstract phase and votes of a channel follow its request and its    *)
(* ChannelInfo, and a step that touches one channel leaves the others.     *)
LEMMA OneChannelMoves ==
  ASSUME NEW ch \in Chans,
         \A c \in Chans \ {ch} : Phase(c)' = Phase(c) /\ SupporterMails(c)' = SupporterMails(c)
  PROVE  /\ [c \in Chans |-> Phase(c)]' =
              [[c \in Chans |-> Phase(c)] EXCEPT ![ch] = Phase(ch)']
         /\ [c \in Chans |-> SupporterMails(c)]' =
              [[c \in Chans |-> SupporterMails(c)] EXCEPT ![ch] = SupporterMails(ch)']
OBVIOUS

LEMMA OthersStay ==
  ASSUME TypeOK, NEW ch \in Chans,
         \A c \in Chans \ {ch} : estado'[c] = estado[c] /\ chan'[c] = chan[c]
                                 /\ apoyos'[c] = apoyos[c]
  PROVE  \A c \in Chans \ {ch} : Phase(c)' = Phase(c) /\ SupporterMails(c)' = SupporterMails(c)
BY DEF Phase, SupporterMails

(* A move of the phase alone.                                              *)
LEMMA PhaseMove ==
  ASSUME TypeOK, NEW ch \in Chans, UNCHANGED apoyos,
         \A c \in Chans \ {ch} : estado'[c] = estado[c] /\ chan'[c] = chan[c],
         \/ Phase(ch)' = Phase(ch)
         \/ Phase(ch) = "free" /\ Phase(ch)' = "granted"
         \/ Phase(ch) = "granted" /\ Phase(ch)' = "closed"
         \/ Phase(ch) \in {"asked", "granted", "closed"} /\ Phase(ch)' = "founded"
         \/ Phase(ch) = "founded" /\ Phase(ch)' = "closed"
  PROVE  [Founding!FoundingNext]_(Founding!founding)
<1> DEFINE ph == [c \in Chans |-> Phase(c)]
           vo == [c \in Chans |-> SupporterMails(c)]
<1>1. \A c \in Chans \ {ch} : Phase(c)' = Phase(c) /\ SupporterMails(c)' = SupporterMails(c)
  BY OthersStay
<1>2. SupporterMails(ch)' = SupporterMails(ch)
  BY DEF SupporterMails
<1>3. ph' = [ph EXCEPT ![ch] = Phase(ch)'] /\ vo' = vo
  BY <1>1, <1>2, OneChannelMoves
<1>4. ph[ch] = Phase(ch)
  OBVIOUS
<1>5. CASE Phase(ch)' = Phase(ch)
  <2>1. ph' = ph
    BY <1>1, <1>5
  <2> QED BY <1>3, <2>1 DEF Founding!founding
<1>6. CASE Phase(ch) = "free" /\ Phase(ch)' = "granted"
  <2>1. Founding!Appoint(ch)
    BY <1>3, <1>4, <1>6 DEF Founding!Appoint, Founding!Become
  <2> QED BY <2>1 DEF Founding!FoundingNext
<1>7. CASE Phase(ch) = "granted" /\ Phase(ch)' = "closed"
  <2>1. Founding!Refuse(ch)
    BY <1>3, <1>4, <1>7 DEF Founding!Refuse, Founding!Become
  <2> QED BY <2>1 DEF Founding!FoundingNext
<1>8. CASE Phase(ch) \in {"asked", "granted", "closed"} /\ Phase(ch)' = "founded"
  <2>1. Founding!Force(ch)
    BY <1>3, <1>4, <1>8 DEF Founding!Force, Founding!Become
  <2> QED BY <2>1 DEF Founding!FoundingNext
<1>9. CASE Phase(ch) = "founded" /\ Phase(ch)' = "closed"
  <2>1. Founding!Close(ch)
    BY <1>3, <1>4, <1>9 DEF Founding!Close, Founding!Become
  <2> QED BY <2>1 DEF Founding!FoundingNext
<1> QED BY <1>5, <1>6, <1>7, <1>8, <1>9

LEMMA InitFounding == Init => Founding!FoundingInit
<1> SUFFICES ASSUME Init PROVE Founding!FoundingInit
  OBVIOUS
<1>1. ASSUME NEW ch \in Chans PROVE Phase(ch) = "free" /\ SupporterMails(ch) = {}
  BY NullAssumption DEF Init, Phase, SupporterMails, Estados
<1> QED BY <1>1 DEF Founding!FoundingInit

(* do_registra and do_reg.                                                 *)
LEMMA MakecregFounds ==
  ASSUME CregInv, NEW ch \in Chans, NEW a, NEW e \in {"PROCESO_REG", "ACEPTADO"},
         estado[ch] = NULL, chan[ch] = "none", makecreg(ch, a, e), UNCHANGED chan,
         SupporterMails(ch) = {},
         e = "PROCESO_REG" => CregApoyos > 0
  PROVE  [Founding!FoundingNext]_(Founding!founding)
<1> DEFINE ph == [c \in Chans |-> Phase(c)]
           vo == [c \in Chans |-> SupporterMails(c)]
<1>1. \A c \in Chans \ {ch} : estado'[c] = estado[c] /\ chan'[c] = chan[c] /\ apoyos'[c] = apoyos[c]
  BY DEF CregInv, TypeOK, makecreg
<1>2. \A c \in Chans \ {ch} : Phase(c)' = Phase(c) /\ SupporterMails(c)' = SupporterMails(c)
  BY <1>1, OthersStay DEF CregInv
<1>3. estado'[ch] = e /\ apoyos'[ch] = <<>>
  BY DEF CregInv, TypeOK, makecreg
<1>4. SupporterMails(ch)' = {}
  BY <1>3 DEF SupporterMails
<1>5. ph' = [ph EXCEPT ![ch] = Phase(ch)'] /\ vo' = vo
  BY <1>2, <1>4, OneChannelMoves
<1>6. ph[ch] = "free"
  BY NullAssumption DEF Phase, Estados
<1>7. CASE e = "ACEPTADO"
  <2>1. Phase(ch)' = "granted"
    BY <1>3, <1>7, NullAssumption DEF Phase, Estados
  <2>2. Founding!Appoint(ch)
    BY <1>5, <1>6, <2>1 DEF Founding!Appoint, Founding!Become
  <2> QED BY <2>2 DEF Founding!FoundingNext
<1>8. CASE e = "PROCESO_REG"
  <2>1. Phase(ch)' = "asked"
    BY <1>3, <1>8, NullAssumption DEF Phase, Estados
  <2>2. {} \notin {ms \in SUBSET Mails : Cardinality(ms) >= CregApoyos}
    BY <1>8, FS_EmptySet, ApoyosAssumption
  <2>3. Founding!Ask(ch)
    BY <1>5, <1>6, <2>1, <2>2 DEF Founding!Ask, Founding!Become
  <2> QED BY <2>3 DEF Founding!FoundingNext
<1> QED BY <1>7, <1>8

(* do_cancela and do_drop.                                                 *)
LEMMA DelcregFounds ==
  ASSUME CregInv, NEW ch \in Chans, estado[ch] # NULL,
         chan[ch] \notin {"registered", "suspended"}, delcreg(ch), UNCHANGED chan
  PROVE  [Founding!FoundingNext]_(Founding!founding)
<1> DEFINE ph == [c \in Chans |-> Phase(c)]
           vo == [c \in Chans |-> SupporterMails(c)]
<1>1. \A c \in Chans \ {ch} : estado'[c] = estado[c] /\ chan'[c] = chan[c] /\ apoyos'[c] = apoyos[c]
  BY DEF CregInv, TypeOK, delcreg
<1>2. \A c \in Chans \ {ch} : Phase(c)' = Phase(c) /\ SupporterMails(c)' = SupporterMails(c)
  BY <1>1, OthersStay DEF CregInv
<1>3. estado'[ch] = NULL /\ apoyos'[ch] = <<>>
  BY DEF CregInv, TypeOK, delcreg
<1>4. SupporterMails(ch)' = {}
  BY <1>3 DEF SupporterMails
<1>5. ph' = [ph EXCEPT ![ch] = Phase(ch)'] /\ vo' = [vo EXCEPT ![ch] = {}]
  BY <1>2, <1>4, OneChannelMoves
<1>6. ph[ch] \in {"asked", "granted", "closed"} /\ Phase(ch)' = "free"
  BY <1>3, NullAssumption DEF Phase, Estados
<1>7. Founding!Forget(ch)
  BY <1>5, <1>6 DEF Founding!Forget, Founding!Become
<1> QED BY <1>7 DEF Founding!FoundingNext

LEMMA UserStepFounds ==
  ASSUME CregInv, UserStep
  PROVE  [Founding!FoundingNext]_(Founding!founding)
<1>1. ASSUME NEW u \in Users, NEW ch \in Chans, do_registra(u, ch) \/ do_reg(u, ch)
      PROVE  [Founding!FoundingNext]_(Founding!founding)
  <2>1. PICK e \in {"PROCESO_REG", "ACEPTADO"} :
          /\ makecreg(ch, ni[u], e) /\ UNCHANGED chan
          /\ estado[ch] = NULL /\ chan[ch] = "none"
          /\ e = "PROCESO_REG" => CregApoyos > 0
    BY <1>1 DEF do_registra, do_reg
  <2>2. SupporterMails(ch) = {}
    BY <2>1 DEF CregInv, NoRequestNoVotes, SupporterMails
  <2> QED BY <2>1, <2>2, MakecregFounds
<1>2. ASSUME NEW u \in Users, NEW ch \in Chans, do_cancela(u, ch)
      PROVE  [Founding!FoundingNext]_(Founding!founding)
  <2>1. estado[ch] # NULL /\ chan[ch] \notin {"registered", "suspended"}
    BY <1>2, NullAssumption DEF CregInv, RegisteredIsAccepted, do_cancela, Estados
  <2> QED BY <1>2, <2>1, DelcregFounds DEF do_cancela
<1>3. ASSUME NEW u \in Users, NEW ch \in Chans, do_apoya_ask(u, ch)
      PROVE  [Founding!FoundingNext]_(Founding!founding)
  BY <1>3 DEF do_apoya_ask, requests, Founding!founding, Phase, SupporterMails
<1>4. ASSUME NEW u \in Users, NEW ch \in Chans, do_apoya(u, ch)
      PROVE  [Founding!FoundingNext]_(Founding!founding)
  <2> DEFINE ph == [c \in Chans |-> Phase(c)]
             vo == [c \in Chans |-> SupporterMails(c)]
             m  == mail[ni[u]]
             Enough == {ms \in SUBSET Mails : Cardinality(ms) >= CregApoyos}
  <2>1. /\ MaySupport(u, ch) /\ UNCHANGED <<founder, email, chan>>
        /\ apoyos' = [apoyos EXCEPT ![ch] = Append(@, <<nick[ni[u]], mail[ni[u]]>>)]
        /\ estado' = [estado EXCEPT ![ch] =
                        IF Len(apoyos'[ch]) >= CregApoyos THEN "ACEPTADO" ELSE @]
        /\ estado[ch] = "PROCESO_REG"
    BY <1>4 DEF do_apoya, MaySupport
  <2>2. /\ MailsCounted'
        /\ \A c \in Chans \ {ch} : apoyos'[c] = apoyos[c]
        /\ m \in Mails \ SupporterMails(ch)
        /\ SupporterMails(ch)' = SupporterMails(ch) \cup {m}
    BY <2>1, OneMoreSupporter
  <2>3. \A c \in Chans \ {ch} : Phase(c)' = Phase(c) /\ SupporterMails(c)' = SupporterMails(c)
    <3>1. \A c \in Chans \ {ch} : estado'[c] = estado[c] /\ chan'[c] = chan[c]
      BY <2>1 DEF CregInv, TypeOK
    <3> QED BY <2>2, <3>1, OthersStay DEF CregInv
  <2>4. /\ ph' = [ph EXCEPT ![ch] = Phase(ch)']
        /\ vo' = [vo EXCEPT ![ch] = vo[ch] \cup {m}]
    BY <2>2, <2>3, OneChannelMoves
  <2>5. ph[ch] = "asked"
    BY <2>1, NullAssumption DEF CregInv, RegisteredIsAccepted, Phase, Estados
  <2>6. chan'[ch] = chan[ch] /\ chan[ch] \notin {"registered", "suspended"}
    BY <2>1 DEF CregInv, RegisteredIsAccepted
  <2>7. Phase(ch)' = IF Len(apoyos'[ch]) >= CregApoyos THEN "granted" ELSE "asked"
    BY <2>1, <2>6, NullAssumption DEF CregInv, TypeOK, Phase, Estados
  <2>8. vo[ch] = SupporterMails(ch)
    OBVIOUS
  <2>9. Cardinality(SupporterMails(ch) \cup {m}) = Len(apoyos'[ch])
    BY <2>2 DEF MailsCounted
  <2>10. SupporterMails(ch) \subseteq Mails
    <3>1. \A i \in DOMAIN apoyos[ch] : apoyos[ch][i] \in Names \X Mails
      BY DEF CregInv, TypeOK
    <3> QED BY <3>1 DEF SupporterMails
  <2>11. SupporterMails(ch) \cup {m} \in Enough <=> Len(apoyos'[ch]) >= CregApoyos
    BY <2>2, <2>9, <2>10
  <2>12. Founding!Support(ch, m)
    BY <2>2, <2>4, <2>5, <2>7, <2>8, <2>11 DEF Founding!Support, Founding!Become
  <2> QED BY <2>2, <2>12 DEF Founding!FoundingNext
<1> QED BY <1>1, <1>2, <1>3, <1>4 DEF UserStep

LEMMA StaffStepFounds ==
  ASSUME CregInv, NEW ch \in Chans,
         \/ do_acepta(ch) \/ do_deniega(ch) \/ do_fuerza(ch)
         \/ do_marcar(ch) \/ do_desmarcar(ch) \/ do_drop(ch)
         \/ do_suspend(ch) \/ do_unsuspend(ch)
         \/ expire_chans(ch) \/ cs_do(ch)
  PROVE  [Founding!FoundingNext]_(Founding!founding)
<1> USE NullAssumption DEF CregInv, TypeOK, Estados, Becomes
<1>1. CASE do_acepta(ch)
  BY <1>1, PhaseMove DEF do_acepta, registra_con_creg, Phase
<1>2. CASE do_fuerza(ch)
  BY <1>2, PhaseMove DEF do_fuerza, registra_con_creg, Phase
<1>3. CASE do_deniega(ch)
  BY <1>3, PhaseMove DEF do_deniega, RegisteredIsAccepted, Phase
<1>4. CASE do_marcar(ch)
  BY <1>4, PhaseMove DEF do_marcar, Phase
<1>5. CASE do_desmarcar(ch)
  BY <1>5, PhaseMove DEF do_desmarcar, Phase
<1>6. CASE do_drop(ch)
  BY <1>6, DelcregFounds DEF do_drop
<1>7. CASE do_suspend(ch)
  BY <1>7, PhaseMove DEF do_suspend, requests, Phase
<1>8. CASE do_unsuspend(ch)
  BY <1>8, PhaseMove DEF do_unsuspend, Phase
<1>9. CASE expire_chans(ch)
  BY <1>9, PhaseMove DEF expire_chans, requests, RegisteredIsAccepted, Phase
<1>10. CASE cs_do(ch)
  <2>1. \/ chan'[ch] = chan[ch]
        \/ chan'[ch] \in {"none", "forbidden"}
        \/ chan[ch] \in {"registered", "suspended"} /\ chan'[ch] \in {"registered", "suspended"}
    BY <1>10 DEF cs_do
  <2>2. UNCHANGED <<estado, apoyos>> /\ \A c \in Chans \ {ch} : chan'[c] = chan[c]
    BY <1>10 DEF cs_do, requests
  <2>3. \/ Phase(ch)' = Phase(ch)
        \/ Phase(ch) = "founded" /\ Phase(ch)' = "closed"
    BY <2>1, <2>2 DEF RegisteredIsAccepted, Phase
  <2> QED BY <2>2, <2>3, PhaseMove
<1> QED BY <1>1, <1>2, <1>3, <1>4, <1>5, <1>6, <1>7, <1>8, <1>9, <1>10

LEMMA StepFounding == CregInv /\ [Next]_vars => [Founding!FoundingNext]_(Founding!founding)
<1> SUFFICES ASSUME CregInv, [Next]_vars PROVE [Founding!FoundingNext]_(Founding!founding)
  OBVIOUS
<1>1. CASE NickStep
  <2>1. UNCHANGED <<requests, chan>>
    BY <1>1 DEF NickStep, delnick, SetEmail, RegisterNick, DeleteUser, Identify
  <2> QED BY <2>1 DEF requests, Founding!founding, Phase, SupporterMails
<1>2. CASE UserStep
  BY <1>2, UserStepFounds
<1>3. CASE StaffStep
  BY <1>3, StaffStepFounds DEF StaffStep
<1>4. CASE Restart
  BY <1>4 DEF Restart, Founding!founding, Phase, SupporterMails
<1>5. CASE UNCHANGED vars
  BY <1>5 DEF vars, requests, Founding!founding, Phase, SupporterMails
<1> QED BY <1>1, <1>2, <1>3, <1>4, <1>5 DEF Next

(* CReG founds channels the way the abstract specification does: with as   *)
(* many mail addresses as it asks for, or by the commission's decision.    *)
THEOREM FoundingCorrect == Spec => ImplementsFounding
BY InitFounding, InvariantHolds, StepFounding, PTL DEF Spec, ImplementsFounding, Founding!FoundingSpec
=============================================================================
