------------------------------ MODULE Numbered ------------------------------
(***************************************************************************)
(* The lists whose entries are numbered: the news of news.c, of two types  *)
(* in one array, and the words of antispam.c.                              *)
(***************************************************************************)
EXTENDS Lists

CONSTANTS
  Types,                  \* NEWS_LOGON, NEWS_OPER
  FullItems,              \* the 32767 entries a list takes at most
  MaxNum                  \* bound: the numbers that are given out

ASSUME NumberedAssumption == FullItems \in Nat /\ MaxNum \in Nat

VARIABLES
  news,      \* the array: type and number
  spam,      \* the array: numbers
  numfiles   \* the files of both

numVars == <<news, spam, numfiles>>

(* One more than the number of the last item of the type.                  *)
LastNews(type) == SelectLastInSeq(news, LAMBDA e : e.type = type)
(* Mutant: one more than the number of items of the type.                  *)
NextNewsCount(type) == Cardinality({i \in DOMAIN news : news[i].type = type}) + 1
NextNews(type) == IF LastNews(type) = 0 THEN 1 ELSE news[LastNews(type)].num + 1
NextSpam == IF spam = <<>> THEN 1 ELSE Last(spam) + 1

add_newsitem(type) ==
  /\ Len(news) < FullItems /\ NextNews(type) <= MaxNum
  /\ news' = Append(news, [type |-> type, num |-> NextNews(type)])
  /\ UNCHANGED <<spam, numfiles>>

(* DEL num, and DEL ALL as number 0.                                       *)
del_newsitem(num, type) ==
  /\ news' = Remaining(news, {i \in DOMAIN news :
                               ~(news[i].type = type /\ (num = 0 \/ news[i].num = num))})
  /\ UNCHANGED <<spam, numfiles>>

add_spam ==
  /\ Len(spam) < FullItems /\ NextSpam <= MaxNum
  /\ spam' = Append(spam, NextSpam)
  /\ UNCHANGED <<news, numfiles>>

del_spam(num) ==
  /\ spam' = Remaining(spam, {i \in DOMAIN spam : ~(num = 0 \/ spam[i] = num)})
  /\ UNCHANGED <<news, numfiles>>

save_numbered == numfiles' = [news |-> news, spam |-> spam] /\ UNCHANGED <<news, spam>>
load_numbered == news' = numfiles.news /\ spam' = numfiles.spam /\ UNCHANGED numfiles

NumberedInit == news = <<>> /\ spam = <<>> /\ numfiles = [news |-> <<>>, spam |-> <<>>]

NewsNext == \E type \in Types : \/ add_newsitem(type)
                                \/ \E num \in 0..MaxNum : del_newsitem(num, type)
SpamNext == add_spam \/ \E num \in 0..MaxNum : del_spam(num)

(* However items are entered and taken out, a number that LIST shows names *)
(* one item: DEL takes what its user saw.                                  *)
OneItemPerNumber ==
  /\ \A i, j \in DOMAIN news : news[i] = news[j] => i = j
  /\ \A i, j \in DOMAIN spam : spam[i] = spam[j] => i = j
=============================================================================
