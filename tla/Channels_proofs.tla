-------------------------- MODULE Channels_proofs --------------------------
(***************************************************************************)
(* The lists of who is on which channel agree with each other and, but for *)
(* KICKs of services, with the network: for any number of users, channels  *)
(* and double entries.                                                     *)
(***************************************************************************)
EXTENDS Channels, TLAPS

ChannelsInv ==
  /\ TypeOK
  /\ MembershipMirrored
  /\ LinksAgree
  /\ NobodyUnseen
  /\ GhostsFromKicks
  /\ OpsAreUsers

Calls == [Chans -> [Users -> Nat]]
-----------------------------------------------------------------------------
LEMMA MinusFacts ==
  ASSUME NEW a \in Nat, NEW b \in Nat
  PROVE  /\ Minus(a, b) \in Nat /\ Lesser(a, b) \in Nat
         /\ Minus(a, b) <= a
         /\ Minus(a, Lesser(b, a)) = Minus(a, b)
         /\ Lesser(a, b) <= a /\ Lesser(a, b) <= b
         /\ Lesser(Lesser(b, a), a) = Lesser(b, a)
BY DEF Minus, Lesser

LEMMA NothingThere == NoEntries \in [Chans -> [Users -> Nat]]
                   /\ NoLists \in [Chans -> [Lists -> [Users -> Nat]]]
                   /\ NoChans \in [Users -> [Chans -> Nat]]
BY DEF NoEntries, NoLists, NoChans

LEMMA InitChannelsInv == Init => ChannelsInv
<1> SUFFICES ASSUME Init PROVE ChannelsInv
  OBVIOUS
<1>1. TypeOK
  BY NothingThere DEF Init, TypeOK
<1>2. MembershipMirrored
  BY DEF Init, MembershipMirrored, NoEntries, NoChans, Empty
<1>3. LinksAgree /\ NobodyUnseen /\ GhostsFromKicks
  BY DEF Init, LinksAgree, NobodyUnseen, GhostsFromKicks, NoEntries
<1>4. OpsAreUsers
  BY DEF Init, OpsAreUsers, NoEntries, NoLists
<1> QED BY <1>1, <1>2, <1>3, <1>4 DEF ChannelsInv
-----------------------------------------------------------------------------
(* What every handler that takes users off channels does to the lists.     *)
LEMMA LeaveLists ==
  ASSUME TypeOK, MembershipMirrored, NEW calls \in Calls, Leave(calls)
  PROVE  /\ users' \in [Chans -> [Users -> Nat]]
         /\ lists' \in [Chans -> [Lists -> [Users -> Nat]]]
         /\ chans' \in [Users -> [Chans -> Nat]]
         /\ \A c \in Chans, u \in Users :
              /\ users'[c][u] = Minus(users[c][u], calls[c][u])
              /\ chans'[u][c] = users'[c][u]
         /\ \A c \in Chans, l \in Lists, u \in Users :
              \/ lists'[c][l][u] = 0
              \/ lists'[c][l][u] = Minus(lists[c][l][u], Lesser(calls[c][u], users[c][u]))
<1> DEFINE out == [c \in Chans |-> [u \in Users |-> Lesser(calls[c][u], chans[u][c])]]
           freed == {c \in live : \A u \in Users : users'[c][u] = 0}
<1>1. /\ users' = [c \in Chans |-> [u \in Users |-> Minus(users[c][u], out[c][u])]]
      /\ lists' = [c \in Chans |-> [l \in Lists |-> [u \in Users |->
                     IF c \in freed THEN 0
                     ELSE Minus(lists[c][l][u], Lesser(out[c][u], users[c][u]))]]]
      /\ chans' = [u \in Users |-> [c \in Chans |-> Minus(chans[u][c], calls[c][u])]]
  BY Zenon DEF Leave, chan_deluser, LeftIn
<1> HIDE DEF freed
<1>2. \A c \in Chans, u \in Users :
        /\ users[c][u] \in Nat /\ chans[u][c] \in Nat /\ calls[c][u] \in Nat
        /\ chans[u][c] = users[c][u]
        /\ \A l \in Lists : lists[c][l][u] \in Nat
  <2> TAKE c \in Chans, u \in Users
  <2>1. users[c] \in [Users -> Nat] /\ chans[u] \in [Chans -> Nat]
        /\ calls[c] \in [Users -> Nat] /\ lists[c] \in [Lists -> [Users -> Nat]]
    BY DEF TypeOK, Calls
  <2>2. chans[u][c] = users[c][u]
    BY DEF MembershipMirrored
  <2>3. ASSUME NEW l \in Lists PROVE lists[c][l][u] \in Nat
    BY <2>1
  <2> QED BY <2>1, <2>2, <2>3
<1>3. \A c \in Chans, u \in Users :
        /\ out[c][u] = Lesser(calls[c][u], users[c][u])
        /\ out[c][u] \in Nat /\ out[c][u] <= users[c][u]
  BY <1>2, MinusFacts
<1> HIDE DEF out
<1>4. ASSUME NEW c \in Chans, NEW u \in Users
      PROVE  /\ users'[c][u] = Minus(users[c][u], calls[c][u])
             /\ users'[c][u] \in Nat
             /\ chans'[u][c] = users'[c][u]
  <2>1. users'[c][u] = Minus(users[c][u], out[c][u]) /\ chans'[u][c] = Minus(chans[u][c], calls[c][u])
    BY <1>1
  <2>2. users[c][u] \in Nat /\ calls[c][u] \in Nat /\ chans[u][c] = users[c][u]
        /\ out[c][u] = Lesser(calls[c][u], users[c][u])
    BY <1>2, <1>3
  <2> QED BY <2>1, <2>2 DEF Minus, Lesser
<1>5. ASSUME NEW c \in Chans, NEW l \in Lists, NEW u \in Users
      PROVE  /\ \/ lists'[c][l][u] = 0
                \/ lists'[c][l][u] = Minus(lists[c][l][u], Lesser(calls[c][u], users[c][u]))
             /\ lists'[c][l][u] \in Nat
  <2>1. lists'[c][l][u] = IF c \in freed THEN 0
                          ELSE Minus(lists[c][l][u], Lesser(out[c][u], users[c][u]))
    BY <1>1
  <2>2. Lesser(out[c][u], users[c][u]) = Lesser(calls[c][u], users[c][u])
    BY <1>2, <1>3, MinusFacts
  <2>3. /\ lists[c][l][u] \in Nat /\ calls[c][u] \in Nat /\ users[c][u] \in Nat
    BY <1>2
  <2> QED BY <2>1, <2>2, <2>3 DEF Minus, Lesser
<1>6. users' \in [Chans -> [Users -> Nat]]
  BY <1>1, <1>4
<1>7. chans' \in [Users -> [Chans -> Nat]]
  BY <1>1, <1>4
<1>8. lists' \in [Chans -> [Lists -> [Users -> Nat]]]
  BY <1>1, <1>5
<1> QED BY <1>4, <1>5, <1>6, <1>7, <1>8

LEMMA CallsFacts ==
  ASSUME TypeOK
  PROVE  /\ \A u \in Users, c \in Chans : Once(u, c) \in Calls
         /\ \A us \in SUBSET Users : OffAll(us) \in Calls
         /\ \A c \in Chans : AllOff(c) \in Calls
<1>1. \A u \in Users, c \in Chans : Once(u, c) \in Calls
  BY DEF Once, Calls
<1>2. ASSUME NEW us \in SUBSET Users PROVE OffAll(us) \in Calls
  <2>1. \A u \in Users : chans[u] \in [Chans -> Nat]
    BY DEF TypeOK
  <2> QED BY <2>1 DEF OffAll, Calls
<1>3. ASSUME NEW c \in Chans PROVE AllOff(c) \in Calls
  <2>1. users[c] \in [Users -> Nat]
    BY DEF TypeOK
  <2> QED BY <2>1 DEF AllOff, Calls
<1> QED BY <1>1, <1>2, <1>3

(* It keeps the invariant if the network, and the KICKs on the way, agree. *)
LEMMA LeaveInv ==
  ASSUME ChannelsInv, NEW calls \in Calls, Leave(calls), info' = info,
         online' \subseteq online,
         \A u \in online \ online', c \in Chans : users'[c][u] = 0,
         present' \subseteq present,
         kicks \subseteq kicks', kicks' \subseteq Chans \X Users,
         \A c \in Chans, u \in Users :
           <<c, u>> \in present' /\ users[c][u] > 0 /\ users'[c][u] = 0
             => <<c, u>> \in kicks',
         \A c \in Chans, u \in Users :
           users'[c][u] > 0 /\ <<c, u>> \in present /\ <<c, u>> \notin stale
             => <<c, u>> \in present'
  PROVE  ChannelsInv'
<1> DEFINE freed == {c \in live : \A u \in Users : users'[c][u] = 0}
<1> USE DEF ChannelsInv
<1>1. /\ users' \in [Chans -> [Users -> Nat]]
      /\ lists' \in [Chans -> [Lists -> [Users -> Nat]]]
      /\ chans' \in [Users -> [Chans -> Nat]]
      /\ \A c \in Chans, u \in Users :
           /\ users'[c][u] = Minus(users[c][u], calls[c][u])
           /\ chans'[u][c] = users'[c][u]
      /\ \A c \in Chans, l \in Lists, u \in Users :
           \/ lists'[c][l][u] = 0
           \/ lists'[c][l][u] = Minus(lists[c][l][u], Lesser(calls[c][u], users[c][u]))
  BY LeaveLists
<1>2. /\ live'    = live \ freed
      /\ chan_ci' = chan_ci \ freed
      /\ info_c'  = info_c \ (freed \cap chan_ci)
      /\ stale'   = {p \in stale : users'[p[1]][p[2]] > 0}
      /\ strays'  = {p \in strays : lists'[p[1]][p[2]][p[3]] > 0}
  BY Zenon DEF Leave, chan_deluser
<1>3. ASSUME NEW c \in Chans, NEW u \in Users
      PROVE  /\ users[c][u] \in Nat /\ users'[c][u] \in Nat
             /\ calls[c][u] \in Nat
             /\ users'[c][u] <= users[c][u]
             /\ \A l \in Lists : lists[c][l][u] \in Nat /\ lists'[c][l][u] \in Nat
  <2>1. /\ users[c] \in [Users -> Nat] /\ users'[c] \in [Users -> Nat]
        /\ calls[c] \in [Users -> Nat]
        /\ lists[c] \in [Lists -> [Users -> Nat]] /\ lists'[c] \in [Lists -> [Users -> Nat]]
    BY <1>1 DEF TypeOK, Calls
  <2>2. users[c][u] \in Nat /\ users'[c][u] \in Nat /\ calls[c][u] \in Nat
    BY <2>1
  <2>3. users'[c][u] = Minus(users[c][u], calls[c][u])
    BY <1>1
  <2>4. ASSUME NEW l \in Lists PROVE lists[c][l][u] \in Nat /\ lists'[c][l][u] \in Nat
    BY <2>1
  <2> QED BY <2>2, <2>3, <2>4 DEF Minus
<1> HIDE DEF freed
<1>4. TypeOK'
  <2>1. /\ online' \subseteq Users /\ info' \in [Chans -> Infos]
        /\ present' \subseteq Chans \X Users /\ kicks' \subseteq Chans \X Users
    BY DEF TypeOK
  <2>2. /\ live' \subseteq Chans /\ chan_ci' \subseteq Chans /\ info_c' \subseteq Chans
        /\ stale' \subseteq Chans \X Users /\ strays' \subseteq Chans \X Lists \X Users
    BY <1>2 DEF TypeOK
  <2> QED BY <1>1, <2>1, <2>2 DEF TypeOK
<1>5. MembershipMirrored'
  <2>1. \A u \in Users \ online', c \in Chans : users'[c][u] = 0
    <3> TAKE u \in Users \ online', c \in Chans
    <3>1. CASE u \in online
      BY <3>1
    <3>2. CASE u \notin online
      <4>1. users[c][u] = 0
        BY <3>2 DEF MembershipMirrored
      <4> QED BY <4>1, <1>3
    <3> QED BY <3>1, <3>2
  <2>2. ASSUME NEW c \in Chans PROVE c \in live' <=> ~Empty(c)'
    <3>1. c \in live <=> ~Empty(c)
      BY DEF MembershipMirrored
    <3>2. Empty(c) => Empty(c)'
      BY <1>3 DEF Empty
    <3>3. c \in freed <=> c \in live /\ Empty(c)'
      BY DEF freed, Empty
    <3> QED BY <1>2, <3>1, <3>2, <3>3
  <2> QED BY <1>1, <2>1, <2>2 DEF MembershipMirrored
<1>6. LinksAgree'
  BY <1>2 DEF LinksAgree
<1>7. NobodyUnseen'
  <2> SUFFICES ASSUME NEW c \in Chans, NEW u \in Users,
                      <<c, u>> \in present', users'[c][u] = 0
               PROVE  <<c, u>> \in kicks'
    BY DEF NobodyUnseen
  <2>1. CASE users[c][u] = 0
    BY <2>1 DEF NobodyUnseen
  <2>2. CASE users[c][u] > 0
    BY <2>2
  <2> QED BY <2>1, <2>2, <1>3
<1>8. GhostsFromKicks'
  <2> SUFFICES ASSUME NEW c \in Chans, NEW u \in Users,
                      <<c, u>> \notin stale', users'[c][u] # 0
               PROVE  users'[c][u] = 1 /\ <<c, u>> \in present'
    BY DEF GhostsFromKicks
  <2>1. users'[c][u] > 0 /\ users[c][u] > 0
    BY <1>3
  <2>2. <<c, u>> \notin stale
    BY <1>2, <2>1
  <2>3. users[c][u] = 1 /\ <<c, u>> \in present
    BY <2>1, <2>2 DEF GhostsFromKicks
  <2> QED BY <1>3, <2>1, <2>2, <2>3
<1>9. OpsAreUsers'
  <2> SUFFICES ASSUME NEW c \in Chans, NEW l \in Lists, NEW u \in Users,
                      <<c, l, u>> \notin strays'
               PROVE  lists'[c][l][u] <= users'[c][u]
    BY DEF OpsAreUsers
  <2>1. /\ users[c][u] \in Nat /\ calls[c][u] \in Nat /\ users'[c][u] \in Nat
        /\ lists[c][l][u] \in Nat /\ lists'[c][l][u] \in Nat
    BY <1>3
  <2>2. CASE lists'[c][l][u] = 0
    BY <2>1, <2>2
  <2>3. CASE lists'[c][l][u] > 0
    <3>1. <<c, l, u>> \notin strays
      BY <1>2, <2>3
    <3>2. lists[c][l][u] <= users[c][u]
      BY <3>1 DEF OpsAreUsers
    <3>3. /\ lists'[c][l][u] = Minus(lists[c][l][u], Lesser(calls[c][u], users[c][u]))
          /\ users'[c][u] = Minus(users[c][u], calls[c][u])
      BY <1>1, <2>1, <2>3
    <3> QED BY <2>1, <3>2, <3>3 DEF Minus, Lesser
  <2> QED BY <2>1, <2>2, <2>3
<1> QED BY <1>4, <1>5, <1>6, <1>7, <1>8, <1>9
-----------------------------------------------------------------------------
(* The handlers that take users off channels.                              *)
LEMMA LeaveStep ==
  ASSUME ChannelsInv,
         \/ \E us \in SUBSET Users : delete_user(us)
         \/ \E u \in Users : part_all(u)
         \/ \E u \in Users, c \in Chans : do_part(u, c) \/ do_ckick(u, c)
         \/ \E c \in Chans : clear_users(c)
  PROVE  ChannelsInv'
<1> USE DEF ChannelsInv
<1>0. \A c \in Chans, u \in Users : users[c][u] \in Nat /\ chans[u][c] = users[c][u]
  <2> TAKE c \in Chans, u \in Users
  <2>1. users[c] \in [Users -> Nat]
    BY DEF TypeOK
  <2> QED BY <2>1 DEF MembershipMirrored
<1>1. ASSUME NEW us \in SUBSET Users, Leave(OffAll(us)), info' = info, kicks' = kicks,
             online' = online \/ online' = online \ us,
             online \ online' \subseteq us,
             present' = {p \in present : p[2] \notin us}
      PROVE  ChannelsInv'
  <2>1. OffAll(us) \in Calls
    BY CallsFacts
  <2>2. ASSUME NEW c \in Chans, NEW u \in us PROVE users'[c][u] = 0
    <3>1. OffAll(us)[c][u] = chans[u][c]
      BY DEF OffAll
    <3>2. users'[c][u] = Minus(users[c][u], users[c][u])
      BY <1>0, <1>1, <2>1, <3>1, LeaveLists
    <3> QED BY <1>0, <3>2 DEF Minus
  <2>3. ASSUME NEW c \in Chans, NEW u \in Users \ us, users'[c][u] = 0 PROVE users[c][u] = 0
    <3>1. OffAll(us)[c][u] = 0
      BY DEF OffAll
    <3>2. users'[c][u] = Minus(users[c][u], 0)
      BY <1>1, <2>1, <3>1, LeaveLists
    <3> QED BY <1>0, <2>3, <3>2 DEF Minus
  <2>4. \A c \in Chans, u \in us : <<c, u>> \notin present'
    BY <1>1
  <2>5. \A c \in Chans, u \in Users \ us : <<c, u>> \in present' <=> <<c, u>> \in present
    BY <1>1
  <2>6. \A u \in online \ online', c \in Chans : users'[c][u] = 0
    BY <1>1, <2>2
  <2>7. online' \subseteq online /\ present' \subseteq present
        /\ kicks \subseteq kicks' /\ kicks' \subseteq Chans \X Users
    BY <1>1 DEF TypeOK
  <2>8. \A c \in Chans, u \in Users :
          <<c, u>> \in present' /\ users[c][u] > 0 /\ users'[c][u] = 0
            => <<c, u>> \in kicks'
    BY <2>3, <2>4
  <2>9. \A c \in Chans, u \in Users :
          users'[c][u] > 0 /\ <<c, u>> \in present /\ <<c, u>> \notin stale
            => <<c, u>> \in present'
    BY <2>2, <2>5
  <2> QED BY <1>1, <2>1, <2>6, <2>7, <2>8, <2>9, LeaveInv
<1>2. ASSUME NEW us \in SUBSET Users, delete_user(us) PROVE ChannelsInv'
  BY <1>1, <1>2 DEF delete_user
<1>3. ASSUME NEW u \in Users, part_all(u) PROVE ChannelsInv'
  BY <1>1, <1>3 DEF part_all
<1>4. ASSUME NEW u \in Users, NEW c \in Chans, Leave(Once(u, c))
      PROVE  /\ Once(u, c) \in Calls
             /\ users'[c][u] = Minus(users[c][u], 1)
             /\ \A d \in Chans, v \in Users :
                  <<d, v>> # <<c, u>> => users'[d][v] = users[d][v]
  <2>1. Once(u, c) \in Calls
    BY CallsFacts
  <2>2. Once(u, c)[c][u] = 1
    BY DEF Once
  <2>3. ASSUME NEW d \in Chans, NEW v \in Users, <<d, v>> # <<c, u>>
        PROVE  users'[d][v] = users[d][v]
    <3>1. Once(u, c)[d][v] = 0
      BY <2>3 DEF Once
    <3>2. users'[d][v] = Minus(users[d][v], 0)
      BY <1>4, <2>1, <3>1, LeaveLists
    <3> QED BY <1>0, <3>2 DEF Minus
  <2>4. users'[c][u] = Minus(users[c][u], 1)
    BY <1>4, <2>1, <2>2, LeaveLists
  <2> QED BY <2>1, <2>3, <2>4
<1>5. ASSUME NEW u \in Users, NEW c \in Chans, do_part(u, c) PROVE ChannelsInv'
  <2>1. Leave(Once(u, c)) /\ present' = present \ {<<c, u>>}
        /\ online' = online /\ info' = info /\ kicks' = kicks
    BY <1>5 DEF do_part
  <2>2. kicks' \subseteq Chans \X Users
    BY <2>1 DEF TypeOK
  <2>3. \A d \in Chans, v \in Users :
          <<d, v>> \in present' /\ users[d][v] > 0 /\ users'[d][v] = 0
            => <<d, v>> \in kicks'
    BY <1>4, <2>1
  <2>4. ASSUME NEW d \in Chans, NEW v \in Users,
               users'[d][v] > 0, <<d, v>> \in present, <<d, v>> \notin stale
        PROVE  <<d, v>> \in present'
    <3>1. CASE <<d, v>> # <<c, u>>
      BY <2>1, <2>4, <3>1
    <3>2. CASE <<d, v>> = <<c, u>>
      <4>1. users'[c][u] = Minus(users[c][u], 1) /\ users'[c][u] > 0 /\ <<c, u>> \notin stale
        BY <1>4, <2>1, <2>4, <3>2
      <4>2. users[c][u] = 0 \/ users[c][u] = 1
        BY <4>1 DEF GhostsFromKicks
      <4> QED BY <4>1, <4>2 DEF Minus
    <3> QED BY <3>1, <3>2
  <2> QED BY <1>4, <2>1, <2>2, <2>3, <2>4, LeaveInv
<1>6. ASSUME NEW u \in Users, NEW c \in Chans, do_ckick(u, c) PROVE ChannelsInv'
  <2>1. Leave(Once(u, c)) /\ kicks' = kicks \cup {<<c, u>>}
        /\ online' = online /\ info' = info /\ present' = present
    BY <1>6 DEF do_ckick
  <2>2. kicks' \subseteq Chans \X Users
    BY <2>1 DEF TypeOK
  <2>3. \A d \in Chans, v \in Users :
          <<d, v>> \in present' /\ users[d][v] > 0 /\ users'[d][v] = 0
            => <<d, v>> \in kicks'
    BY <1>4, <2>1
  <2> QED BY <1>4, <2>1, <2>2, <2>3, LeaveInv
<1>7. ASSUME NEW c \in Chans, clear_users(c) PROVE ChannelsInv'
  <2>1. Leave(AllOff(c)) /\ online' = online /\ info' = info /\ present' = present
        /\ kicks' = kicks \cup {<<c, u>> : u \in {v \in Users : users[c][v] > 0}}
    BY <1>7 DEF clear_users
  <2>2. kicks' \subseteq Chans \X Users
    BY <2>1 DEF TypeOK
  <2>3. AllOff(c) \in Calls
    BY CallsFacts
  <2>4. ASSUME NEW d \in Chans, NEW u \in Users,
               users[d][u] > 0, users'[d][u] = 0
        PROVE  <<d, u>> \in kicks'
    <3>1. CASE d = c
      BY <2>1, <2>4, <3>1
    <3>2. CASE d # c
      <4>1. AllOff(c)[d][u] = 0
        BY <3>2 DEF AllOff
      <4>2. users'[d][u] = Minus(users[d][u], 0)
        BY <2>1, <2>3, <4>1, LeaveLists
      <4> QED BY <1>0, <2>4, <4>2 DEF Minus
    <3> QED BY <3>1, <3>2
  <2> QED BY <2>1, <2>2, <2>3, <2>4, LeaveInv
<1> QED BY <1>2, <1>3, <1>5, <1>6, <1>7
-----------------------------------------------------------------------------
LEMMA JoinStep ==
  ASSUME ChannelsInv, NEW u \in Users, NEW c \in Chans,
         NEW l \in Lists \cup {"none"}, do_join(u, c, l)
  PROVE  ChannelsInv'
<1> USE DEF ChannelsInv
<1>1. /\ u \in online /\ <<c, u>> \notin present
      /\ present' = present \cup {<<c, u>>}
      /\ chans' = [chans EXCEPT ![u][c] = @ + 1]
      /\ users' = [users EXCEPT ![c][u] = @ + 1]
      /\ lists' = IF l \in Lists THEN [lists EXCEPT ![c][l][u] = @ + 1] ELSE lists
      /\ live'  = live \cup {c}
      /\ IF c \notin live /\ info[c] # "none"
           THEN chan_ci' = chan_ci \cup {c} /\ info_c' = info_c \cup {c}
           ELSE chan_ci' = chan_ci /\ info_c' = info_c
      /\ online' = online /\ info' = info /\ kicks' = kicks
      /\ stale' = stale /\ strays' = strays
  BY DEF do_join, Joins, chan_adduser, links
<1>2. ASSUME NEW d \in Chans, NEW v \in Users
      PROVE  /\ users[d][v] \in Nat /\ chans[v][d] \in Nat
             /\ users'[d][v] = IF d = c /\ v = u THEN users[d][v] + 1 ELSE users[d][v]
             /\ chans'[v][d] = IF d = c /\ v = u THEN chans[v][d] + 1 ELSE chans[v][d]
  <2>1. /\ users[d] \in [Users -> Nat] /\ users[c] \in [Users -> Nat]
        /\ chans[v] \in [Chans -> Nat] /\ chans[u] \in [Chans -> Nat]
    BY DEF TypeOK
  <2>2. users'[d] = IF d = c THEN [users[c] EXCEPT ![u] = @ + 1] ELSE users[d]
    BY <1>1 DEF TypeOK
  <2>3. chans'[v] = IF v = u THEN [chans[u] EXCEPT ![c] = @ + 1] ELSE chans[v]
    BY <1>1 DEF TypeOK
  <2> QED BY <2>1, <2>2, <2>3
<1>3. ASSUME NEW d \in Chans, NEW k \in Lists, NEW v \in Users
      PROVE  /\ lists[d][k][v] \in Nat
             /\ lists'[d][k][v] = IF d = c /\ k = l /\ v = u
                                  THEN lists[d][k][v] + 1 ELSE lists[d][k][v]
  <2>1. lists[d] \in [Lists -> [Users -> Nat]] /\ lists[c] \in [Lists -> [Users -> Nat]]
    BY DEF TypeOK
  <2>2. lists[d][k] \in [Users -> Nat]
    BY <2>1
  <2>3. CASE l \in Lists
    <3>1. lists'[d] = IF d = c THEN [lists[c] EXCEPT ![l][u] = @ + 1] ELSE lists[d]
      BY <1>1, <2>3 DEF TypeOK
    <3>2. lists'[d][k] = IF d = c /\ k = l THEN [lists[c][l] EXCEPT ![u] = @ + 1] ELSE lists[d][k]
      BY <2>1, <2>3, <3>1
    <3> QED BY <2>2, <3>2
  <2>4. CASE l \notin Lists
    BY <1>1, <2>2, <2>4
  <2> QED BY <2>3, <2>4
<1>4. TypeOK'
  <2>1. users' \in [Chans -> [Users -> Nat]] /\ chans' \in [Users -> [Chans -> Nat]]
    BY <1>1 DEF TypeOK
  <2>2. lists' \in [Chans -> [Lists -> [Users -> Nat]]]
    <3>1. CASE l \in Lists
      <4>1. lists[c] \in [Lists -> [Users -> Nat]]
        BY DEF TypeOK
      <4>2. lists' = [lists EXCEPT ![c] = [lists[c] EXCEPT ![l][u] = @ + 1]]
        BY <1>1, <3>1 DEF TypeOK
      <4>3. [lists[c] EXCEPT ![l][u] = @ + 1] \in [Lists -> [Users -> Nat]]
        BY <3>1, <4>1
      <4> QED BY <4>2, <4>3 DEF TypeOK
    <3>2. CASE l \notin Lists
      BY <1>1, <3>2 DEF TypeOK
    <3> QED BY <3>1, <3>2
  <2>3. live' \subseteq Chans /\ chan_ci' \subseteq Chans /\ info_c' \subseteq Chans
    BY <1>1 DEF TypeOK
  <2>4. present' \subseteq Chans \X Users
    BY <1>1 DEF TypeOK
  <2> QED BY <1>1, <2>1, <2>2, <2>3, <2>4 DEF TypeOK
<1>5. MembershipMirrored'
  <2>1. \A v \in Users, d \in Chans : chans'[v][d] = users'[d][v]
    BY <1>2 DEF MembershipMirrored
  <2>2. \A v \in Users \ online', d \in Chans : users'[d][v] = 0
    BY <1>1, <1>2 DEF MembershipMirrored
  <2>3. \A d \in Chans : d \in live' <=> ~Empty(d)'
    <3>1. \A d \in Chans \ {c} : Empty(d)' <=> Empty(d)
      BY <1>2 DEF Empty
    <3>2. users'[c][u] # 0
      BY <1>2
    <3> QED BY <1>1, <3>1, <3>2 DEF MembershipMirrored, Empty
  <2> QED BY <2>1, <2>2, <2>3 DEF MembershipMirrored
<1>6. LinksAgree'
  <2>1. info[c] \in Infos
    BY DEF TypeOK
  <2> QED BY <1>1, <2>1 DEF LinksAgree, Infos
<1>7. NobodyUnseen' /\ GhostsFromKicks'
  BY <1>1, <1>2 DEF NobodyUnseen, GhostsFromKicks
<1>8. OpsAreUsers'
  <2> SUFFICES ASSUME NEW d \in Chans, NEW k \in Lists, NEW v \in Users,
                      <<d, k, v>> \notin strays
               PROVE  lists'[d][k][v] <= users'[d][v]
    BY <1>1 DEF OpsAreUsers
  <2>1. lists[d][k][v] <= users[d][v]
    BY DEF OpsAreUsers
  <2> QED BY <1>2, <1>3, <2>1
<1> QED BY <1>4, <1>5, <1>6, <1>7, <1>8

(* Modes change lists and strays and nothing else.                         *)
LEMMA ListsStep ==
  ASSUME ChannelsInv,
         lists' \in [Chans -> [Lists -> [Users -> Nat]]],
         strays' \subseteq Chans \X Lists \X Users,
         \A c \in Chans, l \in Lists, u \in Users :
           <<c, l, u>> \notin strays' => lists'[c][l][u] <= users[c][u],
         UNCHANGED <<online, chans, users, live, links, stale, info, network>>
  PROVE  ChannelsInv'
<1> USE DEF ChannelsInv, links, network
<1>1. TypeOK'
  BY DEF TypeOK
<1>2. MembershipMirrored'
  BY DEF MembershipMirrored, Empty
<1>3. LinksAgree' /\ NobodyUnseen' /\ GhostsFromKicks'
  BY DEF LinksAgree, NobodyUnseen, GhostsFromKicks
<1>4. OpsAreUsers'
  BY DEF OpsAreUsers
<1> QED BY <1>1, <1>2, <1>3, <1>4

(* Entries that are fewer than before.                                     *)
LEMMA FewerLists ==
  ASSUME ChannelsInv, NEW new \in [Chans -> [Lists -> [Users -> Nat]]],
         \A c \in Chans, l \in Lists, u \in Users : new[c][l][u] <= lists[c][l][u],
         SetLists(new)
  PROVE  /\ lists' \in [Chans -> [Lists -> [Users -> Nat]]]
         /\ strays' \subseteq Chans \X Lists \X Users
         /\ \A c \in Chans, l \in Lists, u \in Users :
              <<c, l, u>> \notin strays' => lists'[c][l][u] <= users[c][u]
<1>1. lists' = new /\ strays' = {p \in strays : new[p[1]][p[2]][p[3]] > 0}
  BY DEF SetLists
<1>2. strays' \subseteq Chans \X Lists \X Users
  BY <1>1 DEF ChannelsInv, TypeOK
<1>3. ASSUME NEW c \in Chans, NEW l \in Lists, NEW u \in Users, <<c, l, u>> \notin strays'
      PROVE  new[c][l][u] <= users[c][u]
  <2>1. users[c] \in [Users -> Nat] /\ lists[c] \in [Lists -> [Users -> Nat]]
        /\ new[c] \in [Lists -> [Users -> Nat]]
    BY DEF ChannelsInv, TypeOK
  <2>2. users[c][u] \in Nat /\ lists[c][l][u] \in Nat /\ new[c][l][u] \in Nat
        /\ new[c][l][u] <= lists[c][l][u]
    BY <2>1
  <2>3. CASE new[c][l][u] = 0
    BY <2>2, <2>3
  <2>4. CASE new[c][l][u] > 0
    <3>1. <<c, l, u>> \notin strays
      BY <1>1, <1>3, <2>4
    <3>2. lists[c][l][u] <= users[c][u]
      BY <3>1 DEF ChannelsInv, OpsAreUsers
    <3> QED BY <2>2, <3>2
  <2> QED BY <2>2, <2>3, <2>4
<1> QED BY <1>1, <1>2, <1>3
(* Zeroes written over some of the lists of a channel.                     *)
LEMMA ZeroedLists ==
  ASSUME TypeOK, NEW c \in Chans, NEW ls \in SUBSET Lists,
         NEW new,
         new = [lists EXCEPT ![c] = [l \in Lists |->
                  IF l \in ls THEN [u \in Users |-> 0] ELSE lists[c][l]]]
  PROVE  /\ new \in [Chans -> [Lists -> [Users -> Nat]]]
         /\ \A d \in Chans, l \in Lists, u \in Users : new[d][l][u] <= lists[d][l][u]
<1>1. \A d \in Chans : lists[d] \in [Lists -> [Users -> Nat]]
  BY DEF TypeOK
<1>2. new[c] = [l \in Lists |-> IF l \in ls THEN [u \in Users |-> 0] ELSE lists[c][l]]
      /\ \A d \in Chans \ {c} : new[d] = lists[d]
  BY DEF TypeOK
<1>3. new[c] \in [Lists -> [Users -> Nat]]
  BY <1>1, <1>2
<1>4. new \in [Chans -> [Lists -> [Users -> Nat]]]
  BY <1>3 DEF TypeOK
<1>5. ASSUME NEW d \in Chans, NEW l \in Lists, NEW u \in Users
      PROVE  new[d][l][u] <= lists[d][l][u]
  <2>1. lists[d][l] \in [Users -> Nat]
    BY <1>1
  <2>2. lists[d][l][u] \in Nat
    BY <2>1
  <2>3. new[d][l][u] = lists[d][l][u] \/ new[d][l][u] = 0
    BY <1>2
  <2> QED BY <2>2, <2>3
<1> QED BY <1>4, <1>5

(* One entry of one list of a channel is written.                          *)
LEMMA OneList ==
  ASSUME TypeOK, NEW c \in Chans, NEW l \in Lists, NEW u \in Users, NEW n \in Nat
  PROVE  LET new == [lists EXCEPT ![c][l][u] = n]
         IN  /\ new \in [Chans -> [Lists -> [Users -> Nat]]]
             /\ new[c][l][u] = n
             /\ \A d \in Chans, k \in Lists, v \in Users :
                  <<d, k, v>> # <<c, l, u>> => new[d][k][v] = lists[d][k][v]
<1> DEFINE new == [lists EXCEPT ![c][l][u] = n]
<1>1. \A d \in Chans : lists[d] \in [Lists -> [Users -> Nat]]
  BY DEF TypeOK
<1>2. new = [lists EXCEPT ![c] = [lists[c] EXCEPT ![l] = [lists[c][l] EXCEPT ![u] = n]]]
  OBVIOUS
<1>3. [lists[c] EXCEPT ![l] = [lists[c][l] EXCEPT ![u] = n]] \in [Lists -> [Users -> Nat]]
  BY <1>1
<1>4. new \in [Chans -> [Lists -> [Users -> Nat]]]
  BY <1>2, <1>3 DEF TypeOK
<1>5. new[c][l][u] = n
  BY <1>1 DEF TypeOK
<1>6. ASSUME NEW d \in Chans, NEW k \in Lists, NEW v \in Users, <<d, k, v>> # <<c, l, u>>
      PROVE  new[d][k][v] = lists[d][k][v]
  <2>1. lists[d][k] \in [Users -> Nat] /\ lists[c][l] \in [Users -> Nat]
    BY <1>1
  <2>2. new[d] = IF d = c THEN [lists[c] EXCEPT ![l][u] = n] ELSE lists[d]
    BY DEF TypeOK
  <2>3. new[d][k] = IF d = c /\ k = l THEN [lists[c][l] EXCEPT ![u] = n] ELSE lists[d][k]
    BY <1>1, <2>2
  <2> QED BY <1>6, <2>1, <2>3
<1> QED BY <1>4, <1>5, <1>6

(* MODE and CLEAR change entries of one channel.                           *)
LEMMA ModeStep ==
  ASSUME ChannelsInv, NEW c \in Chans,
         \/ \E u \in Users, l \in Lists : mode_add(u, c, l) \/ mode_del(u, c, l)
         \/ \E ls \in SUBSET Lists : clear_modes(c, ls)
  PROVE  ChannelsInv'
<1> USE DEF ChannelsInv
<1>0. ASSUME NEW d \in Chans, NEW k \in Lists, NEW v \in Users
      PROVE  users[d][v] \in Nat /\ lists[d][k][v] \in Nat
  <2>1. users[d] \in [Users -> Nat] /\ lists[d] \in [Lists -> [Users -> Nat]]
    BY DEF TypeOK
  <2> QED BY <2>1
<1>2. ASSUME NEW u \in Users, NEW l \in Lists, mode_add(u, c, l) PROVE ChannelsInv'
  <2>1. /\ lists[c][l][u] = 0 /\ lists' = [lists EXCEPT ![c][l][u] = 1]
        /\ strays' = IF users[c][u] = 0 THEN strays \cup {<<c, l, u>>} ELSE strays
        /\ UNCHANGED <<online, chans, users, live, links, stale, info, network>>
    BY <1>2 DEF mode_add
  <2>2. /\ lists' \in [Chans -> [Lists -> [Users -> Nat]]]
        /\ lists'[c][l][u] = 1
        /\ \A d \in Chans, k \in Lists, v \in Users :
             <<d, k, v>> # <<c, l, u>> => lists'[d][k][v] = lists[d][k][v]
    BY <2>1, OneList
  <2>3. strays' \subseteq Chans \X Lists \X Users
    BY <2>1 DEF TypeOK
  <2>4. ASSUME NEW d \in Chans, NEW k \in Lists, NEW v \in Users, <<d, k, v>> \notin strays'
        PROVE  lists'[d][k][v] <= users[d][v]
    <3>1. CASE <<d, k, v>> = <<c, l, u>>
      BY <1>0, <2>1, <2>2, <2>4, <3>1
    <3>2. CASE <<d, k, v>> # <<c, l, u>>
      <4>1. <<d, k, v>> \notin strays
        BY <2>1, <2>4
      <4> QED BY <2>2, <3>2, <4>1 DEF OpsAreUsers
    <3> QED BY <3>1, <3>2
  <2> QED BY <2>1, <2>2, <2>3, <2>4, ListsStep
<1>3. ASSUME NEW u \in Users, NEW l \in Lists, mode_del(u, c, l) PROVE ChannelsInv'
  <2> DEFINE new == [lists EXCEPT ![c][l][u] = @ - 1]
  <2>1. /\ lists[c][l][u] > 0 /\ SetLists(new)
        /\ UNCHANGED <<online, chans, users, live, links, stale, info, network>>
    BY <1>3 DEF mode_del
  <2>2. lists[c][l][u] - 1 \in Nat
    BY <1>0, <2>1
  <2>3. new = [lists EXCEPT ![c][l][u] = lists[c][l][u] - 1]
    OBVIOUS
  <2> HIDE DEF new
  <2>4. /\ new \in [Chans -> [Lists -> [Users -> Nat]]]
        /\ new[c][l][u] = lists[c][l][u] - 1
        /\ \A d \in Chans, k \in Lists, v \in Users :
             <<d, k, v>> # <<c, l, u>> => new[d][k][v] = lists[d][k][v]
    BY <2>2, <2>3, OneList
  <2>5. ASSUME NEW d \in Chans, NEW k \in Lists, NEW v \in Users
        PROVE  new[d][k][v] <= lists[d][k][v]
    BY <1>0, <2>4
  <2> QED BY <2>1, <2>4, <2>5, FewerLists, ListsStep
<1>4. ASSUME NEW ls \in SUBSET Lists, clear_modes(c, ls) PROVE ChannelsInv'
  <2> DEFINE new == [lists EXCEPT ![c] = [l \in Lists |->
                       IF l \in ls THEN [u \in Users |-> 0] ELSE lists[c][l]]]
  <2>1. /\ SetLists(new)
        /\ UNCHANGED <<online, chans, users, live, links, stale, info, network>>
    BY <1>4 DEF clear_modes
  <2> HIDE DEF new
  <2>2. /\ new \in [Chans -> [Lists -> [Users -> Nat]]]
        /\ \A d \in Chans, l \in Lists, u \in Users : new[d][l][u] <= lists[d][l][u]
    BY ZeroedLists DEF new
  <2> QED BY <2>1, <2>2, FewerLists, ListsStep
<1> QED BY <1>2, <1>3, <1>4
(* What changes only who is online, the KICKs on the way, or ChannelInfo.  *)
LEMMA InfoStep ==
  ASSUME ChannelsInv,
         \/ \E u \in Users : new_user(u)
         \/ \E u \in Users, c \in Chans : check_akick(u, c) \/ antispamc(u, c)
         \/ \E c \in Chans, us \in SUBSET Users : do_achanakick(c, us)
         \/ \E c \in Chans : \/ registra_con_creg(c) \/ delchan(c)
                             \/ do_forbid(c) \/ do_unsuspend(c)
  PROVE  ChannelsInv'
<1> USE DEF ChannelsInv
<1>1. ASSUME UNCHANGED members, info' = info,
             online \subseteq online', online' \subseteq Users,
             kicks \subseteq kicks', kicks' \subseteq Chans \X Users,
             present \subseteq present', present' \subseteq Chans \X Users,
             \A p \in present' \ present : p \in kicks'
      PROVE  ChannelsInv'
  <2>1. TypeOK'
    BY <1>1 DEF TypeOK, members, links
  <2>2. MembershipMirrored'
    BY <1>1 DEF MembershipMirrored, Empty, members
  <2>3. LinksAgree'
    BY <1>1 DEF LinksAgree, members, links
  <2>4. NobodyUnseen'
    BY <1>1 DEF NobodyUnseen, members
  <2>5. GhostsFromKicks'
    BY <1>1 DEF GhostsFromKicks, members
  <2>6. OpsAreUsers'
    BY <1>1 DEF OpsAreUsers, members
  <2> QED BY <2>1, <2>2, <2>3, <2>4, <2>5, <2>6
<1>2. ASSUME NEW u \in Users, new_user(u) PROVE ChannelsInv'
  <2>1. /\ UNCHANGED members /\ info' = info /\ present' = present /\ kicks' = kicks
        /\ online' = online \cup {u}
    BY <1>2 DEF new_user, network
  <2> QED BY <1>1, <2>1 DEF TypeOK
<1>3. ASSUME NEW u \in Users, NEW c \in Chans, check_akick(u, c) PROVE ChannelsInv'
  <2>1. /\ UNCHANGED members /\ info' = info /\ online' = online
        /\ present' = present \cup {<<c, u>>} /\ kicks' = kicks \cup {<<c, u>>}
    BY <1>3 DEF check_akick, Joins
  <2> QED BY <1>1, <2>1 DEF TypeOK
<1>4. ASSUME NEW u \in Users, NEW c \in Chans, antispamc(u, c) PROVE ChannelsInv'
  <2>1. /\ UNCHANGED members /\ info' = info /\ online' = online
        /\ present' = present /\ kicks' = kicks \cup {<<c, u>>}
    BY <1>4 DEF antispamc
  <2> QED BY <1>1, <2>1 DEF TypeOK
<1>5. ASSUME NEW c \in Chans, NEW us \in SUBSET Users, do_achanakick(c, us) PROVE ChannelsInv'
  <2>1. /\ UNCHANGED members /\ info' = info /\ online' = online
        /\ present' = present /\ kicks' = kicks \cup {<<c, u>> : u \in us}
    BY <1>5 DEF do_achanakick
  <2> QED BY <1>1, <2>1 DEF TypeOK
<1>6. ASSUME UNCHANGED <<online, chans, users, lists, live, stale, strays, network>>,
             info' \in [Chans -> Infos], LinksAgree',
             chan_ci' \subseteq Chans, info_c' \subseteq Chans
      PROVE  ChannelsInv'
  <2>1. TypeOK'
    BY <1>6 DEF TypeOK, network
  <2>2. MembershipMirrored'
    BY <1>6 DEF MembershipMirrored, Empty
  <2>3. NobodyUnseen' /\ GhostsFromKicks'
    BY <1>6 DEF NobodyUnseen, GhostsFromKicks, network
  <2>4. OpsAreUsers'
    BY <1>6 DEF OpsAreUsers
  <2> QED BY <1>6, <2>1, <2>2, <2>3, <2>4
<1>7. ASSUME NEW c \in Chans, registra_con_creg(c) PROVE ChannelsInv'
  <2>1. LinksAgree'
    BY <1>7 DEF registra_con_creg, LinksAgree, TypeOK
  <2>2. info' \in [Chans -> Infos] /\ chan_ci' \subseteq Chans /\ info_c' \subseteq Chans
    BY <1>7 DEF registra_con_creg, TypeOK, Infos
  <2> QED BY <1>6, <1>7, <2>1, <2>2 DEF registra_con_creg
<1>8. ASSUME NEW c \in Chans, NEW k \in {"none", "forbidden"}, Unlink(c),
             info' = [info EXCEPT ![c] = k], live' = live
      PROVE  /\ LinksAgree' /\ info' \in [Chans -> Infos]
             /\ chan_ci' \subseteq Chans /\ info_c' \subseteq Chans
  <2>1. chan_ci' = chan_ci \ {c} /\ info_c' = info_c \ {c}
    BY <1>8 DEF Unlink, LinksAgree
  <2> QED BY <1>8, <2>1 DEF LinksAgree, TypeOK, Infos
<1>9. ASSUME NEW c \in Chans, delchan(c) PROVE ChannelsInv'
  BY <1>6, <1>8, <1>9 DEF delchan
<1>10. ASSUME NEW c \in Chans, do_forbid(c) PROVE ChannelsInv'
  BY <1>6, <1>8, <1>10 DEF do_forbid
<1>11. ASSUME NEW c \in Chans, do_unsuspend(c) PROVE ChannelsInv'
  <2>1. /\ UNCHANGED <<online, chans, users, lists, live, stale, strays, network>>
        /\ chan_ci' = chan_ci /\ info_c' = info_c
        /\ info[c] = "suspended" /\ info' = [info EXCEPT ![c] = "registered"]
    BY <1>11 DEF do_unsuspend, members, links
  <2>2. LinksAgree'
    BY <2>1 DEF LinksAgree, TypeOK
  <2>3. info' \in [Chans -> Infos] /\ chan_ci' \subseteq Chans /\ info_c' \subseteq Chans
    BY <2>1 DEF TypeOK, Infos
  <2> QED BY <1>6, <2>1, <2>2, <2>3
<1> QED BY <1>2, <1>3, <1>4, <1>5, <1>7, <1>9, <1>10, <1>11

(* A suspension takes entries out of chanops and keeps the links.          *)
LEMMA SuspendedStep ==
  ASSUME ChannelsInv, NEW c \in Chans,
         info[c] \in {"registered", "suspended"}, info' = [info EXCEPT ![c] = "suspended"],
         NEW new \in [Chans -> [Lists -> [Users -> Nat]]],
         \A d \in Chans, l \in Lists, u \in Users : new[d][l][u] <= lists[d][l][u],
         SetLists(new),
         UNCHANGED <<online, chans, users, live, links, stale, network>>
  PROVE  ChannelsInv'
<1> USE DEF ChannelsInv
<1>1. /\ online' = online /\ chans' = chans /\ users' = users /\ live' = live
      /\ chan_ci' = chan_ci /\ info_c' = info_c /\ stale' = stale
      /\ present' = present /\ kicks' = kicks
  BY DEF links, network
<1>2. /\ lists' \in [Chans -> [Lists -> [Users -> Nat]]]
      /\ strays' \subseteq Chans \X Lists \X Users
      /\ \A d \in Chans, l \in Lists, u \in Users :
           <<d, l, u>> \notin strays' => lists'[d][l][u] <= users[d][u]
  BY FewerLists
<1>3. TypeOK'
  BY <1>1, <1>2 DEF TypeOK, Infos
<1>4. MembershipMirrored'
  BY <1>1 DEF MembershipMirrored, Empty
<1>5. LinksAgree'
  BY <1>1 DEF LinksAgree, TypeOK
<1>6. NobodyUnseen' /\ GhostsFromKicks'
  BY <1>1 DEF NobodyUnseen, GhostsFromKicks
<1>7. OpsAreUsers'
  BY <1>1, <1>2 DEF OpsAreUsers
<1> QED BY <1>3, <1>4, <1>5, <1>6, <1>7

(* ChanServ's SUSPEND takes all of them.                                   *)
LEMMA SuspendStep ==
  ASSUME ChannelsInv, NEW c \in Chans, do_suspend(c)
  PROVE  ChannelsInv'
<1> DEFINE new == [lists EXCEPT ![c]["chanops"] = [u \in Users |-> 0]]
<1>1. /\ info[c] \in {"registered", "suspended"} /\ info' = [info EXCEPT ![c] = "suspended"]
      /\ SetLists(new)
      /\ UNCHANGED <<online, chans, users, live, links, stale, network>>
  BY DEF do_suspend
<1>2. new = [lists EXCEPT ![c] = [l \in Lists |->
               IF l \in {"chanops"} THEN [u \in Users |-> 0] ELSE lists[c][l]]]
  <2>1. lists[c] \in [Lists -> [Users -> Nat]]
    BY DEF ChannelsInv, TypeOK
  <2>2. [lists[c] EXCEPT !["chanops"] = [u \in Users |-> 0]]
          = [l \in Lists |-> IF l \in {"chanops"} THEN [u \in Users |-> 0] ELSE lists[c][l]]
    BY <2>1 DEF Lists
  <2> QED BY <2>2
<1> HIDE DEF new
<1>3. /\ new \in [Chans -> [Lists -> [Users -> Nat]]]
      /\ \A d \in Chans, l \in Lists, u \in Users : new[d][l][u] <= lists[d][l][u]
  BY <1>2, ZeroedLists DEF Lists, ChannelsInv
<1> QED BY <1>1, <1>3, SuspendedStep

(* CReG's SUSPEND takes one entry, if there is any.                        *)
LEMMA CregSuspendStep ==
  ASSUME ChannelsInv, NEW c \in Chans, suspende_con_creg(c)
  PROVE  ChannelsInv'
<1> DEFINE left(u) == IF lists[c]["chanops"][u] > 0 THEN lists[c]["chanops"][u] - 1 ELSE 0
           new(u) == [lists EXCEPT ![c]["chanops"][u] = left(u)]
<1>1. PICK u \in Users : SetLists(new(u))
  BY DEF suspende_con_creg
<1>2. /\ info[c] \in {"registered", "suspended"} /\ info' = [info EXCEPT ![c] = "suspended"]
      /\ UNCHANGED <<online, chans, users, live, links, stale, network>>
  BY DEF suspende_con_creg
<1>3. \A d \in Chans, l \in Lists, v \in Users : lists[d][l][v] \in Nat
  BY DEF ChannelsInv, TypeOK
<1>4. "chanops" \in Lists /\ left(u) \in Nat /\ left(u) <= lists[c]["chanops"][u]
  BY <1>3 DEF Lists
<1> HIDE DEF left
<1>5. PICK n : n = new(u)
  OBVIOUS
<1>6. /\ n \in [Chans -> [Lists -> [Users -> Nat]]]
      /\ n[c]["chanops"][u] = left(u)
      /\ \A d \in Chans, k \in Lists, v \in Users :
           <<d, k, v>> # <<c, "chanops", u>> => n[d][k][v] = lists[d][k][v]
  BY <1>4, <1>5, OneList DEF ChannelsInv
<1>7. ASSUME NEW d \in Chans, NEW l \in Lists, NEW v \in Users
      PROVE  n[d][l][v] <= lists[d][l][v]
  <2>1. CASE <<d, l, v>> = <<c, "chanops", u>>
    BY <1>4, <1>6, <2>1
  <2>2. CASE <<d, l, v>> # <<c, "chanops", u>>
    <3>1. n[d][l][v] = lists[d][l][v] /\ lists[d][l][v] \in Nat
      BY <1>3, <1>6, <2>2
    <3> QED BY <3>1
  <2> QED BY <2>1, <2>2
<1>8. SetLists(n)
  BY <1>1, <1>5
<1> QED BY <1>2, <1>6, <1>7, <1>8, SuspendedStep

(* A KICK that takes a user off a channel whose entry stays is remembered. *)
LEMMA KickStep ==
  ASSUME ChannelsInv, NEW c \in Chans, NEW u \in Users, KickArrives(c, u)
  PROVE  ChannelsInv'
<1> USE DEF ChannelsInv
<1>1. /\ kicks' = kicks \/ kicks' = kicks \ {<<c, u>>}
      /\ present' = present \ {<<c, u>>}
      /\ stale' = IF users[c][u] > 0 THEN stale \cup {<<c, u>>} ELSE stale
      /\ online' = online /\ chans' = chans /\ users' = users /\ lists' = lists
      /\ live' = live /\ chan_ci' = chan_ci /\ info_c' = info_c
      /\ strays' = strays /\ info' = info
  BY DEF KickArrives, links
<1>2. TypeOK'
  BY <1>1 DEF TypeOK
<1>3. MembershipMirrored'
  BY <1>1 DEF MembershipMirrored, Empty
<1>4. LinksAgree' /\ NobodyUnseen' /\ OpsAreUsers'
  BY <1>1 DEF LinksAgree, NobodyUnseen, OpsAreUsers
<1>5. GhostsFromKicks'
  <2> SUFFICES ASSUME NEW d \in Chans, NEW v \in Users, <<d, v>> \notin stale'
               PROVE  users[d][v] = 0 \/ (users[d][v] = 1 /\ <<d, v>> \in present')
    BY <1>1 DEF GhostsFromKicks
  <2>1. <<d, v>> \notin stale
    BY <1>1
  <2>2. users[d][v] = 0 \/ (users[d][v] = 1 /\ <<d, v>> \in present)
    BY <2>1 DEF GhostsFromKicks
  <2>3. CASE d = c /\ v = u
    <3>1. ~(users[c][u] > 0)
      BY <1>1, <2>3
    <3> QED BY <2>2, <2>3, <3>1
  <2>4. CASE ~(d = c /\ v = u)
    <3>1. <<d, v>> # <<c, u>>
      BY <2>4
    <3> QED BY <1>1, <2>2, <3>1
  <2> QED BY <2>3, <2>4
<1> QED BY <1>2, <1>3, <1>4, <1>5

LEMMA RestartStep ==
  ASSUME ChannelsInv, Restart
  PROVE  ChannelsInv'
<1>1. TypeOK'
  BY NothingThere DEF ChannelsInv, TypeOK, Restart
<1>2. MembershipMirrored'
  BY DEF Restart, MembershipMirrored, NoEntries, NoChans, Empty
<1>3. LinksAgree' /\ NobodyUnseen' /\ GhostsFromKicks'
  BY DEF Restart, LinksAgree, NobodyUnseen, GhostsFromKicks, NoEntries
<1>4. OpsAreUsers'
  BY DEF Restart, OpsAreUsers, NoEntries, NoLists
<1> QED BY <1>1, <1>2, <1>3, <1>4 DEF ChannelsInv
-----------------------------------------------------------------------------
LEMMA NextChannelsInv == ChannelsInv /\ [Next]_vars => ChannelsInv'
<1> SUFFICES ASSUME ChannelsInv, [Next]_vars PROVE ChannelsInv'
  OBVIOUS
<1>1. CASE UNCHANGED vars
  <2>1. UNCHANGED <<online, chans, users, lists, live, info, chan_ci, info_c,
                    present, kicks, stale, strays>>
    BY <1>1 DEF vars, members, links, network
  <2>2. TypeOK'
    BY <2>1 DEF ChannelsInv, TypeOK
  <2>3. MembershipMirrored'
    BY <2>1 DEF ChannelsInv, MembershipMirrored, Empty
  <2>4. LinksAgree' /\ NobodyUnseen' /\ GhostsFromKicks' /\ OpsAreUsers'
    BY <2>1 DEF ChannelsInv, LinksAgree, NobodyUnseen, GhostsFromKicks, OpsAreUsers
  <2> QED BY <2>2, <2>3, <2>4 DEF ChannelsInv
<1>2. CASE \E u \in Users : new_user(u) \/ part_all(u)
  BY <1>2, InfoStep, LeaveStep
<1>3. CASE \E us \in SUBSET Users : delete_user(us)
  BY <1>3, LeaveStep
<1>4. ASSUME NEW u \in Users, NEW c \in Chans,
             \/ \E l \in Lists \cup {"none"} : do_join(u, c, l)
             \/ check_akick(u, c) \/ do_part(u, c)
             \/ KickArrives(c, u)
             \/ \E l \in Lists : mode_add(u, c, l) \/ mode_del(u, c, l)
             \/ do_ckick(u, c) \/ antispamc(u, c)
      PROVE  ChannelsInv'
  <2>1. CASE \E l \in Lists \cup {"none"} : do_join(u, c, l)
    BY <2>1, JoinStep
  <2>2. CASE check_akick(u, c) \/ antispamc(u, c)
    BY <2>2, InfoStep
  <2>3. CASE do_part(u, c) \/ do_ckick(u, c)
    BY <2>3, LeaveStep
  <2>4. CASE KickArrives(c, u)
    BY <2>4, KickStep
  <2>5. CASE \E l \in Lists : mode_add(u, c, l) \/ mode_del(u, c, l)
    BY <2>5, ModeStep
  <2> QED BY <1>4, <2>1, <2>2, <2>3, <2>4, <2>5
<1>5. ASSUME NEW c \in Chans,
             \/ clear_users(c)
             \/ \E us \in SUBSET Users : do_achanakick(c, us)
             \/ \E ls \in SUBSET Lists : clear_modes(c, ls)
             \/ registra_con_creg(c) \/ delchan(c) \/ do_forbid(c)
             \/ do_suspend(c) \/ suspende_con_creg(c) \/ do_unsuspend(c)
      PROVE  ChannelsInv'
  <2>1. CASE clear_users(c)
    BY <2>1, LeaveStep
  <2>2. CASE \E us \in SUBSET Users : do_achanakick(c, us)
    BY <2>2, InfoStep
  <2>3. CASE \E ls \in SUBSET Lists : clear_modes(c, ls)
    BY <2>3, ModeStep
  <2>4. CASE registra_con_creg(c) \/ delchan(c) \/ do_forbid(c) \/ do_unsuspend(c)
    BY <2>4, InfoStep
  <2>5. CASE do_suspend(c) \/ suspende_con_creg(c)
    BY <2>5, SuspendStep, CregSuspendStep
  <2> QED BY <1>5, <2>1, <2>2, <2>3, <2>4, <2>5
<1>6. CASE Restart
  BY <1>6, RestartStep
<1> QED BY <1>1, <1>2, <1>3, <1>4, <1>5, <1>6 DEF Next

LEMMA ChannelsInvAlways == Spec => []ChannelsInv
<1>1. Init => ChannelsInv
  BY InitChannelsInv
<1>2. ChannelsInv /\ [Next]_vars => ChannelsInv'
  BY NextChannelsInv
<1> QED BY <1>1, <1>2, PTL DEF Spec

(* The lists of do_join, do_part and delete_user are what TypeOK says.     *)
THEOREM TypeCorrect == Spec => []TypeOK
<1>1. ChannelsInv => TypeOK
  BY DEF ChannelsInv
<1> QED BY <1>1, ChannelsInvAlways, PTL

(* user->chans and c->users say the same, so no entry of user->chans leads *)
(* to a channel that chan_deluser has freed; c->ci and ci->c agree through *)
(* registration, DROP, FORBID and expiry while the channel comes and goes. *)
THEOREM ListsCorrect == Spec => []ListsAgree
<1>1. ChannelsInv => ListsAgree
  BY DEF ChannelsInv, ListsAgree
<1> QED BY <1>1, ChannelsInvAlways, PTL

(* Who is on a channel is in its list, or a KICK by services is on its way *)
(* to him.                                                                 *)
THEOREM AllSeen == Spec => []NobodyUnseen
<1>1. ChannelsInv => NobodyUnseen
  BY DEF ChannelsInv
<1> QED BY <1>1, ChannelsInvAlways, PTL

(* Who is in the list of a channel without being on it was kicked by       *)
(* services; nothing else makes the two differ.                            *)
THEOREM GhostsKicked == Spec => []GhostsFromKicks
<1>1. ChannelsInv => GhostsFromKicks
  BY DEF ChannelsInv
<1> QED BY <1>1, ChannelsInvAlways, PTL

(* chanops and voices hold users of the channel, but for those whom a MODE *)
(* named who were not on it.                                               *)
THEOREM OpsOnChannel == Spec => []OpsAreUsers
<1>1. ChannelsInv => OpsAreUsers
  BY DEF ChannelsInv
<1> QED BY <1>1, ChannelsInvAlways, PTL
=============================================================================
