# A verification project for EuskalIRC Services

EuskalIRC Services is a fork of IRC Services 4.3.3: one C process that links to
an IRC network as a server and offers registered nicks (NickServ), registered
channels (ChanServ), channel founding by vote (CregServ), memos (MemoServ),
administration (OperServ, the X bot) and virtual hosts (IPVirtual). This
directory holds TLA+ models of its parts, TLC configurations that check them on
small instances, and TLAPS proofs of what matters most.

The configuration modelled is the one the shipped `configure` builds for the
Hispano network: `IRC_UNDERNET`, `IRC_UNDERNET_P09` and `IRC_HISPANO` with
`REG_NICK_MAIL`, without Joomla, without P10 numerics and without encryption.

## 1. Inventory

The process has one thread. `main` (main.c:201-303) goes round a loop: run the
expiry routines, save the databases, run the timers that are due, read one line
from the uplink and dispatch it. A signal sets flags and jumps to the top of the
loop, from wherever the process is (main.c:72). So
the interleavings that matter are not of threads but of *events*: lines of the
uplink, commands of many users and operators, timers, expiry and saving, in any
order, with pointers and counters carried from one to the next.

| Component | State | Operations | What is hard | Correct when |
|---|---|---|---|---|
| NickServ (nickserv.c, users.c) | `nicklists[]` of NickInfo, `user->ni`, `user->real_ni`, flags `NS_*`, `my_timeouts` | REGISTER, CONFIRM, VALIDAR, IDENTIFY, DROP, SUSPEND, FORBID, GHOST, ACCESS, MODE +r, NICK, QUIT, expiry, collide/release timers | records freed while users and timers point at them; timers that fire after the world changed; flags that must die with a stay | proof of identity belongs to the user who gave it, holds end, pointers lead to the right record |
| Nick expiry (nickserv.c:1027) | `last_seen`, `time_registered`, `env_mail`, `active` | expire_nicks, IDENTIFY, NICK, QUIT, CONFIRM | windows of time, warnings that must precede, two independent limits | nobody loses a nick without the promised grace |
| ChanServ (chanserv.c) | `chanlists[]` of ChannelInfo, founder, successor, access levels, akicks, `ci->c` | REGISTER, SET FOUNDER/SUCCESSOR, ACCESS, AKICK, DROP, SUSPEND, FORBID, expiry, cs_remove_nick | records that refer to nicks that go, limits per founder, succession | no channel names a nick that does not exist, limits hold, the founder is never lost silently |
| CregServ (cregserv.c) | `creglists[]` of CregInfo: founder, mail, supporters, state; a code per user | REGISTRA, APOYA, CANCELA, REG, ACEPTA, DENIEGA, FUERZA, MARCAR, DESMARCAR, SUSPEND, UNSUSPEND, DROP (expire_creg exists and is never called) | nicks that go and come back between two votes, repeated votes, decisions that race the last vote, two databases that must agree | a channel is founded only by a grant or by staff, with enough distinct supporters |
| Network (users.c, channels.c, servers.c) | user, channel and server lists, `user->chans`, `c->users`, `c->chanops`, `c->voices`, `c->ci`, counters | NICK, QUIT, JOIN, PART, KICK, MODE, SERVER, SQUIT; KICKs and MODEs of services | two lists that must mirror each other, KICKs that cross what the network reports, pointers to users and records that go, counters that drift | membership is symmetric, whoever is on a channel is known, counters count |
| Timers (timeout.c) | `timeouts` | add_timeout, del_timeout, check_timeouts | callbacks change the list being walked | every due timer runs once, none early |
| Main loop (main.c, datafiles.c) | `quitting`, `delayed_quit`, `save_data`, `readonly`, files and backups | loop, signals, open_db, close_db, restore_db | a signal between two steps, a failed write, a crash between rename and write | what a completed save stored survives one failure; an ordered end saves everything |
| MemoServ (memoserv.c) | the mailbox of each nick and channel | SEND, CANCEL, READ, DEL, SET LIMIT | numbers after deletions, numbers that wrap, places and numbers confused | a number names one memo, nobody cancels the memo of another |
| OperServ lists (akill.c, registrate.c, autolimit.c, nicksuspends.c, chanakicks.c, antispam.c, news.c) | arrays with a count and a size | ADD, DEL, expiry, save, load | entries twice, expiry beside deletion, entries of a channel or user that goes, two files for one thing | what the network was told agrees with the list, entries go with what they were made for |
| OperServ, X, Jok, Stat, Help commands | five arrays of NickInfo pointers, lists of JokuServ | ADD, DEL, os_remove_nick, relays to the network | memory used again, holes, ranks that depend on each other, files saved one after the other | nobody inherits a rank or gives one as high as his own |
| IPVirtual (ipvirtual.c) | `ni->time_vhost`, `ni->vhost`, tables 2 and 4 of the network | CAMBIAR, ANULA, ACTIVAR, BORRA, VHOST, SET VHOST | two tables, a wait many commands touch | the host shown is of the registration there is, six hours between changes |
| BDD (bdd.c, bdd_hispano.c) | sequence numbers per table | do_write_bdd, do_count_bdd | numbers must be consecutive | no record number is reused |
| Sockets (sockutil.c) | ring buffers for reading and writing | sread, swrite, sgets, flush | wrap-around, partial writes, full buffers | bytes leave in order, none lost |
| Text utilities (misc.c, ...) | none | match_wild, dotime, strscpy, ... | boundaries | agree with a reference definition |
| Start-up (init.c, config.c, import-db.c) | configuration | read once | - | out of scope: sequential parsing |
| Joomla patch | PHP | - | - | out of scope: another program |

## 2. NickServ: the protection of nicks

### 2.1 What the modules model

`NickServ.tla` models the NickInfo records, the User structures that point at
them and the timers of nick protection.

| Model | Code |
|---|---|
| `reg` | the NickInfo records in `nicklists[]` (a record is named by its nick) |
| `status[n]` | the bits of `ni->status` that protection reads: IDENTIFIED, RECOGNIZED, KILL_HELD (dropped by cancel_user), VERBOTEN, SUSPENDED, ON_BDD |
| `active[n]` | `ni->active`: PROCESO until CONFIRM or VALIDAR |
| `nick[u]`, `real_ni[u]`, `signon[u]` | `user->nick`, `user->real_ni`, `user->my_signon`; NULL means not connected |
| `stale` | users whose `real_ni` points at freed memory |
| `timeouts` | the nick timers pending in timeout.c; `slot` is their place in the list, `listed` whether the private list `my_timeouts` of nickserv.c still reaches them, `freed` whether their NickInfo is gone |
| `cursor` | how far check_timeouts has walked; 0 when it is not running |

One action stands for one whole handler: `NewUser` and `ChangeNick` are do_nick
with new_user / change_user_nick, cancel_user and validate_user; `DeleteUser` is
every way out (QUIT, KILL, GHOST, too many bad passwords); the commands have the
names of the code. `StartTimeouts`, `RunTimeout`, `EndTimeouts` are
check_timeouts cut between two callbacks, so that a reader can see the list
change while it is walked; no other event can happen in between (`Idle`),
because the process has one thread.

Freed memory: what the code does with a record that was freed depends on what the
allocator left there. The model lets `timeout_collide` either act on the old
content or give up, and never lets a freed record become valid again.

The link of a nick to a master (`ni->link`) is not modelled: `user->ni` equals
`user->real_ni` for a nick without a link, and only the access list is read
through it. A password is right or the command does nothing.

`NickSession.tla` is the promise without the machinery: users sit at nicks, one
per nick; a user proves to own the nick in the seat; the proof ends when the
seat is left and is refused while the nick is barred. `ImplementsSession` says
that NickServ refines it with seat = `user->nick`, proved = NS_IDENTIFIED and
barred = NS_SUSPENDED.

Also left out: `validate_user` is called only when `notifinouts` is off (the
model takes it as off), and a forbidden nick has no password, so IDENTIFY for it
is not an event.

### 2.2 NickExpiry: how nicks grow old

`NickExpiry.tla` is `expire_nicks` (nickserv.c:1027) with everything that sets
what it reads. Times are kept as ages (`idle` = now − last_seen, `age` = now −
time_registered, `since` = now − last_expire), which stop growing once every
limit lies behind them: the model is finite without a bound on time. `Fate` is
the chain of conditions of the loop, in its order; `Idle` is what the loop over
the connected users, which comes first, has made of `last_seen`. `stay` keeps
the difference between a user who has identified, one who is on the access list
and one who is neither, because QUIT brings `last_seen` up to date only for the
first two and NICK, SQUIT and GHOST for none. `SetTimereg` is SET TIMEREG, with which a root
moves `time_registered` either way, into the future too. `warned` and `excused` are history:
they remember when the reminder went out and whether the absence was one in which
the code owes no reminder.

A configuration with NSExpire = 0 (the routine returns at once, nickserv.c:1046) is
not modelled. The clock of the operating system does not go back.

### 2.3 Timeouts and TimerSet: the list of timers

`Timeouts.tla` is timeout.c cell by cell: `add_timeout` puts a cell in front,
`del_timeout` takes one out, `check_timeouts` is cut into `StartCheck`, `Skip`,
`Call`, `Return` and `Finish`, and while it stands in `Call` the routine of the
timer may add and delete timers (`Client`). Cells are memory: one that was freed
may be handed out again while the walk is under way. `repeat` is 0 in every call
in the repository, so the branch that re-arms a timer is left out. A routine
does not delete its own timer; `del_timeout` says why.

`TimerSet.tla` is the promise: a set of timers, a batch taken at the start of a
round, every timer of the batch called once unless it is deleted first, and none
that was set meanwhile. `ImplementsTimers` says that the list refines it: the batch
is what a walk over `next` from where the loop stands would reach (`From`, the
smallest set closed under `next`) and what was due when it began.

### 2.4 ChanServ: who owns a channel

| Model | Code |
|---|---|
| `Nicks`, `Infos` | addresses of NickInfo and ChannelInfo records; `nicks`, `infos` are those that hold one |
| `founder`, `successor` | `ci->founder`, `ci->successor` |
| `setters` | the nicks of `ci->access` with the level of SET (499) |
| `flags` | CI_VERBOTEN and CI_SUSPEND |
| `count` | `ni->channelcount` |
| `chans[u]` | `user->founder_chans` |
| `removing`, `left` | the argument and the loop of `cs_remove_nick` |
| `inherited` | history: channels that went to a successor |

Records are named by address and not by name, because pointers are what goes
wrong here: a pointer to a record that was freed may lead to nothing or to the
record of somebody else. `cs_remove_nick` goes channel by channel in any order
(the order is that of the hash table), each with its own outcome:
`RemoveChannel`, `TransferChannel`, `CleanAccess`. `Restart` saves pointers as
names and finds them again; what name a freed record shows is open.

Simplified: the users of a nick that is removed lose their pointer (what the
code really does with them is section 2.1); `ChannelMax` is one value for all;
`Opers` stands for every staff rank the commands ask for; commands only staff can
give (SUSPEND, FORBID, ...) are not guarded by a rank at all; levels other than
the one of SET are in ChanAccess (2.9), auto-kicks in Akicks (2.10); here LEVELS leaves CA_SET at
499. REGISTER of ChanServ is disabled in this fork
(chanserv.c:2675): registration comes from CregServ.

### 2.5 CregServ and Founding: how a channel comes to be registered

| Model | Code |
|---|---|
| `nick[a]`, `mail[a]` | NickInfo at address a |
| `ni[u]` | `user->ni` of a user who has identified (NICK and IDENTIFY in one step) |
| `asked` | the users with a code in `user->creg_apoyo` |
| `estado`, `founder`, `email`, `apoyos` | the CregInfo of each channel; `apoyos` is the array of supporters, in order |
| `chan` | the ChannelInfo of the channel: none, registered, suspended, forbidden |

`cr->founder` points into the NickInfo of the nick that asked until the next
restart and to a copy of the name after it; `FounderNames` is the set of names a
reader of the pointer may see (any name, if the record is gone). APOYA works in
two steps (`do_apoya_ask`, `do_apoya`): the code given in the first belongs to the
user, not to the request. `registra_con_creg` also fails when nobody is on the
channel; the model lets every founding fail to happen at any time.
`suspende_con_creg` suspends the channel and then may return no value, so
`do_suspend` either records the suspension or does not. `cs_do` stands for the
commands of ChanServ that say nothing to CReG (DROP, FORBID, UNFORBID, SUSPEND,
UNSUSPEND); `expire_chans` also for `cs_remove_nick`, which both set EXPIRADO. The
limit of channels per nick in REG and the ranks of staff are left out.

`Founding.tla` is the promise without nicks, records and pointers: a channel
is free, asked for, granted, founded or closed, votes are mail addresses, each
counts once, and only `Enough` of them, or staff, open the way.
`ImplementsFounding` says that CregServ refines it; the phase of a channel is
read from both databases at once.

### 2.6 Channels: who is on which channel

| Model | Code |
|---|---|
| `Users` | addresses of User structures; `online` are those in `userlist[]` |
| `chans[u][c]` | how many entries of `user->chans` lead to the channel |
| `users[c][u]` | how many entries of `c->users` lead to the user |
| `lists[c]["chanops"]`, `lists[c]["voices"]` | entries of `c->chanops` and `c->voices` |
| `live` | the channels in `chanlist[]` |
| `info[c]` | what `cs_findchan` finds: none, or a record with CI_SUSPEND, CI_VERBOTEN or neither |
| `chan_ci`, `info_c` | the channels with `c->ci`, and with `ci->c`, not NULL |
| `present`, `kicks` | external: who the network has on a channel at the point of the stream services have read, and the KICKs of services that are under way |
| `stale`, `strays` | history: entries of `c->users` a KICK has passed by; +o and +v taken for somebody who is not on the channel |

The lists are counts because no handler searches a list before it adds to it.
Actions have the names of the handlers and commands; `do_part` is also `do_kick`
when somebody else than services kicks, `delete_user` takes a set, for SQUIT
(`del_users_server`) takes many at once. KICK of OperServ and XServ does what
`do_ckick` does, LIMPIA what `clear_users` does. `chan_deluser` takes a count for
every user and channel, so that one operator stands for every loop over it.

The network is what an ircd does: it reports JOIN only of a user who is not on the
channel and PART and KICK only of one who is, and it does not send services their
own KICK back. `KickArrives` may leave the KICK in `kicks`: the name in a KICK is
resolved when it is carried out, and the same KICK may have been sent twice.
`Restart` forgets everything but the registrations and what is under way. SUSPEND of
ChanServ empties `chanops`; that of CReG (`suspende_con_creg`) takes one entry out, since its
loop returns after the first.

Who is an oper, who is on the access list with which level, and which users an
AKICK matches is left open (any choice of the guards' outcome). Modes, bans, keys
and topics are data no property here is about. Dead code is not modelled:
`check_kick` and `do_akick` of chanserv.c have been replaced by `check_akick` and
`do_achanakick` of chanakicks.c (users.c:780, chanserv.c:209).

### 2.7 DataFiles: saving, stopping, starting again

| Model | Code |
|---|---|
| `mem[d]` | what the running services hold for database d, as a set of changes |
| `file[d]`, `save[d]` | the file and its copy `.save`: what is in it, and whether it is whole, cut off, waiting in the buffer of stdio, or not there |
| `save_data`, `delayed_quit`, `quitting`, `readonly` | the variables of main.c |
| `ignored` | the signals set to SIG_IGN |
| `stage`, `k` | where the loop is: at its top, reading, or at a step of open_db, the writing or close_db of the k-th database of the round |
| `best`, `short`, `faults`, `ended` | history: what a completed save stored, the databases a start read less of, the failures so far, and whether the loop was left as it was told to |

A round of the loop is `Top` (expiry may change databases; save, rest or quit), for
each database `Unlink`, `Rename`, `Create`, `Write`, `Close`, `FClose`, then
`EndRound` and `Process` (a command, an order to stop, the loss of the link, or
nothing). `sighandler` and `Crash` can come between any two of these steps;
between `Create` and `FClose` that is anywhere in the writing of the file. `Start`
is `init`: a file that is cut off gives a part of its content if the loader lets it
pass or `-forceload` is given, and stops the start otherwise; a missing file is an
empty database, without a word.

The thirteen databases differ in three points, and each `save_` and `load_` routine
is a record of them: does it look whether `open_db` failed (`tested`), does it
write with functions whose failure it does not see (`blind`), is it loaded at all
(`called`) and does it let a file pass that is cut off (`takes`). The order of
saving is that of main.c; the order of loading does not matter here.

Failures (`FaultKinds`) are those of the calls (rename, open, a write, the rename
back, the copy by hand, the last write in fclose), a kill, and a signal in the
middle of a file; `late` is either after close_db has removed `.save` and before
its fclose. Each happens at most once, in the combinations of `FaultSets`.
`SavedKept` is stated for one failure, or a failed write together with a failed
rename back (the case `restore_db` copies by hand), and not for the failures the
code cannot bear at all: those it does not see (`blind`, `flush`) and `late`.

Left out: the options `-skeleton` and `NoBackupOkay`; signals before the loop
begins, or in the middle of a command (a record half changed); a build without
SERVICES_BIN.

### 2.8 Staff: who has which rank

| Model | Code |
|---|---|
| `rec[a]` | the name of the NickInfo or ChannelInfo at address a |
| `slots[l]` | the arrays `services_admins`, `services_cregadmins` (coadmins), `services_devels`, `services_opers`, `services_patrocinas`, and the three of JokuServ |
| `bdd`, `ident` | the records with NI_ON_BDD; those whose user has identified |
| `mark[n]` | what ADD and DEL wrote into the tables o and v of the network |
| `saved` | nick.db and chan.db, oper.db and the file of JokuServ, as last written |
| `lost` | history: nicks whose entry a restart from older files did not find |

The ADD and DEL commands of OperServ, XServ and JokuServ are one action each,
`Add` and `Del`, over the set of their `Row`s: which array, which rank it takes,
how many slots the function looks at, which flag it writes. That is how the
functions differ; each row is mapped to its function. `Restart` loads the lists
after any number of the files of a round was written. A pointer to a record that
was freed shows any name (`Junk`) when it is saved.

### 2.9 ChanAccess: levels, ops and voices on a channel

| Model | Code |
|---|---|
| `access` | `ci->access`, with its holes and its length |
| `levels`, `flags` | `ci->levels`, and CI_SECUREOPS, CI_SECUREVOICES, CI_LEAVEOPS, CI_SUSPEND |
| `founder`, `successor`, `passid[u]` | `ci->founder`, `ci->successor`, the channel in `user->founder_chans` |
| `ni[u]`, `identified` | `user->ni`, `nick_identified` |
| `on`, `marks` | who is on the channel, `c->chanops` and `c->voices` |
| `spared` | history: the ops that CReG's SUSPEND left, as long as they stay ops |
| `by` | history: who did the last step; `strays`: `cs_remove_nick` left an entry of the founder's behind |

`get_access`, `check_access`, `check_valid_op`, `check_should_op` are operators
of the same names. ACCESS ADD takes the word through `atoi` and a short (`Short`),
so 66036 is 500. There are two ways to suspend: `do_suspend` of ChanServ takes the op from
everybody; `suspende_con_creg` returns from inside its loop after the first op, and the
others stay ops of a suspended channel (`spared`). SuspendedOps says that they are the only ones,
for as long as they have been op without a break. SET SECUREVOICES ON and STAY ON take the
suspension off (`do_set_flag`, `do_set_stay`). The steps fall in four groups: the list and the levels
(`AccessStep`), SET (`SetStep`), JOIN, PART, modes and the commands that set them
(`ModeStep`), and what comes and goes (`LifeStep`: the channel, nicks, IDENTIFY,
restarts). CI_SECURE is set on every channel, as registra_con_creg leaves it (SET SECURE is
commented out); the channel is one, since no list of one channel is read for
another; SET NOJOIN and RESTRICTED, INVITE, UNBAN and mode locks are left out.

### 2.10 MinorServices: the lists beside nicks and channels

`MinorServices.tla` composes six small modules, with their clock and the operator their
loops have in common. They share nothing else, so a behaviour works one of them (`part`).

| Module | State | Code |
|---|---|---|
| Akills | `akills`, the G-lines of the network, `akillfile` | akill.c, BLOCK and AKILL of operserv.c and xserv.c |
| Akicks | `achanakicks` by channel, `reg` (the registration a channel has), two files | chanakicks.c, and delchan of chanserv.c |
| Pending | `alimits` and the +l of each channel; `aregistras` and the newcomers | autolimit.c, canal_autolimit and sale_autolimit of chanserv.c; registrate.c, do_nick of users.c |
| Numbered | `news` of two types, `spam` | news.c, antispam.c |
| IpVirtual | `wait`, `vhost`, the tables 2 and 4 | ipvirtual.c, SET VHOST, SUSPEND, SET BDD and delnick of nickserv.c, VHOST of operserv.c |
| MemoServ | a mailbox | memoserv.c |
| Clock | `now` | time(NULL) |
| Lists | - | what a loop with memmove leaves of an array (`Remaining`), for Akills, Akicks, Pending and Numbered |

The histories of these modules name the exceptions the code makes: `loose` (G-lines
without an entry), `torn` (chan.db and achanakick.db of different age), `stale`
(a limit not looked at since SET AUTOLIMIT), `eased` (a suspension that also
rewrites the wait), `stray` (CAMBIAR by a nick outside the BDD). The properties
are stated outside of them, and section 5 says how each comes about.

### 2.11 How they fit together

The components meet in few calls, and each module models its side of them:
`delnick` (NickServ, NickExpiry) calls `cs_remove_nick` (StartRemove ... EndRemove
in ChanServ) and leaves CregServ alone (`delnick` there shows what that does);
`registra_con_creg` (CregServ) makes the record of ChanServ (action of the same
name in both); `expire_chans` sets the request to EXPIRADO; `add_ns_timeout`
(NickServ) is a caller of `add_timeout` (Timeouts). NickServ uses of the timer list
what Timeouts proves: a walk from the head that calls the due entries that were
there when it began, each once. Channels takes the record of a channel as one of
four states; ChanServ and CregServ say how it gets from one to the next. DataFiles takes
a command or an expiry of any of them as a change of one database; the restarts in
ChanServ, NickExpiry, Channels and ChanAccess are its `Leave` and `Start` with everything saved;
those of Staff and MinorServices are crashes between the files of its round. `delnick` also calls
`os_remove_nick` (Staff) and clears the tables of the network (`Drop` of IpVirtual);
ChanAccess has a finer view of the channel whose founders ChanServ follows across all channels,
and a coarser one of the lists of ops that Channels follows entry by entry.

## 3. What the runs check

| Run | Instance | Properties and what they would catch |
|---|---|---|
| nick_users | 2 users, a nick that may be registered and one that never is, quick or immediate kill at every turn, confirmation by mail, users start timers at time 0, 2 at once | TemporaryNeedsUser (a flag that outlives the stay); RealNiFollowsNick (a pointer to the wrong record); SuspendedNotIdentified; HoldEnds (an enforcer that never leaves); ImplementsSession |
| expiry_idle | 1 nick, NSExpire 7, Margen 5, Aviso 2, rounds of at most 2, one restart with up to 4 down | ConnectedKeep, WarnedInTime (windows that do not meet); AbandonedExpires (a mark that stays) |
| timeouts_list | 3 cells, delays 0 and 2, time up to 2 | ListSound (a walk over a list that changes); ImplementsTimers; TimersEnd |
| channel_owners | 1 user who is an operator, 2 nicks, 2 channels, limit 1 | FounderUnlessForbidden (what every reader of `ci->founder->nick` relies on); DeadOnlyInherited; CountBound |
| creg_votes | 1 user with 3 nicks in turn, 2 addresses, 3 mails, 1 channel, 2 supporters needed | RegisteredIsAccepted (the two databases); VotesCounted (a vote counted twice, or not at all); ImplementsFounding |
| channel_members | 2 users, 1 channel, at most 2 entries of a user | ListsAgree (two lists that part, a pointer to a freed channel or record); NobodyUnseen, GhostsFromKicks (what services believe against what is); OpsAreUsers |
| data_files | the databases of nicks (tests open_db) and of AKILLs (does not), 2 changes and 1, every set of `Together` | SavedKept (a backup removed before it is replaced); RestoredWhole (a failed call that leaves no file); ExitSaved (a signal in a round of saving, a stop that skips files); StopsWhenTold |
| staff_ranks | a root and another nick, 1 channel, 2 addresses, arrays of 1, 2 and 3 slots, 2 rounds of saving or restarts, in turn admins with devels, the opers and the channels of JokuServ | StaffRegistered (a rank that a new nick inherits); FlagsOfStaff (flags of table o without a listing); RankFromAbove (a rank given by an equal) |
| access_list | 2 users, the second without a nick, 1 operator without a nick, 2 nicks, 2 slots, the words 499, -1 and 66036 | OneEntry (a nick twice, and DEL takes one); PeersUntouched (a level changed by an equal, or through a cut number); SuspendedOps (a new op under a suspension); SecureMarks (a way to op the list does not know) |
| minor_lists | two masks, channels or nicks each, lists of 2 or 3, time up to 3, one restart | GlinesListed; AkicksOwn (auto-kicks of an earlier founder); LimitLeavesRoom (a channel nobody can join); NewcomersWait; NoTwins (a number or key of two entries); HostsOfNicks, SixHoursApart; CancelOwn |

The other two runs end in a counterexample, and each is a finding: what a
comment or a help text says and the code does not do.

| Run | Shows |
|---|---|
| nick_identified | a collide timer outlives its record and kills a user who has identified for the new one (nickserv.c:1283, 1547) |
| channel_set | anybody with the level of SET makes itself founder: the test takes a function's address for its value (chanserv.c:3184) |

Each passing property has a mutant: a definition changed the way a plausible bug
would change it, under which the same run fails.

**Bounds.** The bounds are named constants and guards: `MaxTime` and
`MaxTimeouts` (NickServ) limit when and how often *users* start timers, not the
ones the code starts from a callback, and `Registrable` names the nicks they register, one
of the two: the other is where users go and come from. `KillModes` are the protections SET KILL
may have left when a user takes the nick. NSForceNickChange and a plain
registration without mail are not run but covered by the proofs, which hold for every value of the
constants; after MaxTime the clock goes on until the
list is empty. `MaxTime` in Timeouts, `Outage`, `MaxRestarts` and `MinAge` (how far into the future SET TIMEREG moves a
registration) in NickExpiry;
`MaxEntries` in Channels caps the
entries a JOIN adds, at two, the first number at which a list has a user twice.
`DBs` in DataFiles are one database of each kind of saving routine, the first of the
round and a later one; `Written` says which changes happen to which of them: two for
nicks, so that a file may hold an older state that is not empty; `FaultSets` says
which failures may come together in one run, across any number of rounds and starts.
CregServ and ChanServ have no counters to cap. `MaxRounds` in Staff and MinorServices are saves and
restarts: one crash between two files, and a life after it. `MaxRegs` in Akicks are three
registrations, the founder before, the founder after and one on the other channel;
`MaxWaiting`, `MaxNum`, `MaxUsers` cap lists that the code lets grow to 32767;
`MaxNumber` (4) is the last number of a memo before they wrap, with boxes of at most 3;
the three tramos of an auto-limit are 3, 4 and 5 so that five users pass through all of them
and the gap between the last two. In `access_list`, `Words` are a level just below the founder's, one below 0, and one that wraps to the
founder's; `Tuned` are the levels LEVELS may change, the one ACCESS asks for and the one of automatic ops;
the constraint `OneOff` keeps one level and one flag besides CI_SUSPEND off the default at
a time; `Bystander` keeps the second user without a nick, and on the channel only while nobody
has voice, the list has a free slot and levels and flags are the default ones, SUSPEND aside; `View`
leaves out `by`, which no guard reads, and `spared` of a channel that is not suspended.
Two users are enough for every
conflict about one nick, since the code never compares more than the user of a
nick with one that was there before; a third timer cell is the smallest number
with a first, a called and a next one that is deleted; two channels and two nicks
are enough for a channel whose successor goes while the loop is between them;
three nicks and mails at two addresses for a supporter whose nick goes and whose
memory is used again; one channel
and two users for a channel that keeps living without one of its users (the code
never compares two channels); one user and one operator for levels, since a command
compares the level of its giver with those in one entry; a second user so that a suspension
meets two ops. Symmetry is used only in
runs without liveness properties.

**Fairness.** NickServ: weak fairness of `Tick`, `StartTimeouts`, `RunTimeout`,
`EndTimeouts`; NickExpiry: of `TickExpiry` and of `ExpireNicks` when it is due;
Timeouts: of `Tick` and of the steps of `check_timeouts`; DataFiles: of `Loop`, the
steps of main. All say one thing: the
main loop keeps going round (its read of the uplink has a timeout, and every
routine it calls returns), and time passes. Nothing is assumed of users, of staff,
of the network, of signals or of failures. The runs of NickServ do not check deadlock, since after
MaxTime without timers all users may be gone and nothing be enabled.

## 4. What is proved

TLAPS proves, for every value of the constants (any number of users, nicks,
records, channels, mails, timers; any delays):

| Module | Theorems |
|---|---|
| NickServ_proofs | TypeCorrect, NickInvariant, RealNiCorrect, TemporaryCorrect, SuspensionCorrect, SessionCorrect |
| MainLoop_proofs | ListCorrect, TimersCorrect, DueCorrect (Timeouts); WarnedCorrect, ConnectedCorrect (NickExpiry); TypeCorrect, DataInvariant, SavedCorrect, RestoredCorrect, ExitCorrect (DataFiles) |
| ChanServ_proofs | TypeCorrect, FounderPresent, OnlyInheritedDead, CountBounded |
| CregServ_proofs | TypeCorrect, RegisteredCorrect, VotesCorrect, FoundingCorrect |
| Channels_proofs | TypeCorrect, ListsCorrect, AllSeen, GhostsKicked, OpsOnChannel |
| Staff_proofs | TypeCorrect, NobodyInherits, FlagsAreOfStaff, RanksFromAbove |
| ChanAccess_proofs | AccessInvariant, OneEntryCorrect, SuspensionCorrect, SecureCorrect, PeersCorrect |
| MinorServices_proofs | HostsCorrect, SixHoursCorrect, CancelCorrect, GlinesCorrect, AkicksCorrect, RoomCorrect, NewcomersCorrect, NoTwinsCorrect |

Every invariant, action property and refinement that a passing run checks is a theorem.
MainLoop_proofs holds three proofs that share nothing but the loop of main.c, which runs
all three. That is why the names of Timeouts and NickExpiry carry what they belong to
(`TimeoutsSpec`, `ExpirySpec`): one module extends them both.

Types are proved and not run: a type error of a passing run would show as an
error of TLC or in one of the other properties.

The assumptions are those named in the modules: NULL is not a record, delays are
natural numbers, `Infos` is finite (ChanServ), addresses are not names
(CregServ), `Order` lists every database of DBs once (DataFiles), names of nicks and
channels differ and the arrays of Staff have the order of sizes of config.h, users and operators of
ChanAccess are different actors and what is typed is an integer, the tramos of an auto-limit rise
and its increments are positive, as example.conf asks, and MemoServ's boxes are smaller than
the numbers there are (Pending, MemoServ). TLC evaluates each of them. One theorem has a
hypothesis besides, `Windows` of WarnedCorrect, explained below.

*NickServ.* `NickInv` is the conjunction of TypeOK, `OneSeat` (no two users have
one nick), `Live(timeouts)` (an entry that is not marked freed leads to a
record), `NoRecordNoStatus` (a nick without a record has no flags) and the three
properties. None of the three is inductive alone: that cancel_user clears the
flags of the nick the user leaves needs `real_ni` to be the record of that nick
(RealNiFollowsNick), and that a callback marks no record that is gone needs Live.
`SessionCorrect` maps every action to a step of NickSession or to a stutter under
the same invariant.

*Timeouts.* ListSound is `DoublyLinked` and `CursorLive`. `DoublyLinked` is not inductive: in a cyclic list taking out one cell
may leave another linked to it. `Acyclic` gives every live cell a rank that
grows along `next`; with the two and `CalledLive` (the cell being called is
live) it makes up `ListInv`.

TimersCorrect needs to know what a walk reaches, and the links are the only
record of it. The lemmas say how `From` changes when a cell is taken out (`FromUnlink`: it loses that
cell and no other) and when one is put in front (`FromPush`: walks under way do not change),
and that a walk from the head reaches every cell (`AllFromHead`: of those it missed, the one of
highest rank would have no cell before it, and would be the head). `From` is a smallest closed set, so
these follow from ranks and least elements; no induction is needed. DueCorrect is a consequence of
the promise: the steps of TimerSet keep every timer of the batch, and the one that is called,
set and due, and never call one twice (`DueInv`); TimersCorrect makes every step of the list one of them.

*NickExpiry.* `AbsenceInv` is about a registered nick whose absence nothing excused, at
the last run of expire_nicks, `since` ago: unless it was marked or has been
reminded it had not entered the window of marks; while it is marked it had not
entered that of reminders; and the reminder went out within one round of the start
of that window. WarnedInTime follows: a nick that
expires is not marked any more and lies behind both windows, so it was reminded, and not
long after the second began. This holds only if no round of the loop can jump over the window of
marks (`Windows`: ExpireTimeout < Margen − Aviso). The window is five days in the code
(nickserv.c:1033) and nobody lets the expire routines wait for so long; but config.c:770
asks only that ExpireTimeout is not 0, so the theorem names the condition. With a
longer period a nick can expire without a reminder. ConnectedCorrect needs no condition: the
loop over the users makes the idle time of a connected one 0 before anything is decided.

*MinorServices.* Each part has an inductive invariant of its own, and a lemma that says
which actions touch its variables (`AkillSteps` and the like). The lists are sequences of
any length. `RemoveAtPlace`, `FirstGoes` and `RemainingSelected` say of RemoveFirstMatch and
of `Remaining` what the proofs use: what is left are old entries, in their order, and
the ones not named are all left (`Selected`). `Remaining` counts places with Cardinality; `RankOnto` shows that every place is taken, since
ranks differ and are as many as the places.
`AkillInv` is GlinesListed with types, and that the saved list has the type of the
list. `AkickInv` adds OneAkickPerMask, for the saved list too. `LimitInv` adds to OneLimitPerChan what LimitLeavesRoom needs of every channel that
was looked at (`RoomIn`): room is left by the change that is
pending, or by the limit if none is, for the users there are or for one less than the second
tramo, whichever is less (`RoomFor`): in the gap above it nothing is promised, but what was set before
must still be enough when the channel comes out of it. `NewcomerInv` is NewcomersWait with the finiteness of
`online`, which the burst after a restart enumerates. `NumberInv` and `MemoInv` say that numbers
rise along the array, in the saved copy too (`NumbersIncrease` holds through the wrap since
all memos get new numbers then). CANCEL deletes by number, so CancelOwn needs MemoInv. `VhostInv`
adds to HostsOfNicks that the wait counts from the last change (`WaitFromGiven`), which is what
makes SixHoursApart hold across drops, restarts and what the staff does.

*ChanServ.* `ChanInv` adds to TypeOK and FounderUnlessForbidden that outside the
inherited channels founders and access entries lead to live records, and that
the channels `cs_remove_nick` has passed name the nick no more; `CountInv` adds
that memory without a nick has count 0, so that a nick that gets an address
used before does not begin with somebody else's count.

*CregServ.* `CregInv` adds to the four properties that a channel without request
has no votes and that the mails of the supporters are as many as the supporters
(`MailsCounted`, the cardinality of the image of an injective sequence): the
abstract specification counts mails, the code counts entries.

*Channels.* `ChannelsInv` is the properties together, and they lean on each
other; ListsAgree is two of them, MembershipMirrored and LinksAgree.
That a handler that takes one entry out leaves nobody listed who has just
gone is GhostsFromKicks (there was only one entry, unless a KICK passed it by); that a
walk over `user->chans` empties `c->users` too, and with it frees the channel, is
MembershipMirrored; that a freed channel leaves no link is LinksAgree with the
liveness of MembershipMirrored. `LeaveInv` does the arithmetic of `Leave` once for
the handlers that call `chan_deluser`.

*DataFiles.* `DInv` says what memory and files hold at each stage. `Contents`: what
was stored is in memory, and in every file that is whole. `Writing`: the file being
written holds the memory. `CalmDisk`: as long as only calls have failed, `.save` of
the database being written is whole and the file of every other one is;
`BearableDisk`: after any bearable failure one of the two is, unless it is the one
being replaced. SavedKept follows since then the memory still has it. `BackFollows`
(a rename back fails only after another failure) is what keeps CalmDisk from having
to bear the second of two failures. ExitSaved needs that a round left off is begun
again: `RoundSaved` counts the files done since it began, and `QuitSaves` says that
`delayed_quit` never stands without `save_data` while services run.

*Staff.* `StaffInv` is the types, which say that no name has two records and that
`ident` and `bdd` are of nicks, StaffRegistered, FlagsOfStaff and `SavedOK`, which says the
first of the files. FlagsOfStaff names a record that is in the BDD and in a list at once: ADD asks
for the first, SET BDD OFF is refused for the second, and each DEL, `delnick` and restart that
takes the entry takes the flags or enters the nick in `lost`. `AddRows` and `DelRows` say what the
functions of the three services have in common, so that each proof treats them once.
RankFromAbove is about single steps: `Add` is split by what the row asks for.

*ChanAccess.* `AccessInv` is OneEntry with `EntriesAlive` (an entry leads to a
registered nick unless `strays`), SuspendedOps and types. SuspendedOps is inductive as it
stands: under a suspension every way to become op fails in `check_valid_op`, `check_should_op` or
`do_op`, and whoever stops being op leaves `spared` too. OneEntry needs that
`First`, the search the code makes, finds an entry if there is one
(lemmas at the head of the module), since ADD looks for the nick before it looks for a hole. PeersUntouched
needs OneEntry: with two entries of a nick the level compared would not be the level
changed.

Model-checked only: the four liveness properties (HoldEnds, TimersEnd, AbandonedExpires,
StopsWhenTold), which rest on fairness and ENABLED and are out of the prover's reach.
What the operators of the community modules compute by recursion (SelectSeq, the folds)
cannot be proved about either, so the modules write those loops as functions.

## 5. Other departures met while modelling

Not each has a run; they are written here so that nobody has to find them twice.

- IDENTIFY does not look at NS_VERBOTEN (nickserv.c:2283).
- `MAIL_REC` is set and cleared the other way round than services.h:288 says.
- A bad password kills the user and the callers go on with the freed User
  (actions.c:58).
- UNSUSPEND and UNFORBID free strings and keep the pointers; delnick frees them
  again (nickserv.c:4322).
- `suspende_con_creg` ends without a return when the channel has no operator
  (chanserv.c:2908), and returns after the first op when it has some (chanserv.c:2988): SUSPEND of
  CReG leaves the other ops on the suspended channel, where SUSPEND of ChanServ leaves none
  (chanserv.c:6149), against lang/es.l:3598, which says the channel cannot be used (`spared`).
- The first supporter of a channel may have the mail of the founder: the test is
  inside the loop over the supporters there are (cregserv.c:594), against
  lang/es.l:5250-5256.
- `cr->founder` may lead to a stranger after the nick that asked has gone
  (cregserv.c:942); CANCELA and ACEPTA then go by the stranger's name.
- The limits "one per minute", "one per day" and the seven days of a request that
  lang/es.l:5292-5304 announces are not in the code; `expire_creg` is never called
  (main.c:224).
- DROP of a channel lowers channelcount twice, so the count can fall behind
  (chanserv.c:3113): a founder may then own more channels than the limit.

- expire_nicks frees the unconfirmed nick of a connected user and does not clear
  `user->ni` and `user->real_ni` as do_drop does (nickserv.c:1122), against the
  comment at nickserv.c:1037 that this takes a run longer than NSExpire
  (`stale` of NickServ is such a user).
- cs_remove_nick makes `ci->successor` the founder without a test that it is
  another nick than the one that goes, or still a registered one (chanserv.c:2118);
  `inherited` of ChanServ marks these channels.
- SUSPEND of a registered channel that nobody is on reads `chanops` of a NULL
  channel (chanserv.c:6148).
- The comments at chanserv.c:1570 and 1632 say that check_kick() will get users out
  of a forbidden channel; check_kick is no longer called (users.c:780), and
  check_akick does not look at CI_VERBOTEN.
- AKICK ENFORCE looks at `ni->nick` of a nick that need not be registered
  (chanakicks.c:571).
- FORBID, UNFORBID give `ci->name` of the record they have just freed to
  borra_akick (chanserv.c:6225, 6260).
- After +o of somebody who is not on the channel, his entry of chanops outlives
  his User structure; the log line "Memory leak freeing" (channels.c:432) is the
  only place that notices.

- SET works on a suspended channel: the test takes the address of a function for
  its value and is always 0 (chanserv.c:3179), against lang/es.l:3598.
- The comment at datafiles.c:192 calls it fatal that a backup cannot be restored;
  open_db only logs it, and the unlink at the next save removes the only copy.
- A start between the rename and the creation of a file finds none, begins with an
  empty database although `.save` is there, and the next save removes `.save`.
- `write_buffer` and the functions on it return 0 or 1, SAFE tests for a negative
  value (nickserv.c:754): a failed write of a string or a number is not seen. close_db
  removes `.save` before fclose and does not look at the result of fclose.
- The loaders of nicks, AKILLs, spam words and channel AKICKs may take a file that
  is cut off for whole, against README:258-270, which promises -forceload for it.
- save_akill and the routines made like it do not look whether open_db failed; the
  SEGV that follows ends services without saving the rest.
- save_alimit writes its numbers with the functions that read (autolimit.c:203);
  aregistra, alimit and anick are saved and never loaded (init.c:1035); load_cr_dbase
  and load_ipv are called twice.
- In read-only mode SIGHUP and RESTART do nothing as long as it lasts (main.c:75 calls it "save
  databases and restart"). SIGHUP and then SIGINT restart instead of ending.
- A kill, or two signals, between the removal of `.save` and fclose lose a database.
- expire_nicks runs first thing after a start: a nick whose days of grace passed while services
  were down expires without its reminder (main.c:217, nickserv.c:1058; `excused`).
- NO_EXPIRE, FORBID and SUSPEND do not keep a nick that was never confirmed from expiring
  (nickserv.c:1114), against services.h:273 ("Nick never expires").
- `is_on_chan` says of a user services have kicked without do_kick that he is on the
  channel (antispam.c:476, chanakicks.c:482, 600), against the comment at users.c:1166.

Staff:

- An ADD that fills a hole does not look behind it: a nick that is entered further down is
  entered twice, and DEL takes one entry out. When every slot is taken ADD reads one past the
  array.
- jok_remove_nick has no caller: the lists of JokuServ keep records that were freed. Two of
  their commands look at MAX_SERVADMINS of MAX_SERVOPERS slots and write over the next one
  when those are full.
- XServ's DEL leaves `ni->vhost`. do_write_bdd turns the name in the record it is given into
  lower case.
- A crash between nick.db and oper.db can give a rank to the next owner of a nick; the flags
  of table o outlive a listing that a crash lost (`lost`).

Channel access:

- SET SECUREVOICES ON (chanserv.c:3867) and STAY ON (chanserv.c:3973) clear CI_SUSPEND, and SET is not barred on a
  suspended channel: whoever has SET ends a suspension.
- cs_remove_nick goes on with the next channel after it made the successor founder, and leaves
  an access entry of the old founder that leads to freed memory (chanserv.c:2194); a
  restart may load it as anybody's, or as a second entry of a nick. It never clears a
  successor whose channel has another founder.
- LEVELS AUTOOP or AUTOVOICE of 0 or less open a channel with SECUREOPS or SECUREVOICES at
  JOIN, since check_should_op does not ask check_valid_op, against lang/en_us.l:2332.
- With LEAVEOPS check_valid_op returns 0 and takes nothing back: the op is not put into
  `c->chanops`, and DEOP, which asks is_chanop, cannot take it, against lang/en_us.l:2339.
  Ops of a channel that is not registered are never recorded either.
- check_access lets a founder pass AUTODEVOICE too: the +v of a founder is refused.
- Whoever is founder by password and has no registered nick has level 0, and may CLEAR and
  set LEVELS. A user with a negative level who does not identify counts as 0.

Lists, hosts and memos:

- An AKILL added twice and deleted once leaves an entry without its G-line. Entries for
  newcomers who are killed stay.
- A crash between the saving of chan.db and achanakick.db leaves the akicks of a channel that is
  gone to the next one of its name (`torn`).
- borra_akick is given `ci->name` after delchan freed the record; it and del_achanakick move
  one element too many; an AKICK ADD of a mask that is a number cannot be deleted by mask.
- Between the second and the third tramo a join leaves the limit as it is; SET
  AUTOLIMIT leaves the pending change; PART and JOIN spell the name of the channel
  differently.
- PONER and USAR of IPVirtual are commented out of its command table, so the list of hosts is
  never filled. CAMBIAR does not ask for NI_ON_BDD: the host it writes in table 4 outlives the
  nick. CAMBIAR OFF and ANULA keep the wait, SUSPEND and UNSUSPEND undo it.
- ACTIVAR and VHOST write table 2, CAMBIAR and SET VHOST table 4; VHOST of OperServ and SET
  VHOST of IPVirtual make no note in `ni->vhost`.
- With a limit of NONE the count of memos, 16 bits, can pass 32767. A refused SEND starts
  MSSendDelay anew. process_numlist takes no number above 65536.

Four hazards of PROJECT.json have no property, since the code does let them happen: nicks that
expire after services were down (`excused`), chanops of users who are not on the channel
(`strays` of Channels), the first supporter with the mail of the founder, and ranks and flags
after a crash between two files of staff (`lost`). Two are caught in part: akicks but for a crash
between two files, the wait of a virtual host but for SUSPEND and UNSUSPEND. All are described above.

Hazards not in PROJECT.json, since the outcome is undefined or follows from one line:
the counters of users and opers drift, as MODE +o, +i and +h count who has the mode already
(users.c:1038) and delete_user leaves `invcnt`; a NICK from a server not in the list reads NULL
(users.c:649); firstchan keeps the cursor of a walk left early (channels.c:251);
`lastserver` must be dropped with its server (servers.c:17), and do_squit keeps a server whose hub is
NULL while those behind it go; an entry put in front of my_timeouts is not linked
back (nickserv.c:1592, modelled in NickServ as it is); delchan leaves a freed channel in
founder_chans (chanserv.c:2450, modelled in ChanServ and ChanAccess); the `return` of do_nick
after an AKILL is behind an `if (debug)` whose own line is commented out (users.c:550).

## 6. Not modelled, and why

- The network database (bdd.c): numbered records sent to the ircd, nothing is read back;
  what callers write to its tables is in Staff and IpVirtual.
- Sockets (sockutil.c, send.c): one thread copies bytes between two ring buffers and the
  operating system; no other component shares their state.
- Text utilities: no state between calls. What a caller relies on (dotime, atoi, process_numlist)
  is modelled where it is called.
- Start-up (init.c, config.c, import-db.c): parsing, read once, before the loop begins. The order in
  which init loads the databases is in DataFiles, Staff and MinorServices.
- The Joomla patch: another program. Code behind `SOPORTE_JOOMLA15` and the P10
  numerics: not built.
- Servers (servers.c) and the counters of users: see the end of section 5; the handlers of SERVER and SQUIT are
  in Channels as far as they take users away.
- Inside modelled components: links between nicks (disabled in the code), the SET options
  that only store data, LIST and INFO, mode locks, topics, bans and entry messages, the windows
  of expire_chans (the expiry of a channel is a step of ChanServ that may happen at any time),
  the old do_akick and check_kick of chanserv.c (out of use), the relays of OperServ to
  the network (MODE, KICK, KILL, JUPE, GLOBAL), the texts of HelpServ, StatServ, EuskalIRC,
  geoip and correo.

## 7. What could follow

- The tree of servers and the counters, with what a property can promise of counters that
  drift.
- expire_chans with its windows, in the manner of NickExpiry.
- More consequences of the abstract specifications as theorems, as DueCorrect is one of TimerSet:
  what a founding needs at least, from Founding; that a nick which is proved has one user, from NickSession.
- Invariants of the types of NickExpiry and of the parts of MinorServices stated as theorems of
  their own; so far they are conjuncts of the inductive invariants.
