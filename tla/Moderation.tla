----------------------------- MODULE Moderation -----------------------------
(***************************************************************************)
(* rpa-admin's moderation of messages and members: the profanity flags     *)
(* with their buttons (MiscProfanity.py), the sterile channel              *)
(* (ServerSterileChannel.py), /purge (MiscPurge.py), /kick and /ban        *)
(* (MiscKick.py, MiscBan.py).  A message is clean or foul: how a foul word *)
(* is recognised is left out.  Every call to Discord suspends, and the     *)
(* listeners of one message are tasks of their own.                        *)
(***************************************************************************)
EXTENDS Integers, FiniteSets, Sequences

CONSTANTS
    Messages,    \* messages of one channel
    Flags,       \* flags in the log channel
    EditsMax,    \* bound on edits, and on what staff do
    Punished     \* members who may be kicked or banned

ASSUME ModAssumption == EditsMax \in Nat /\ "none" \notin Messages

VARIABLES
    chat,        \* external: each message: its author, its content, whether it is there
    sterile,     \* SterileChannels.json holds the channel
    checks,      \* events a listener has not handled: <<listener, message, content>>
    flag,        \* each flag: its message, action_taken, and what a button does next
    ruling,      \* history: the actions posted for each flag
    purge,       \* the /purge under way: the messages it found, still to be deleted
    punish,      \* the /kick or /ban of each member
    inGuild,     \* external: who is in the guild
    outranked,   \* external: whom the moderator and the bot outrank
    efforts

modVars == <<chat, sterile, checks, flag, ruling, purge, punish, inGuild, outranked, efforts>>
memberBits == <<punish, inGuild, outranked>>
flagBits == <<flag, ruling>>

NoFlag == [of |-> "none", taken |-> FALSE, alive |-> FALSE, next |-> "none"]
Effort == efforts < EditsMax /\ efforts' = efforts + 1
There(x) == chat[x].there
Delete(x) == chat' = [chat EXCEPT ![x].there = FALSE]

\* External: a message is posted; the listeners pass over those of bots and webhooks.
PostsMessage(x, author, foul) ==
    /\ chat[x].author = "none"
    /\ chat' = [chat EXCEPT ![x] = [author |-> author, foul |-> foul, there |-> TRUE]]
    /\ checks' = checks \cup (IF author = "member" THEN {<<"profanity", x, foul>>, <<"sterile", x, foul>>} ELSE {})
    /\ UNCHANGED <<sterile, flagBits, purge, memberBits, efforts>>

\* on_message_edit: only the profanity listener looks at edits.
Edits(x) ==
    /\ Effort /\ There(x) /\ chat[x].author = "member"
    /\ \E foul \in BOOLEAN : /\ chat' = [chat EXCEPT ![x].foul = foul]
                             /\ checks' = checks \cup {<<"profanity", x, foul>>}
    /\ UNCHANGED <<sterile, flagBits, purge, memberBits>>

\* SterileChannelCog.on_message: a refused deletion is passed over.
ChecksSterile(x, foul) ==
    /\ <<"sterile", x, foul>> \in checks /\ checks' = checks \ {<<"sterile", x, foul>>}
    /\ IF sterile THEN Delete(x) \/ chat' = chat ELSE chat' = chat
    /\ UNCHANGED <<sterile, flagBits, purge, memberBits, efforts>>

\* _handle_message_for_profanity: a flag with a view of its own, if the log channel is there.
ChecksProfanity(x, foul) ==
    /\ <<"profanity", x, foul>> \in checks /\ checks' = checks \ {<<"profanity", x, foul>>}
    /\ \/ /\ foul
          /\ \E f \in Flags : flag[f] = NoFlag /\ flag' = [flag EXCEPT ![f] = [NoFlag EXCEPT !.of = x, !.alive = TRUE]]
       \/ flag' = flag
    /\ UNCHANGED <<chat, sterile, ruling, purge, memberBits, efforts>>

\* A button of the flag: the check of action_taken and its setting are one step.
Presses(f, button) ==
    /\ flag[f].alive /\ ~flag[f].taken
    /\ flag' = [flag EXCEPT ![f].taken = TRUE, ![f].next = button]
    /\ UNCHANGED <<chat, sterile, checks, ruling, purge, memberBits, efforts>>

GivesUp(f) == flag' = [flag EXCEPT ![f].next = "none"]
\* _handle_proceed_action: what is gone, or may not be deleted, ends the action; the flag
\* stays taken.
ProceedDeletes(f) ==
    /\ flag[f].next = "proceed"
    /\ \/ There(flag[f].of) /\ Delete(flag[f].of) /\ flag' = [flag EXCEPT ![f].next = "tellProceed"]
       \/ GivesUp(f) /\ chat' = chat
    /\ UNCHANGED <<sterile, checks, ruling, purge, memberBits, efforts>>

\* The notice, the edit that takes the buttons away, and the post in the log.
TellsAction(f) ==
    /\ flag[f].next \in {"ignore", "tellProceed"}
    /\ flag' = [flag EXCEPT ![f].next = "none", ![f].taken = TRUE, ![f].alive = FALSE]
    /\ ruling' = [ruling EXCEPT ![f] = Append(@, IF flag[f].next = "ignore" THEN "Ignore" ELSE "Proceed")]
    /\ UNCHANGED <<chat, sterile, checks, purge, memberBits, efforts>>

\* Discord rejects the answer: nothing is posted.
TellFails(f) ==
    /\ flag[f].next \in {"ignore", "tellProceed"}
    /\ flag' = [flag EXCEPT ![f].next = "none"]
    /\ UNCHANGED <<chat, sterile, checks, ruling, purge, memberBits, efforts>>

\* The view lives an hour, and no longer than the process.
ViewEnds(f) ==
    /\ flag[f].alive /\ flag' = [flag EXCEPT ![f].alive = FALSE]
    /\ UNCHANGED <<chat, sterile, checks, ruling, purge, memberBits, efforts>>

\* sterile add and sterile remove.
SetsSterile ==
    /\ Effort /\ sterile' = ~sterile
    /\ UNCHANGED <<chat, checks, flagBits, purge, memberBits>>

Purged(mode, x) ==
    There(x) /\ (mode = "bots" => chat[x].author # "member") /\ (mode = "users" => chat[x].author = "member")
\* /purge all, bots and users (or member): the messages found in the window are deleted.
BeginsPurge(mode) ==
    /\ Effort /\ purge = {}
    /\ purge' \in SUBSET {x \in Messages : Purged(mode, x)} /\ purge' # {}
    /\ UNCHANGED <<chat, sterile, checks, flagBits, memberBits>>

PurgeDeletes ==
    /\ purge # {} /\ purge' = {}
    /\ \E done \in SUBSET purge : chat' = [x \in Messages |-> [chat[x] EXCEPT !.there = @ /\ x \notin done]]
    /\ UNCHANGED <<sterile, checks, flagBits, memberBits, efforts>>

\* /kick and /ban: the ranks are looked at before the member is told.
BeginsPunish(m) ==
    /\ Effort /\ punish[m] = "none" /\ m \in inGuild /\ m \in outranked
    /\ punish' = [punish EXCEPT ![m] = "telling"]
    /\ UNCHANGED <<chat, sterile, checks, flagBits, purge, inGuild, outranked>>

TellsMember(m) ==
    /\ punish[m] = "telling" /\ punish' = [punish EXCEPT ![m] = "removing"]
    /\ UNCHANGED <<chat, sterile, checks, flagBits, purge, inGuild, outranked, efforts>>

\* Discord checks the ranks of the bot again.
RemovesMember(m) ==
    /\ punish[m] = "removing" /\ punish' = [punish EXCEPT ![m] = "none"]
    /\ inGuild' \in {inGuild, IF m \in outranked THEN inGuild \ {m} ELSE inGuild}
    /\ UNCHANGED <<chat, sterile, checks, flagBits, purge, outranked, efforts>>

RanksChange(m) ==
    /\ Effort /\ outranked' = (outranked \cup {m}) \ (outranked \cap {m})
    /\ UNCHANGED <<chat, sterile, checks, flagBits, purge, punish, inGuild>>

ModInit ==
    /\ chat = [x \in Messages |-> [author |-> "none", foul |-> FALSE, there |-> FALSE]]
    /\ sterile \in BOOLEAN /\ checks = {} /\ flag = [f \in Flags |-> NoFlag]
    /\ ruling = [f \in Flags |-> << >>] /\ purge = {}
    /\ punish = [m \in Punished |-> "none"] /\ inGuild = Punished /\ outranked = Punished /\ efforts = 0

ModNext ==
    \/ \E x \in Messages :
         \/ \E author \in {"member", "bot"}, foul \in BOOLEAN : PostsMessage(x, author, foul)
         \/ \E foul \in BOOLEAN : ChecksSterile(x, foul) \/ ChecksProfanity(x, foul)
         \/ Edits(x)
    \/ \E f \in Flags :
         \/ \E button \in {"ignore", "proceed"} : Presses(f, button)
         \/ ProceedDeletes(f) \/ TellsAction(f) \/ TellFails(f) \/ ViewEnds(f)
    \/ SetsSterile \/ PurgeDeletes \/ \E mode \in {"all", "bots", "users"} : BeginsPurge(mode)
    \/ \E m \in Punished : BeginsPunish(m) \/ TellsMember(m) \/ RemovesMember(m) \/ RanksChange(m)

ModSpec == ModInit /\ [][ModNext]_modVars

---------------------------------------------------------------------------

ModTypeOK ==
    /\ \A f \in Flags : flag[f].of \in Messages \cup {"none"} /\ flag[f].next \in {"none", "ignore", "proceed", "tellProceed"}
    /\ \A m \in Punished : punish[m] \in {"none", "telling", "removing"}
    /\ inGuild \subseteq Punished /\ purge \subseteq Messages

\* "Store action state on the view object so only one moderator action is processed":
\* of the two buttons, pressed by several moderators while an action suspends, one action
\* is posted, and a message that was to be deleted is gone by then.
OneActionPerFlag ==
    \A f \in Flags :
        /\ Len(ruling[f]) <= 1
        /\ ruling[f] = <<"Proceed">> => ~There(flag[f].of)
=============================================================================
