----------------------------- MODULE CourseVideo ------------------------------
(***************************************************************************)
(* A course page: its lessons, the one shown, and the player of its video. *)
(* One component instance serves every lesson: an effect on the video      *)
(* destroys the YouTube player, resets the controls and has a new one made *)
(* once the player script is there.  YouTube's title and links show        *)
(* through whenever a video has not begun or has ended, so an opaque gate  *)
(* covers it then, on the events the player posts.                         *)
(***************************************************************************)
EXTENDS Naturals, Sequences

CONSTANTS
    Lessons,       \* lessons in order, as positive numbers
    VideoOf,       \* the video of each, "" when it has none
    EventsBound    \* bound: events of the player on their way

ASSUME VideoConstants ==
    /\ Lessons \subseteq Nat \ {0} /\ 1 \in Lessons
    /\ DOMAIN VideoOf = Lessons /\ EventsBound \in Nat \ {0}

VARIABLES
    lessonsDone, doneSeen,   \* server: completed lessons; the page's copy
    activeLesson,            \* activeLessonId: the lesson chosen, 0 when none was
    completing,              \* the lesson being completed (0: none)
    youtubeApi,              \* the script, one for all pages: "none", "loading", "ready"
    making,                  \* the effect's continuation, waiting for the script
    mountShown,              \* the mount element is on the screen
    player, playerSays,      \* YouTube's player, and its events on their way
    controls                 \* the component's state

videoVars  == <<lessonsDone, doneSeen, activeLesson, completing, youtubeApi, making,
                mountShown, player, playerSays, controls>>
courseVars == <<lessonsDone, doneSeen, activeLesson, completing>>

NoPlayer   == [state |-> "none", rest |-> "unstarted", muted |-> FALSE, volume |-> 100]
NewPlayer  == [NoPlayer EXCEPT !.state = "unstarted"]
Fresh      == [ready |-> FALSE, started |-> FALSE, playing |-> FALSE, muted |-> FALSE,
               volume |-> 100, fallback |-> FALSE, unplayable |-> FALSE]
States     == {"unstarted", "buffering", "playing", "paused", "ended"}
Events     == States \cup {"ready", "error"}
Volumes    == {0, 100}

\* activeId: the lesson chosen, else the first that is not completed.
ActiveLesson(chosen, seen) ==
    LET open  == Lessons \ seen
        among == IF open = {} THEN Lessons ELSE open
    IN  IF chosen # 0 THEN chosen ELSE CHOOSE l \in among : \A k \in among : l <= k

VideoShown == VideoOf[ActiveLesson(activeLesson, doneSeen)]

VideoTypeOK ==
    /\ {lessonsDone, doneSeen} \subseteq SUBSET Lessons
    /\ {activeLesson, completing} \subseteq Lessons \cup {0}
    /\ youtubeApi \in {"none", "loading", "ready"} /\ {making, mountShown} \subseteq BOOLEAN
    /\ player \in [state : States \cup {"none"}, rest : States, muted : BOOLEAN, volume : Volumes]
    /\ playerSays \in Seq(Events) /\ Len(playerSays) <= EventsBound
    /\ controls \in [ready : BOOLEAN, started : BOOLEAN, playing : BOOLEAN, muted : BOOLEAN,
                     volume : Volumes, fallback : BOOLEAN, unplayable : BOOLEAN]

-----------------------------------------------------------------------------
(* Another video *)

\* SwitchVideo, when the gate is left as it was.
SwitchVideo_GateKept(video) ==
    /\ player' = NoPlayer /\ playerSays' = <<>>
    /\ controls' = [Fresh EXCEPT !.started = controls.started]
    /\ making' = (video # "") /\ mountShown' = (mountShown /\ video # "")
    /\ youtubeApi' = IF video # "" /\ youtubeApi = "none" THEN "loading" ELSE youtubeApi

\* The effect on the video, with the cleanup of the one before: the player goes
\* and its events with it, the controls are as for a new player, and a new one
\* is to be made.  A notice is still on the screen until the next render.
SwitchVideo(video) ==
    /\ player' = NoPlayer /\ playerSays' = <<>> /\ controls' = Fresh
    /\ making' = (video # "") /\ mountShown' = (mountShown /\ video # "")
    /\ youtubeApi' = IF video # "" /\ youtubeApi = "none" THEN "loading" ELSE youtubeApi

playerUnchanged == UNCHANGED <<youtubeApi, making, mountShown, player, playerSays, controls>>

\* What is shown with these lessons seen as completed and this one chosen.
ShowLesson(chosen, seen) ==
    LET video == VideoOf[ActiveLesson(chosen, seen)]
    IN  /\ activeLesson' = chosen /\ doneSeen' = seen
        /\ IF video # VideoShown THEN SwitchVideo(video) ELSE playerUnchanged

SelectLesson(l) ==
    /\ l # activeLesson /\ ShowLesson(l, doneSeen)
    /\ UNCHANGED <<lessonsDone, completing>>

\* The element the player is mounted in, once a render has replaced the notice.
Rerender ==
    /\ ~mountShown /\ VideoShown # "" /\ ~controls.fallback /\ ~controls.unplayable
    /\ mountShown' = TRUE
    /\ UNCHANGED <<courseVars, youtubeApi, making, player, playerSays, controls>>

ApiLoads ==
    /\ youtubeApi = "loading" /\ youtubeApi' = "ready"
    /\ UNCHANGED <<courseVars, making, mountShown, player, playerSays, controls>>

\* It cannot be loaded: the plain embed takes over; the next video tries again.
ApiFails ==
    /\ youtubeApi = "loading" /\ youtubeApi' = "none" /\ making' = FALSE
    /\ IF making THEN mountShown' = FALSE /\ controls' = [controls EXCEPT !.fallback = TRUE]
       ELSE UNCHANGED <<mountShown, controls>>
    /\ UNCHANGED <<courseVars, player, playerSays>>

\* The continuation.  Without its element it ends, and no player is made.
MakePlayer ==
    /\ making /\ youtubeApi = "ready" /\ making' = FALSE
    /\ IF mountShown THEN player' = NewPlayer /\ playerSays' = <<"ready">>
       ELSE UNCHANGED <<player, playerSays>>
    /\ UNCHANGED <<courseVars, youtubeApi, mountShown, controls>>

-----------------------------------------------------------------------------
(* The player *)

Goes(state, rest) ==
    /\ Len(playerSays) < EventsBound
    /\ player' = [player EXCEPT !.state = state, !.rest = rest]
    /\ playerSays' = Append(playerSays, state)

\* Asked to play, it buffers first; what it was is what it falls back to.
Plays ==
    IF player.state \in {"unstarted", "paused", "ended"}
    THEN Goes("buffering", player.state)
    ELSE UNCHANGED <<player, playerSays>>

\* It begins, is refused by the browser, runs dry, or ends.
PlayerMoves ==
    /\ \/ player.state = "buffering" /\ \E s \in {"playing", player.rest} : Goes(s, player.rest)
       \/ player.state = "playing" /\ (Goes("ended", "ended") \/ Goes("buffering", "paused"))
    /\ UNCHANGED <<courseVars, youtubeApi, making, mountShown, controls>>

PlayerErrs ==
    /\ player.state \in {"unstarted", "buffering"} /\ Len(playerSays) < EventsBound
    /\ playerSays' = Append(playerSays, "error")
    /\ UNCHANGED <<courseVars, youtubeApi, making, mountShown, player, controls>>

\* onReady, onStateChange and onError.  The gate follows PLAYING and ENDED only;
\* an error destroys the player and puts a notice in its place.
EventArrives ==
    /\ playerSays # <<>>
    /\ LET e == Head(playerSays)
       IN  IF e = "error"
           THEN /\ player' = NoPlayer /\ playerSays' = <<>> /\ mountShown' = FALSE
                /\ controls' = [controls EXCEPT !.unplayable = TRUE]
           ELSE /\ playerSays' = Tail(playerSays) /\ UNCHANGED <<player, mountShown>>
                /\ controls' = IF e = "ready" THEN [controls EXCEPT !.ready = TRUE]
                               ELSE [controls EXCEPT !.playing = (e = "playing"),
                                        !.started = e = "playing" \/ (@ /\ e # "ended")]
    /\ UNCHANGED <<courseVars, youtubeApi, making>>

-----------------------------------------------------------------------------
(* The student; the gate covers the control bar *)

controlsStay == UNCHANGED <<courseVars, youtubeApi, making, mountShown>>

\* The gate's button asks the player to play, and leaves the gate.
StartPlayback ==
    /\ mountShown /\ ~controls.started /\ controls.ready /\ player # NoPlayer
    /\ Plays /\ UNCHANGED controls /\ controlsStay

TogglePlay ==
    /\ mountShown /\ controls.started /\ player # NoPlayer
    /\ IF controls.playing
       THEN IF player.state \in {"playing", "buffering"} THEN Goes("paused", "paused")
            ELSE UNCHANGED <<player, playerSays>>
       ELSE Plays
    /\ UNCHANGED controls /\ controlsStay

\* From the end, too: the video plays on from there.
SeekTo ==
    /\ mountShown /\ controls.started /\ player.state \in {"playing", "paused", "ended"}
    /\ IF player.state = "paused" THEN UNCHANGED <<player, playerSays>>
       ELSE Goes("buffering", IF player.state = "ended" THEN "ended" ELSE "paused")
    /\ UNCHANGED controls /\ controlsStay

\* Unmuting a slider at zero gives an audible level back.
ToggleMute ==
    /\ mountShown /\ controls.started /\ player # NoPlayer
    /\ LET volume == IF controls.muted /\ controls.volume = 0 THEN 100 ELSE controls.volume
       IN  /\ player' = [player EXCEPT !.muted = ~controls.muted, !.volume = IF controls.muted THEN volume ELSE @]
           /\ controls' = [controls EXCEPT !.muted = ~@, !.volume = volume]
    /\ UNCHANGED playerSays /\ controlsStay

\* To zero mutes, off zero unmutes.
ChangeVolume(v) ==
    /\ mountShown /\ controls.started /\ player # NoPlayer
    /\ v # IF controls.muted THEN 0 ELSE controls.volume
    /\ player' = [player EXCEPT !.volume = v, !.muted = (v = 0)]
    /\ controls' = [controls EXCEPT !.volume = v, !.muted = (v = 0)]
    /\ UNCHANGED playerSays /\ controlsStay

\* handleToggleComplete: whatever it says afterwards, the server only adds.
PressComplete ==
    /\ completing = 0 /\ completing' = ActiveLesson(activeLesson, doneSeen)
    /\ UNCHANGED <<lessonsDone, doneSeen, activeLesson>> /\ playerUnchanged

Completed ==
    /\ completing # 0 /\ completing' = 0
    /\ lessonsDone' \in {lessonsDone, lessonsDone \cup {completing}}
    /\ UNCHANGED <<doneSeen, activeLesson>> /\ playerUnchanged

\* The course is read again.  While no lesson was chosen, the next one's video
\* takes the place of the one just completed.
CourseArrives ==
    /\ doneSeen # lessonsDone /\ ShowLesson(activeLesson, lessonsDone)
    /\ UNCHANGED <<lessonsDone, completing>>

-----------------------------------------------------------------------------
VideoInit ==
    /\ lessonsDone = {} /\ doneSeen = {} /\ activeLesson = 0 /\ completing = 0
    /\ youtubeApi = "loading" /\ making = TRUE /\ mountShown = TRUE
    /\ player = NoPlayer /\ playerSays = <<>> /\ controls = Fresh

VideoNext ==
    \/ \E l \in Lessons : SelectLesson(l)
    \/ Rerender \/ ApiLoads \/ ApiFails \/ MakePlayer \/ PlayerMoves \/ PlayerErrs \/ EventArrives
    \/ StartPlayback \/ TogglePlay \/ SeekTo \/ ToggleMute \/ PressComplete \/ Completed \/ CourseArrives
    \/ \E v \in Volumes : ChangeVolume(v)

VideoSpec == VideoInit /\ [][VideoNext]_videoVars

-----------------------------------------------------------------------------
\* Once the player's events have been handled, a video that has not begun, or
\* has ended, is behind the gate, whatever lessons, errors and reloads of the
\* script came before; a player that failed is gone; and the sound the controls
\* show is the player's.
GateCoversUnplayed ==
    LET still == IF player.state = "buffering" THEN player.rest ELSE player.state
    IN  /\ playerSays = <<>> /\ still \in {"unstarted", "ended"} => ~controls.started
        /\ controls.unplayable \/ controls.fallback => player = NoPlayer
        /\ player # NoPlayer => /\ controls.muted = player.muted
                                /\ controls.volume = player.volume

=============================================================================
