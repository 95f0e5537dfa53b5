-------------------------------- MODULE Rulebook --------------------------------
(***************************************************************************)
(* docs/RULES.md as a second judge of the shots of Match.  It keeps its    *)
(* own record of the groups (the rule book deals them on a legal shot, the *)
(* engine on any shot that drops a ball) and judges a shot by the balls    *)
(* on the table before it (the engine by those after it).  The engine's    *)
(* verdict is compared with the book's as long as they have dealt the same *)
(* groups; Disputed names the shots they judge differently.                *)
(***************************************************************************)
EXTENDS Match

VARIABLE bookGroup \* the group of each player if the rule book had dealt them

bookVars == <<vars, bookGroup>>

Own == bookGroup[currentPlayer]

(* RULES.md, section 7: the shooter has no ball of the own group left. *)
ShootsAtEight == Own # "open" /\ GroupBalls(Own) \cap balls = {}

(* Section 4: the balls the shooter may hit first. *)
Targets ==
    IF Own = "open" THEN Solids \cup Stripes
    ELSE IF ShootsAtEight THEN {Eight} ELSE GroupBalls(Own)

(* A contact nobody saw was made, and legally, when a ball dropped. *)
LegalContact(s) ==
    s.firstContact \in Targets \/ (s.firstContact = NoBall /\ s.pocketed # {})

(* Sections 2 and 4: balls at the cushions, which a client need not count. *)
EnoughRail(s) ==
    \/ s.pocketed # {}
    \/ s.cushionHits = Unreported
    \/ s.cushionHits >= IF isBreak THEN 4 ELSE 1

LegalShot(s) == ~s.cuePocketed /\ LegalContact(s) /\ EnoughRail(s)

(* Section 3: the first ball legally pocketed after the break deals. *)
BookGroupsAfter(s) ==
    IF Own = "open" /\ ~isBreak /\ s.firstLegal # NoBall /\ LegalShot(s)
    THEN LET g == GroupOf(s.firstLegal)
         IN  [p \in Players |-> IF p = currentPlayer THEN g ELSE OtherGroup(g)]
    ELSE bookGroup

OwnNow(s) == BookGroupsAfter(s)[currentPlayer]

(* The balls of a shot that are the shooter's own, on an open table all. *)
OwnPocketed(s) == {b \in s.pocketed \ {Eight} : OwnNow(s) \in {"open", GroupOf(b)}}

(* Sections 2 and 5. *)
BookFoul(s) ==
    \/ ~LegalShot(s)
    \/ isBreak /\ Eight \in s.pocketed
    \/ OwnPocketed(s) # s.pocketed \ {Eight}

(* Section 7: the 8-ball wins when a legal shot pockets it with the last ball *)
(* of the group or after it; on an open table it loses.                       *)
EightWins(s) ==
    Own # "open" /\ LegalShot(s) /\ GroupBalls(Own) \cap balls \subseteq s.pocketed

(* Sections 6 and 7: what becomes of the shooter. *)
BookVerdict(s) ==
    IF Eight \in s.pocketed /\ ~isBreak THEN IF EightWins(s) THEN "wins" ELSE "loses"
    ELSE IF ShootsAtEight /\ s.cuePocketed THEN "loses"
    ELSE IF ~BookFoul(s) /\ OwnPocketed(s) # {} THEN "keeps"
    ELSE "passes"

(* What the engine made of the shooter. *)
EngineVerdict ==
    IF isGameOver' THEN IF winner' = currentPlayer THEN "wins" ELSE "loses"
    ELSE IF currentPlayer' = currentPlayer THEN "keeps" ELSE "passes"

BookInit == Init /\ bookGroup = group

(* The book follows every shot the server accepts. *)
Judged ==
    bookGroup' = IF ShotContinues \/ ShotDecides THEN BookGroupsAfter(shot) ELSE bookGroup

BookSpec == BookInit /\ [][Next /\ Judged]_bookVars

FairBookPlay == BookInit /\ [][Play /\ Judged]_bookVars /\ WF_vars(Server)

--------------------------------------------------------------------------------
(* The engine looks for the shooter's group on the table after the shot: the *)
(* last ball of a group, hit first, counts as hit by mistake, and the 8-ball *)
(* hit before it as hit rightly.                                             *)
ClearsGroup(s) ==
    /\ Eight \notin s.pocketed /\ ~s.cuePocketed
    /\ s.firstContact \in Targets \cup {Eight}
    /\ Own # "open" /\ ~ShootsAtEight
    /\ GroupBalls(Own) \cap balls \subseteq s.pocketed /\ s.pocketed \subseteq GroupBalls(Own)

(* A scratch that leaves the 8-ball on the table only costs the turn. *)
ScratchesAtEight(s) == ShootsAtEight /\ s.cuePocketed /\ Eight \notin s.pocketed

(* An 8-ball pocketed after hitting a wrong ball first wins all the same. *)
WinsByWrongContact(s) ==
    /\ Eight \in s.pocketed /\ ~s.cuePocketed
    /\ ~LegalContact(s)
    /\ Own # "open" /\ GroupBalls(Own) \cap balls \subseteq s.pocketed

(* The shot that deals a group, takes all its balls and the 8-ball wins. *)
WinsOnOpenTable(s) ==
    /\ Eight \in s.pocketed /\ ~s.cuePocketed
    /\ Deals(s) /\ GroupBalls(GroupOf(s.firstLegal)) \cap balls \subseteq s.pocketed

(* A break that hits nothing is no foul. *)
BreaksNothing(s) ==
    /\ isBreak /\ ~s.cuePocketed
    /\ s.firstContact = NoBall /\ s.pocketed = {} /\ EnoughRail(s)

Disputed(s) ==
    \/ ClearsGroup(s) \/ ScratchesAtEight(s) \/ WinsByWrongContact(s)
    \/ WinsOnOpenTable(s) \/ BreaksNothing(s)

(* The engine comes to the book's verdict and calls the same shots fouls. *)
Agrees ==
    /\ EngineVerdict = BookVerdict(shot)
    /\ ShotContinues => (Foul(shot) <=> BookFoul(shot))

(* Whatever combination of balls, contact and cushions a shot reports: the    *)
(* engine, which folds all faults into one flag in the order of its code,     *)
(* judges it as the rule book does, but for exactly the shots in Disputed,    *)
(* and a shot that is no foul deals the groups the book deals.                *)
RulebookVerdict ==
    [][(ShotContinues \/ ShotDecides) /\ Undisturbed /\ group = bookGroup
        => /\ Agrees <=> ~Disputed(shot)
           /\ group' = bookGroup' \/ BookFoul(shot)]_bookVars
================================================================================
