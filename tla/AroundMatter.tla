---------------------------- MODULE AroundMatter ----------------------------
(* What happens around one matter besides its tasks, its deadlines and its *)
(* signatures: the property of the estate, the intake of its documents,    *)
(* the matter itself, its time sheet and its notices.  The five share no   *)
(* row that two of them write and take no lock of each other's, so a       *)
(* behaviour of the product is, seen through one component's variables, a  *)
(* behaviour of that component: `focus' picks the component that runs, and *)
(* TLC explores each in turn.  The matter is extended, the others are      *)
(* instances; a constant or variable of theirs that is not substituted is  *)
(* the one of the same name here.                                          *)
EXTENDS Matters

CONSTANTS Assets, Entities, Family, FamilyRole, Staff, NoAsset,
          MaxDists, MaxMessages,                                    \* EstateProperty
          Docs, Links, Types, Extractable, MaxRetries, Expiry, NoLink, \* Intake
          Team, TeamRole, Tasks, NoTask, Hours, Minutes, MaxExport, MaxEntries, \* TimeTracking
          Messages, People, Nobody, MailRetries, MaxMails, MaxCrashes \* Notifications

VARIABLES focus,
          asset, held, dists, messages, here, writing, overtaken,   \* EstateProperty
          doc, link, open, jobs, gaveUp, unasked, day, shared,      \* Intake
          staff, entries, booked, report, changed,                  \* TimeTracking
          notice, mails, inbox, logged, crashes, spoilt             \* Notifications

Estate == INSTANCE EstateProperty
  WITH Stakeholders <- Family, RoleOf <- FamilyRole,
       pending <- writing, disturbed <- overtaken
Documents == INSTANCE Intake
Time == INSTANCE TimeTracking
  WITH Stakeholders <- Team, RoleOf <- TeamRole,
       here <- staff, logged <- booked, disturbed <- changed
Notices == INSTANCE Notifications
  WITH Notices <- Messages, MaxRetries <- MailRetries, excused <- spoilt

ASSUME ComponentsAssumption ==
  /\ MatterAssumption           /\ Estate!EstateAssumption
  /\ Documents!IntakeAssumption /\ Time!TimeAssumption
  /\ Notices!NoticesAssumption

estateVars == <<asset, held, dists, messages, here, writing, overtaken>>
documentsVars == <<doc, link, open, jobs, gaveUp, unasked, day, shared>>
timeVars == <<staff, entries, booked, report, changed>>
noticesVars == <<notice, mails, inbox, logged, crashes, spoilt>>
allVars == <<focus, estateVars, documentsVars, vars, timeVars, noticesVars>>

EstateInit ==
  /\ focus \in {"estate", "documents", "planning", "time", "notices"}
  /\ Estate!Init /\ Documents!Init /\ Init /\ Time!Init /\ Notices!Init
  /\ focus # "planning" => matter.state = "CA"

EstateNext ==
  \/ /\ focus = "estate" /\ Estate!Next
     /\ UNCHANGED <<focus, documentsVars, vars, timeVars, noticesVars>>
  \/ /\ focus = "documents" /\ Documents!Next
     /\ UNCHANGED <<focus, estateVars, vars, timeVars, noticesVars>>
  \/ /\ focus = "planning" /\ Next
     /\ UNCHANGED <<focus, estateVars, documentsVars, timeVars, noticesVars>>
  \/ /\ focus = "time" /\ Time!Next
     /\ UNCHANGED <<focus, estateVars, documentsVars, vars, noticesVars>>
  \/ /\ focus = "notices" /\ Notices!Next
     /\ UNCHANGED <<focus, estateVars, documentsVars, vars, timeVars>>

EstateSpec == EstateInit /\ [][EstateNext]_allVars

\* Each component keeps its types.
ComponentsTyped == CASE focus = "estate" -> Estate!TypeOK
                     [] focus = "documents" -> Documents!TypeOK
                     [] focus = "planning" -> TypeOK
                     [] focus = "time" -> Time!TypeOK
                     [] focus = "notices" -> Notices!TypeOK

\* The components' own properties, stated and explained in their modules;
\* those of the matter (GenerationSound, DependenciesLinked, ClosedMeansDone)
\* are there under their own names.

\* What was distributed stands in the inventory as distributed and entities hold
\* only what is there (asset, entity and distribution services).
BooksAgree == focus = "estate" => Estate!BooksAgree
\* No asset moves back, no acknowledgement is dropped, no resolved dispute is
\* reopened (the same services, communications and the portal).
NothingTakenBack == Estate!NothingTakenBack
\* No document is left unread, no upload link serves two (document service, AI jobs).
IntakeComplete == focus = "documents" => Documents!IntakeComplete
\* A summary's lines add up to its total (time tracking service).
SummaryAddsUp == focus = "time" => Time!SummaryAddsUp
\* Whoever a notice is for gets it, and once (notification tasks, e-mail service).
EveryoneToldOnce == focus = "notices" => Notices!EveryoneToldOnce
=============================================================================
