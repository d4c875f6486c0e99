------------------------------ MODULE Services -------------------------------
(***************************************************************************)
(* The parts around a resource: the feed of a subscription, the client's   *)
(* live store that applies one, the filters that say which rows a reader   *)
(* gets, the pages of a list and the files that rows stand for. A          *)
(* behaviour is one of one of these parts while the others wait: each      *)
(* reaches the others' state through operations that its own module        *)
(* models, so what holds of a part here is what holds of it alone.         *)
(***************************************************************************)
EXTENDS LiveFeed, LiveStore, Filter, Paging, Files

CONSTANT Running    \* the parts that may run

ServiceParts == {"feed", "store", "filter", "pages", "files"}

ASSUME PartsAssumption == Running \subseteq ServiceParts

VARIABLE runs       \* the part that runs

serviceVars == <<runs, vars, storeVars, filterVars, pagingVars, filesVars>>

Pick(S) == CHOOSE x \in S : TRUE

FirstWalk ==
    /\ database = Pick(Dialects) /\ nullsAt = Pick(NullsAt)
    /\ sortedBy = <<>>

\* A part that waits has one initial state.
ServiceInit ==
    /\ runs \in Running
    /\ PagingInit /\ (runs # "pages" => FirstWalk)
    /\ LiveStoreInit /\ (runs # "store" => mode = Pick(StoreModes))
    /\ FilterInit /\ (runs # "filter" => vocabulary = Pick(DOMAIN Vocabularies))
    /\ FilesInit /\ (runs # "files" => route = Pick(Routes))
    /\ Init

FeedStep == runs = "feed" /\ Next /\ UNCHANGED <<runs, storeVars, filterVars, pagingVars, filesVars>>
StoreStep == runs = "store" /\ LiveStoreNext /\ UNCHANGED <<runs, vars, filterVars, pagingVars, filesVars>>
FilterStep == runs = "filter" /\ FilterNext /\ UNCHANGED <<runs, vars, storeVars, pagingVars, filesVars>>
PagesStep == runs = "pages" /\ PagingNext /\ UNCHANGED <<runs, vars, storeVars, filterVars, filesVars>>
FilesStep == runs = "files" /\ FilesNext /\ UNCHANGED <<runs, vars, storeVars, filterVars, pagingVars>>

ServiceNext == FeedStep \/ StoreStep \/ FilterStep \/ PagesStep \/ FilesStep

ServiceSpec == ServiceInit /\ [][ServiceNext]_serviceVars

-----------------------------------------------------------------------------

\* Filter's properties, asked where filters are read: the parser accepts the grammar within its
\* limits and nothing else, and gives every filter its meaning; the matcher in memory refuses no
\* row that the query returns, and accepts no other where nothing compared is missing.
FiltersSound == runs = "filter" => ParsesAsWritten /\ NothingRefused /\ NothingAdded

\* Feed and store keep their types, of what the code stores and of what the models add.
ServiceTypeOK ==
    /\ runs = "feed" => TypeOK
    /\ runs = "store" => LiveStoreTypeOK
=============================================================================
