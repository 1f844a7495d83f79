------------------------------- MODULE Queries -------------------------------
(***************************************************************************)
(* The queries of the library that are one statement each: those over the  *)
(* node and edge tables (GraphQueries) and those over a stream table       *)
(* (StreamQueries).  A behaviour asks one of either, and the tables of the *)
(* other are empty.                                                        *)
(***************************************************************************)
EXTENDS GraphQueries

CONSTANTS
  Pk, Stream, Time, Bounds, Widths, Limits  \* those of StreamQueries

VARIABLES
  events, call, answer  \* likewise

streamvars == <<events, call, answer>>

Streams == INSTANCE StreamQueries
ASSUME StreamsAssumption == Streams!Considered

QueriesInit ==
  /\ Streams!Init
  /\ \/ events = {} /\ Init
     \/ node = {} /\ edge = {} /\ Init

QueriesNext ==
  \/ events = {} /\ call = None /\ Next /\ UNCHANGED streamvars
  \/ node = {} /\ edge = {} /\ query = None /\ Streams!Next /\ UNCHANGED vars

QueriesSpec == QueriesInit /\ [][QueriesNext]_<<vars, streamvars>>

\* latest_per_stream answers one newest row of each stream, of some of them if limited.
LatestIsNewest == Streams!LatestIsNewest

\* latest_per_stream answers its rows newest first.
NewestFirst == Streams!NewestFirst

\* Ranges that meet share no row and miss none, and series of such ranges join.
PagesJoin == Streams!PagesJoin
=============================================================================
