---------------------------- MODULE ConnectionMap ----------------------------
(***************************************************************************)
(* The map of connections (SMAppDelegate.m, SMMapViewController.m) on top  *)
(* of Sockets: OPEN asks the geocoder for the place of the remote address, *)
(* whose answer goes to the main thread, which sets a marker; CLOSE takes  *)
(* the marker off from a global queue.  Three queues that do not wait for  *)
(* each other.  A block that finds its socket freed, and lives, is taken   *)
(* to find its context still legible.                                      *)
(***************************************************************************)
EXTENDS Sockets

CONSTANT Private   \* the connections from an address that is not geocoded

VARIABLES
  geocode,   \* geocode[c]: none, asking, answered (queued on the main thread), done
  unset,     \* unset[c]: none, queued on the global queue, done
  mMarkers,  \* the connections with a marker
  overtaken  \* history: the connections whose marker was set after the unset

mapVars == <<geocode, unset, mMarkers, overtaken>>

MapInit ==
  /\ Init
  /\ geocode = [c \in Conn |-> "none"]
  /\ unset = [c \in Conn |-> "none"]
  /\ mMarkers = {}
  /\ overtaken = {}

\* The socket handler's OPEN.
OpenedOnMap(c) ==
  /\ RunOpen(c)
  /\ geocode' = [geocode EXCEPT ![c] = IF c \in Private THEN "done" ELSE "asking"]
  /\ UNCHANGED <<unset, mMarkers, overtaken>>

\* Fault: a geocode under way is taken to need no unset.
ClosedUnlessAsking(c) ==
  /\ RunClose(c)
  /\ unset' = [unset EXCEPT ![c] = IF geocode[c] = "asking" THEN @ ELSE "queued"]
  /\ UNCHANGED <<geocode, mMarkers, overtaken>>

\* The socket handler's CLOSE.
ClosedOnMap(c) ==
  /\ RunClose(c)
  /\ unset' = [unset EXCEPT ![c] = "queued"]
  /\ UNCHANGED <<geocode, mMarkers, overtaken>>

\* The geocoder calls its handler, or returns without.
GeocodeAnswers(c) ==
  /\ geocode[c] = "asking"
  /\ \E answer \in {"answered", "done"} : geocode' = [geocode EXCEPT ![c] = answer]
  /\ UNCHANGED <<vars, unset, mMarkers, overtaken>>

\* Fault: the marker has the key of no connection.
SetMarkerNowhere(c) ==
  /\ geocode[c] = "answered"
  /\ geocode' = [geocode EXCEPT ![c] = "done"]
  /\ mMarkers' = mMarkers \cup {MaxConn + c}
  /\ UNCHANGED <<vars, unset, overtaken>>

\* setMarkerAtLatitude:longitude:withLabel:forKey: on the main thread.
SetMarker(c) ==
  /\ geocode[c] = "answered"
  /\ geocode' = [geocode EXCEPT ![c] = "done"]
  /\ mMarkers' = mMarkers \cup {c}
  /\ overtaken' = IF unset[c] = "done" THEN overtaken \cup {c} ELSE overtaken
  /\ UNCHANGED <<vars, unset>>

\* Fault: the key of the marker is another.
UnsetOther(c) ==
  /\ unset[c] = "queued"
  /\ unset' = [unset EXCEPT ![c] = "done"]
  /\ mMarkers' = mMarkers \ {MaxConn + c}
  /\ UNCHANGED <<vars, geocode, overtaken>>

\* unsetMarkerForKey: on a global queue.
UnsetMarker(c) ==
  /\ unset[c] = "queued"
  /\ unset' = [unset EXCEPT ![c] = "done"]
  /\ mMarkers' = mMarkers \ {c}
  /\ UNCHANGED <<vars, geocode, overtaken>>

SocketSteps(c) ==
  \/ ListenerEvent(c) \/ ReadData(c) \/ ReadEnds(c)
  \/ HandleAccept(c) \/ AcceptStarts(c) \/ AcceptBanner(c) \/ RunData(c)
  \/ \E t \in Threads : ThreadStep(c, t)
  \/ Cleanup(c) \/ SocketDestroy(c)

MapNext ==
  /\ ~dead
  /\ \/ EmailzStart /\ UNCHANGED mapVars
     \/ \E c \in Conn :
          \/ SocketSteps(c) /\ UNCHANGED mapVars
          \/ OpenedOnMap(c) \/ ClosedOnMap(c)
          \/ GeocodeAnswers(c) \/ SetMarker(c) \/ UnsetMarker(c)

MapSpec == MapInit /\ [][MapNext]_<<vars, mapVars>>

\* A completion comes when its reply is written, which the client may put off for
\* ever, or its channel closed.
Running(c, t) ==
  /\ ~dead
  /\ (\E reply \in {"reply", "record out", "bye"} : At(c, "write", reply)) =>
       t = "read" \/ sock[c].channel = "closed"
  /\ ThreadStep(c, t)

\* The socket queue, the handler queue, the main thread and the global queue run
\* what they are given.  Clients and the geocoder promise nothing.
MapFairness ==
  /\ \A c \in Conn :
       /\ \A t \in Threads : WF_<<vars, mapVars>>(Running(c, t) /\ UNCHANGED mapVars)
       /\ WF_<<vars, mapVars>>(~dead /\ (Cleanup(c) \/ SocketDestroy(c)) /\ UNCHANGED mapVars)
       /\ WF_<<vars, mapVars>>(~dead /\ (SetMarker(c) \/ UnsetMarker(c)))
  /\ WF_<<vars, mapVars>>(~dead /\ \E c \in Conn :
       \/ /\ HandleAccept(c) \/ AcceptStarts(c) \/ AcceptBanner(c) \/ RunData(c)
          /\ UNCHANGED mapVars
       \/ OpenedOnMap(c) \/ ClosedOnMap(c))

FairMapSpec == MapSpec /\ MapFairness

-------------------------------------------------------------------------------
\* Type invariant.
MapTypeOK ==
  /\ geocode \in [Conn -> {"none", "asking", "answered", "done"}]
  /\ unset \in [Conn -> {"none", "queued", "done"}]
  /\ mMarkers \subseteq Conn
  /\ overtaken \subseteq Conn

\* The map shows a connection whose unset has run only if its geocode reached
\* the main thread afterwards; then the marker stays for good
\* (SMAppDelegate.m's OPEN and CLOSE).
MarkerIsLive ==
  \A c \in mMarkers : unset[c] = "done" => c \in overtaken

\* A connection that begins to stop comes off the map, if its geocode does not
\* overtake the unset and the process lives: read handler or completion, the
\* channel's cleanup, CLOSE's block and the global queue all do their part.
StopReachesMap ==
  \A c \in Conn :
    (\E t \in Threads : At(c, t, "close")) ~>
      (dead \/ (sock[c].mem = "freed" /\ unset[c] = "done"))
===============================================================================
