----------------------------- MODULE BlockDevice -----------------------------
(***************************************************************************)
(* What FatFs is promised by the disk layer: a device of NSectors sectors  *)
(* that serves one request at a time.  A request that succeeds has moved   *)
(* exactly the sectors it names; one that fails may have moved some of     *)
(* them, and nothing else.  Module SdSession, which models the code, is    *)
(* shown to implement this specification.                                  *)
(***************************************************************************)
EXTENDS Integers

CONSTANTS
  NSectors,   \* number of sectors of the device
  MaxCount,   \* the largest number of sectors of one request
  Vals,       \* contents a sector may have
  NoVal       \* what a buffer holds before anything is read into it

VARIABLES
  media,      \* contents of every sector
  busy,       \* is a request being served?
  req,        \* the request being served, or the last one served
  buf,        \* the caller's buffer
  ret         \* result of the last request served: "ok", "error", or "none"

vars == <<media, busy, req, buf, ret>>

Sectors == 0 .. NSectors - 1
Offsets == 0 .. MaxCount - 1

Requests ==
  [op : {"read", "write", "sync", "init"}, sector : Sectors, count : 0 .. MaxCount]

Init ==
  /\ media \in [Sectors -> Vals]
  /\ busy = FALSE
  /\ req \in Requests
  /\ buf \in [Offsets -> Vals \cup {NoVal}]
  /\ ret = "none"

\* The caller hands over a request and a buffer.
Submit ==
  /\ ~busy
  /\ busy' = TRUE
  /\ req' \in Requests
  /\ buf' \in [Offsets -> Vals \cup {NoVal}]
  /\ ret' = "none"
  /\ media' = media

\* One sector of the request is read into its place in the buffer.
ReadOne ==
  /\ busy /\ req.op = "read"
  /\ \E i \in 0 .. req.count - 1 : buf' = [buf EXCEPT ![i] = media[req.sector + i]]
  /\ UNCHANGED <<media, busy, req, ret>>

\* One sector of the request receives its part of the buffer.
WriteOne ==
  /\ busy /\ req.op = "write"
  /\ \E i \in 0 .. req.count - 1 : media' = [media EXCEPT ![req.sector + i] = buf[i]]
  /\ UNCHANGED <<busy, req, buf, ret>>

\* Buffer and medium agree on all the sectors of the request.
Agree(r, b, m) == \A i \in 0 .. r.count - 1 : b[i] = m[r.sector + i]

Succeed ==
  /\ busy
  /\ req.op \in {"read", "write"} => Agree(req, buf, media)
  /\ busy' = FALSE
  /\ ret' = "ok"
  /\ UNCHANGED <<media, req, buf>>

Fail ==
  /\ busy
  /\ busy' = FALSE
  /\ ret' = "error"
  /\ UNCHANGED <<media, req, buf>>

Next == Submit \/ ReadOne \/ WriteOne \/ Succeed \/ Fail

Spec == Init /\ [][Next]_vars
=============================================================================
