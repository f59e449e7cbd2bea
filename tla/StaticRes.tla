------------------------------ MODULE StaticRes ------------------------------
(***************************************************************************)
(* Static files over HTTP: DefaultHttpRequestHandler answers from its cache *)
(* or from the file, HttpResps.try304 answers "not modified" to a browser   *)
(* that has a copy.  The handler looks at the file's date, at its bytes and *)
(* at its date once more, and the file may change in between.  One path;    *)
(* every change of the file gives it another date, and the bytes of a file  *)
(* are named by the date they came with.  (Whether bytes are compressed is  *)
(* left out.)                                                               *)
(***************************************************************************)
EXTENDS Integers

CONSTANTS
  Browsers,  \* one request of each at a time
  MaxEdits,  \* bound on the changes of the file
  Absent     \* null

ASSUME StaticAssumption == MaxEdits \in Nat /\ Absent \notin Nat

Dates304 == 0 .. MaxEdits
Copy == [body: Dates304, lm: Dates304]  \* lm: the header Last-Modified
Entry == [body: Dates304, lm: Dates304, at: Dates304]  \* FileCache; at: lastModified

VARIABLES
  file,      \* the date of the file, and its bytes
  cached,    \* the entry of staticResCache, or Absent
  copy,      \* copy[b]: what browser b keeps, or Absent
  get,       \* get[b]: its request at work, see Idle304
  told       \* history: <<b's bytes, the server's>> at the last "not modified"

staticVars == <<file, cached, copy, get, told>>

\* ims: If-Modified-Since, lm and body as read for the answer, at: the date
\* for the cache.
Idle304 == [pc |-> "idle", ims |-> Absent, lm |-> 0, body |-> 0, at |-> 0]

StaticTypeOK ==
  /\ file \in Dates304
  /\ cached \in Entry \union {Absent}
  /\ copy \in [Browsers -> Copy \union {Absent}]
  /\ \A b \in Browsers :
       /\ get[b].pc \in {"idle", "cache", "date", "bytes", "dateAgain", "put"}
       /\ get[b].ims \in Dates304 \union {Absent}
       /\ {get[b].lm, get[b].body, get[b].at} \subseteq Dates304
  /\ told \in SUBSET (Dates304 \X Dates304)

StaticInit ==
  /\ file = 0
  /\ cached = Absent
  /\ copy = [b \in Browsers |-> Absent]
  /\ get = [b \in Browsers |-> Idle304]
  /\ told = {}
-----------------------------------------------------------------------------
Edit ==
  /\ file < MaxEdits
  /\ file' = file + 1
  /\ UNCHANGED <<cached, copy, get, told>>

\* maxLiveTimeOfStaticRes is over.
DropCached ==
  /\ cached # Absent
  /\ cached' = Absent
  /\ UNCHANGED <<file, copy, get, told>>

\* A browser with a copy may ask whether it is still good.
Ask(b) ==
  /\ get[b].pc = "idle"
  /\ \E ims \in {Absent} \union (IF copy[b] = Absent THEN {} ELSE {copy[b].lm}) :
       get' = [get EXCEPT ![b].pc = "cache", ![b].ims = ims]
  /\ UNCHANGED <<file, cached, copy, told>>

\* try304 for b: the date d tells; the server would send the bytes s.
Unmodified(b, d) == get[b].ims # Absent /\ d <= get[b].ims
Answer304(b, s) ==
  /\ told' = {<<copy[b].body, s>>}
  /\ get' = [get EXCEPT ![b] = Idle304]
  /\ UNCHANGED copy
Answer200(b, body, lm) ==
  /\ copy' = [copy EXCEPT ![b] = [body |-> body, lm |-> lm]]
  /\ get' = [get EXCEPT ![b] = Idle304]
  /\ UNCHANGED told

LookUp(b) ==
  /\ get[b].pc = "cache"
  /\ IF cached = Absent THEN get' = [get EXCEPT ![b].pc = "date"] /\ UNCHANGED <<copy, told>>
     ELSE IF Unmodified(b, cached.at) THEN Answer304(b, cached.body)
     ELSE Answer200(b, cached.body, cached.lm)
  /\ UNCHANGED <<file, cached>>

\* HttpResps.file.
ReadDate(b) ==
  /\ get[b].pc = "date"
  /\ IF Unmodified(b, file) THEN Answer304(b, file)
     ELSE /\ get' = [get EXCEPT ![b].pc = "bytes", ![b].lm = file]
          /\ UNCHANGED <<copy, told>>
  /\ UNCHANGED <<file, cached>>

ReadBytes(b) ==
  /\ get[b].pc = "bytes"
  /\ get' = [get EXCEPT ![b].pc = "dateAgain", ![b].body = file]
  /\ UNCHANGED <<file, cached, copy, told>>

\* file.lastModified() for the FileCache; a request without gzip leaves the
\* cache alone.  (Mutant: the header's date is taken instead.)
DateAgain_Header(b) ==
  /\ get[b].pc = "dateAgain"
  /\ get' = [get EXCEPT ![b].pc = "put", ![b].at = get[b].lm]
  /\ UNCHANGED <<file, cached, copy, told>>
DateAgain(b) ==
  /\ get[b].pc = "dateAgain"
  /\ get' = [get EXCEPT ![b].pc = "put", ![b].at = file]
  /\ UNCHANGED <<file, cached, copy, told>>

PutCached(b) ==
  /\ get[b].pc = "put"
  /\ cached' = [body |-> get[b].body, lm |-> get[b].lm, at |-> get[b].at]
  /\ Answer200(b, get[b].body, get[b].lm)
  /\ UNCHANGED file

SendOnly(b) ==
  /\ get[b].pc = "dateAgain"
  /\ Answer200(b, get[b].body, get[b].lm)
  /\ UNCHANGED <<file, cached>>

StaticNext ==
  \/ Edit \/ DropCached
  \/ \E b \in Browsers :
       \/ Ask(b) \/ LookUp(b)
       \/ ReadDate(b) \/ ReadBytes(b) \/ DateAgain(b) \/ PutCached(b) \/ SendOnly(b)

StaticSpec == StaticInit /\ [][StaticNext]_staticVars
-----------------------------------------------------------------------------
(* "Not modified" is told only to a browser whose copy is as new as the one *)
(* the server would have sent, whatever happens to the file between a       *)
(* request's three looks at it.  (HttpResps.file: the date before the       *)
(* bytes; DefaultHttpRequestHandler.handler: FileCache's date after them.)  *)
NotModifiedIsTrue == \A p \in told : p[1] >= p[2]
=============================================================================
