--------------------------- MODULE MCUsbHidWorker ---------------------------
EXTENDS UsbHidWorker

CONSTANTS c1, c2

MCKnown == <<c2, c1>>

From(c, cmd, n) == [type |-> "init", cid |-> c, cmd |-> cmd, n |-> n, arg |-> 0]

\* Requests on two channels and everything that can interrupt them.
MCReports == {From(c1, "CBOR", 1), From(c2, "CBOR", 1), From(c1, "MSG", 1),
              From(c1, "CANCEL", 0), From(c2, "CANCEL", 0),
              From(c1, "INIT", 1), From(Broadcast, "INIT", 1)}

\* Requests only, where the stop or the cable is what interrupts them.
MCRequests == {From(c1, "CBOR", 1)}
=============================================================================
