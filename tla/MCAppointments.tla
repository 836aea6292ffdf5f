--------------------------- MODULE MCAppointments ---------------------------
EXTENDS Appointments

\* Every set of at most three bookings, some of them out of hours or overlapping.
ASSUME OfferedIsBookableOnSmallBooks ==
  LET bookings == {b \in [start : 0 .. 5, end : 0 .. 5] : b.start < b.end}
  IN \A booked \in UNION {kSubset(k, bookings) : k \in 0 .. 3} : OfferedIsBookable(booked, 1, 5)

MCAppts == 1 .. 3

MCVehicles == 1 .. 2

MCBays == 1 .. 3

MCRequests == 1 .. 3

MCDays == {1}

MCStarts == {0, 1}

MCLengths == {2}

MCSlotCapacity == 0 :> 1

Row(v, b, start, length, status) ==
  [vehicle |-> v, bay |-> b, day |-> 1, start |-> start, length |-> length, status |-> status,
   linked |-> status = "CHECKED_IN", moves |-> 0]

\* A closed appointment in a book that is empty otherwise; two bays taken at the same time.
MCSeeds ==
  {<<Row(1, 1, 0, 1, "CANCELLED"), NoRow, NoRow>>,
   <<Row(1, 1, 0, 2, "BOOKED"), Row(2, 2, 1, 1, "CHECKED_IN"), NoRow>>}
=============================================================================
