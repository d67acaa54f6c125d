------------------------------ MODULE Contacts ------------------------------
(***************************************************************************)
(* Who is notified about a device (engine/contacts.go): the contacts bound *)
(* to the device or to its location, less those that are switched off, not *)
(* interested in the severity, within their quiet hours, or without any    *)
(* address.  A day has DayMinutes minutes; quiet hours may span midnight.  *)
(***************************************************************************)
EXTENDS Naturals, FiniteSets

CONSTANTS DayMinutes,
          ContactKinds    \* the channels a contact may prefer

ASSUME ContactBounds == DayMinutes \in Nat \ {0} /\ ContactKinds = {"telegram", "email", "sms", "whatsapp"}

Minutes == 0..(DayMinutes - 1)
NoTime == DayMinutes      \* no quiet hours set, or not a time of day
NoTarget == "none"

VARIABLES contact,  \* the contact's row with its binding
          query,    \* [severity, minute, bound]: is the contact bound to the device or its location?
          resolved  \* "unknown", "skipped", or the kind of address used

contactVars == <<contact, query, resolved>>

Contact == [on: BOOLEAN, notifyOn: SUBSET {"warning", "critical"}, quietStart: Minutes \cup {NoTime},
            quietEnd: Minutes \cup {NoTime}, preferred: {"telegram", "email"}, addresses: SUBSET ContactKinds]

ContactsInit ==
    /\ contact \in Contact
    /\ query \in [severity: {"warning", "critical"}, minute: Minutes, bound: BOOLEAN]
    /\ resolved = "unknown"

-----------------------------------------------------------------------------
\* shouldNotify: an empty list means every severity.
ShouldNotify(notifyOn, severity) == notifyOn = {} \/ severity \in notifyOn

\* Seeded fault: quiet hours that begin in the evening are never in force.
InQuietHoursSameDay(start, end, minute) ==
    start # NoTime /\ end # NoTime /\ minute >= start /\ minute < end

InQuietHours(start, end, minute) ==
    /\ start # NoTime /\ end # NoTime
    /\ IF start <= end THEN minute >= start /\ minute < end
                       ELSE minute >= start \/ minute < end

\* resolveTarget: the preferred address, else the first the contact has.
ResolveTarget(c) ==
    LET OrElse(channel, next) == IF channel \in c.addresses THEN channel ELSE next
    IN  OrElse(c.preferred, OrElse("telegram", OrElse("email",
            OrElse("sms", OrElse("whatsapp", NoTarget)))))

\* ResolveForDevice, for one bound contact.
ResolveForDevice ==
    /\ resolved = "unknown"
    /\ resolved' = IF /\ query.bound /\ contact.on
                      /\ ShouldNotify(contact.notifyOn, query.severity)
                      /\ ~InQuietHours(contact.quietStart, contact.quietEnd, query.minute)
                      /\ ResolveTarget(contact) # NoTarget
                   THEN ResolveTarget(contact) ELSE "skipped"
    /\ UNCHANGED <<contact, query>>

ContactsNext == ResolveForDevice

ContactsSpec == ContactsInit /\ [][ContactsNext]_contactVars

-----------------------------------------------------------------------------
\* Type correctness of the resolution.
ContactsTypeOK == resolved \in ContactKinds \cup {"unknown", "skipped"}

\* Minutes from the start of a period, around the clock.
Since(start, minute) == (minute + DayMinutes - start) % DayMinutes

\* A contact is left in peace from the start of the quiet hours to their end
\* around the clock, also over midnight, and at no other time: whoever is
\* bound, interested, awake and has any address at all is notified
\* (inQuietHours, resolveTarget, ResolveForDevice).
ReachedExactlyWhenAwake ==
    LET quiet == /\ contact.quietStart # NoTime /\ contact.quietEnd # NoTime
                 /\ Since(contact.quietStart, query.minute) < Since(contact.quietStart, contact.quietEnd)
        wanted == query.bound /\ contact.on /\ (contact.notifyOn = {} \/ query.severity \in contact.notifyOn)
    IN  resolved # "unknown" =>
            ((resolved \in contact.addresses) <=> (wanted /\ ~quiet /\ contact.addresses # {}))

\* Every resolution ends in an address or a reason, and the quiet hours decide
\* it around the clock (contacts.go).
ContactsSafe ==
    /\ ContactsTypeOK
    /\ ReachedExactlyWhenAwake
=============================================================================
