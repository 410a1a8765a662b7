CONSTANTS
    Typed <- MCTyped
    TypedClicks <- MCTypedClicks
    Bikes = {"r6"}
    Tires = {"slick"}
    Before <- MCBefore
    Elsewhere <- MCElsewhere
    DefaultUnit = "clicks"
    Notches <- MCNotches
    MaxGestures = 4
SPECIFICATION Spec
INVARIANT UnitTravels
CHECK_DEADLOCK FALSE
