CONSTANTS
    Typed <- MCTyped
    TypedClicks <- MCTypedClicks
    Bikes = {"r6"}
    Tires = {"slick"}
    Before <- MCBefore
    Elsewhere <- MCElsewhere
    DefaultUnit = "clicks"
    Notches <- MCNotches
    MaxGestures = 6
SPECIFICATION Spec
INVARIANTS
    TodayIsMeasuredToday
PROPERTIES
    GesturesKeepTheirWord
    AdjusterCounts
CHECK_DEADLOCK FALSE
