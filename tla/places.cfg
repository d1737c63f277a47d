SPECIFICATION Spec
CONSTANTS
    sun = sun
    sunr = sunr
    Short = Short
    Text = {sun, sunr}
    sunset = sunset
    lake = lake
    Name = {sunset, lake}
    Fits <- MCFits
    Mine = {sunset}
    Placed = {lake}
    place = place
    Key = {place}
    KeyOf <- MCKeyOf
    NoKey = NoKey
    KeyTyped <- MCKeyTyped
    Branches <- MCBranches
    Raw <- MCRaw
    Req = {1, 2}
    Slots = 1
    MaxTyped = 3
    MaxUpsets = 1
INVARIANTS OffersFit
PROPERTIES SearchedAgainOnlyByRace PickerSettles
CHECK_DEADLOCK FALSE
