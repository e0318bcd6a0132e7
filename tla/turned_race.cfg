CONSTANTS
    Areas = {upper, lower}
    Screens = {s1, s2}
    Nothing = Nothing
    Torn = Torn
    Builds = {"turned"}

SPECIFICATION Spec

INVARIANT NeverTorn
