-------------------------- MODULE MCBrowserCapture --------------------------
(* Small instances of BrowserCapture for TLC.                              *)
EXTENDS BrowserCapture

CONSTANTS primary, fallback,   \* locators
          e1, e2               \* elements

\* One target with a fallback locator; another target with one locator of them.
OneTarget == << << primary, fallback >> >>
TwoTargets == << << primary, fallback >>, << primary >> >>

AnyScenario == {NoScenario, Window, 1}
NoScroll == {NoScenario}
=============================================================================
