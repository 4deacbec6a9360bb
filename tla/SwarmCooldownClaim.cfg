CONSTANTS
  a = a
  b = b
  g1 = g1
  g2 = g2
  h1 = h1
  h2 = h2
  Bots = {a}
  Handlers = {h1}
  Speakers = {g1, g2}
  Threshold = 3
  Cooldown = 1
  Commands = {}
SPECIFICATION Spec
PROPERTIES CooldownPerBot
